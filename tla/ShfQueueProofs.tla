---------------------------- MODULE ShfQueueProofs ----------------------------
(***************************************************************************)
(* The IPC queues of SharedHashFile for any number of processes, queues    *)
(* and items.                                                              *)
(***************************************************************************)
EXTENDS ShfQueue, WellFoundedInduction, TLAPS

-----------------------------------------------------------------------------
(***************************************************************************)
(* Lists and links.                                                        *)
(***************************************************************************)
Links == [Items -> Items \cup {NONE}]

\* The links nx lead through the items s of list l, each once.
Chain(nx, l, s) ==
  /\ s \in Seq(Items) /\ l.size = Len(s)
  /\ \A j, k \in 1..Len(s) : s[j] = s[k] => j = k
  /\ \A k \in 1..(Len(s) - 1) : nx[s[k]] = s[k + 1]
  /\ l = IF s = <<>> THEN Empty ELSE [tail |-> s[1], head |-> s[Len(s)], size |-> Len(s)]

\* And they end there.
Rep(nx, l, s) == Chain(nx, l, s) /\ (s # <<>> => nx[s[Len(s)]] = NONE)

\* A set of numbers that is not empty has a least one.
LEMMA LeastNumber ==
  ASSUME NEW T \in SUBSET Nat, T # {}
  PROVE  \E x \in T : \A y \in T : x <= y
<1>1. PICK R : R = {ss \in Nat \X Nat : ss[1] < ss[2]}
  BY Zenon
<1>2. IsWellFoundedOn(R, Nat)
  BY <1>1, NatLessThanWellFounded, Zenon DEF OpToRel
<1>3. PICK x \in T : \A y \in T : ~(<<y, x>> \in R)
  BY <1>2, WFMin, Zenon
<1>4. ASSUME NEW y \in T PROVE x <= y
  <2>1. ~(<<y, x>> \in R) /\ x \in Nat /\ y \in Nat
    BY <1>3, Zenon
  <2> QED BY <2>1, <1>1
<1> QED BY <1>4, Zenon

\* s puts the numbers 1 to n at different places below m.
Spread(s, n, m) ==
  /\ \A k \in 1..n : s[k] \in 0..(m - 1)
  /\ \A j, k \in 1..n : s[j] = s[k] => j = k

\* There are no more places than that: otherwise there is a least m for which it
\* fails, and it fails without the place m - 1 as well.
LEMMA SpreadLemma ==
  ASSUME NEW m \in Nat, NEW n \in Nat, NEW s, Spread(s, n, m)
  PROVE  n <= m
<1> DEFINE T == {x \in Nat : \E y \in Nat : \E t : y > x /\ Spread(t, y, x)}
<1>1. T \in SUBSET Nat
  BY Zenon
<1>2. m \in T \/ n <= m
  <2>1. n > m \/ n <= m
    OBVIOUS
  <2> QED BY <2>1, Zenon
<1>3. ASSUME NEW x \in Nat, NEW y \in Nat, NEW t, y > x, Spread(t, y, x), x - 1 \notin T
      PROVE  FALSE
  <2>1. /\ \A k \in 1..y : t[k] \in 0..(x - 1)
        /\ \A j, k \in 1..y : t[j] = t[k] => j = k
    BY <1>3, Zenon DEF Spread
  <2>2. x # 0
    <3>1. 1 \in 1..y /\ 0..(0 - 1) = {}
      BY <1>3
    <3> QED BY <3>1, <2>1, Zenon
  <2>3. x - 1 \in Nat /\ y > x - 1 /\ y - 1 \in Nat /\ y - 1 > x - 1
    BY <2>2, <1>3
  <2>4. CASE \A k \in 1..y : t[k] # x - 1
    <3>1. \A k \in 1..y : t[k] \in 0..(x - 1 - 1)
      BY <2>1, <2>4
    <3>2. Spread(t, y, x - 1)
      BY <3>1, <2>1, Zenon DEF Spread
    <3> QED BY <3>2, <2>3, <1>3, Zenon
  <2>5. ASSUME NEW i \in 1..y, t[i] = x - 1 PROVE FALSE
    <3>1. PICK u : u = [k \in 1..(y - 1) |-> IF k = i THEN t[y] ELSE t[k]]
      BY Zenon
    <3>2. ASSUME NEW k \in 1..(y - 1)
          PROVE  /\ u[k] = IF k = i THEN t[y] ELSE t[k]
                 /\ k \in 1..y /\ y \in 1..y /\ k # y
      BY <3>1
    <3>3. \A k \in 1..y : k # i => t[k] \in 0..(x - 1 - 1)
      <4>1. ASSUME NEW k \in 1..y, k # i PROVE t[k] \in 0..(x - 1 - 1)
        <5>1. t[k] \in 0..(x - 1) /\ t[k] # x - 1
          BY <4>1, <2>1, <2>5, Zenon
        <5> QED BY <5>1
      <4> QED BY <4>1, Zenon
    <3>4. \A k \in 1..(y - 1) : u[k] \in 0..(x - 1 - 1)
      BY <3>2, <3>3, Zenon
    <3>5. ASSUME NEW j \in 1..(y - 1), NEW k \in 1..(y - 1), u[j] = u[k] PROVE j = k
      BY <3>2, <3>5, <2>1, Zenon
    <3>6. Spread(u, y - 1, x - 1)
      BY <3>4, <3>5, Zenon DEF Spread
    <3> QED BY <3>6, <2>3, <1>3, Zenon
  <2> QED BY <2>4, <2>5, Zenon
<1>4. ASSUME T # {} PROVE FALSE
  <2>1. PICK x \in T : \A y \in T : x <= y
    BY <1>1, <1>4, LeastNumber, Zenon
  <2>2. PICK y \in Nat : \E t : y > x /\ Spread(t, y, x)
    BY <2>1, Zenon
  <2>3. x \in Nat /\ x - 1 \notin T
    <3>1. x \in Nat
      BY <1>1, Zenon
    <3>2. ~(x <= x - 1)
      BY <3>1
    <3> QED BY <3>1, <3>2, <2>1, Zenon
  <2>4. PICK t : y > x /\ Spread(t, y, x)
    BY <2>2, Zenon
  <2> QED BY <2>3, <2>4, <1>3, Zenon
<1> QED BY <1>2, <1>4, Zenon

\* What sequences of items are.
LEMMA EntryLemma ==
  ASSUME NEW s \in Seq(Items), NEW k \in 1..Len(s)
  PROVE  s[k] \in Items
OBVIOUS

\* A sequence of items is a function on 1..Len.
LEMMA LenLemma ==
  ASSUME NEW s \in Seq(Items)
  PROVE  Len(s) \in Nat /\ s \in [1..Len(s) -> Items] /\ DOMAIN s = 1..Len(s)
OBVIOUS

\* A sequence that is not empty has a first entry.
LEMMA NotEmptyLemma ==
  ASSUME NEW s \in Seq(Items), s # <<>>
  PROVE  Len(s) \in Nat /\ Len(s) > 0
OBVIOUS

\* The entries of two sequences of items one after the other.
LEMMA JoinSeqs ==
  ASSUME NEW s \in Seq(Items), NEW t \in Seq(Items)
  PROVE  /\ s \o t \in Seq(Items) /\ Len(s \o t) = Len(s) + Len(t)
         /\ \A k \in 1..(Len(s) + Len(t)) :
              (s \o t)[k] = IF k <= Len(s) THEN s[k] ELSE t[k - Len(s)]
OBVIOUS

\* Nothing is added to a sequence.
LEMMA ConcatNothing ==
  ASSUME NEW s \in Seq(Items)
  PROVE  s \o <<>> = s
OBVIOUS

\* The entries a to b, where all of them are items.
LEMMA SubSeqLemma ==
  ASSUME NEW s, NEW a \in Int, NEW b \in Int, \A k \in a..b : s[k] \in Items
  PROVE  /\ SubSeq(s, a, b) \in Seq(Items)
         /\ Len(SubSeq(s, a, b)) = IF a <= b THEN b - a + 1 ELSE 0
         /\ \A k \in 1..(b - a + 1) : SubSeq(s, a, b)[k] = s[a + k - 1]
OBVIOUS

\* There are no entries from a down to b.
LEMMA SubSeqNothing ==
  ASSUME NEW s, NEW a \in Int, NEW b \in Int, b < a
  PROVE  SubSeq(s, a, b) = <<>>
OBVIOUS

\* The entries from the first to the last are the sequence.
LEMMA SubSeqWhole ==
  ASSUME NEW s \in Seq(Items)
  PROVE  SubSeq(s, 1, Len(s)) = s
OBVIOUS

\* All entries but the first.
LEMMA TailLemma ==
  ASSUME NEW s \in Seq(Items), s # <<>>
  PROVE  Tail(s) = SubSeq(s, 2, Len(s)) /\ Len(Tail(s)) = Len(s) - 1
OBVIOUS

\* Appending an item joins the sequence of that item alone.
LEMMA AppendLemma ==
  ASSUME NEW s \in Seq(Items), NEW i \in Items
  PROVE  Append(s, i) = s \o <<i>>
OBVIOUS

\* Following the links of a chain gives its items.
LEMMA AlongLemma ==
  ASSUME NEW nx, NEW s, NEW m \in Nat, \A k \in 1..(m - 1) : nx[s[k]] = s[k + 1],
         NEW n \in 0..(m - 1)
  PROVE  Along(nx, s[1], n) = s[n + 1]
<1> DEFINE Solves(g) == g = [k \in 0..n |-> IF k = 0 THEN s[1] ELSE nx[g[k - 1]]]
           item == CHOOSE g : Solves(g)
<1>1. \E g : Solves(g)
  <2>1. PICK g : g = [k \in 0..n |-> s[k + 1]]
    BY Zenon
  <2>2. ASSUME NEW k \in 0..n
        PROVE  s[k + 1] = IF k = 0 THEN s[1] ELSE nx[g[k - 1]]
    <3>1. CASE k = 0
      BY <3>1
    <3>2. CASE k # 0
      <4>1. k - 1 \in 0..n /\ k \in 1..(m - 1) /\ (k - 1) + 1 = k
        BY <3>2
      <4> QED BY <4>1, <3>2, <2>1, Zenon
    <3> QED BY <3>1, <3>2, Zenon
  <2>3. Solves(g)
    <3>1. [k \in 0..n |-> s[k + 1]] = [k \in 0..n |-> IF k = 0 THEN s[1] ELSE nx[g[k - 1]]]
      BY <2>2, Zenon
    <3> QED BY <3>1, <2>1, Zenon
  <2> QED BY <2>3, Zenon
<1>2. Solves(item)
  BY <1>1, Zenon
<1>3. Along(nx, s[1], n) = item[n]
  BY Zenon DEF Along
<1> HIDE DEF item
<1>4. \A k \in 0..n : item[k] = IF k = 0 THEN s[1] ELSE nx[item[k - 1]]
  BY <1>2, Zenon
<1> DEFINE T == {k \in 0..n : item[k] # s[k + 1]}
<1> HIDE DEF T
<1>5. ASSUME T # {} PROVE FALSE
  <2>1. T \in SUBSET Nat
    BY DEF T
  <2>2. PICK x \in T : \A y \in T : x <= y
    BY <2>1, <1>5, LeastNumber, Zenon
  <2>3. x \in 0..n /\ item[x] # s[x + 1]
    BY <2>2, Zenon DEF T
  <2>4. x # 0
    BY <2>3, <1>4
  <2>5. x - 1 \in 0..n /\ ~(x <= x - 1) /\ x \in 1..(m - 1) /\ (x - 1) + 1 = x
    BY <2>3, <2>4
  <2>6. item[x - 1] = s[(x - 1) + 1]
    BY <2>5, <2>2, Zenon DEF T
  <2> QED BY <2>3, <2>4, <2>5, <2>6, <1>4, Zenon
<1>6. n \in 0..n
  OBVIOUS
<1> QED BY <1>3, <1>5, <1>6, Zenon DEF T

\* What a chain's items are does not depend on how they were found.
LEMMA WalkLemma ==
  ASSUME NEW nx, NEW l, NEW s, Chain(nx, l, s)
  PROVE  Walk(nx, l) = s
<1>1. /\ s \in Seq(Items) /\ l.size = Len(s)
      /\ \A k \in 1..(Len(s) - 1) : nx[s[k]] = s[k + 1]
      /\ s # <<>> => l.tail = s[1]
  BY Zenon DEF Chain
<1>2. CASE s = <<>>
  BY <1>1, <1>2, Zenon DEF Walk
<1>3. CASE s # <<>>
  <2>1. PICK n : n = Len(s) /\ n \in Nat /\ n # 0
    BY <1>1, <1>3, NotEmptyLemma
  <2>2. ASSUME NEW k \in 1..n PROVE Along(nx, l.tail, k - 1) = s[k]
    <3>1. k - 1 \in 0..(n - 1) /\ (k - 1) + 1 = k
      BY <2>1
    <3>2. Along(nx, s[1], k - 1) = s[(k - 1) + 1]
      BY <3>1, <2>1, <1>1, AlongLemma, Zenon
    <3> QED BY <3>1, <3>2, <1>1, <1>3, Zenon
  <2>3. Walk(nx, l) = [k \in 1..n |-> Along(nx, l.tail, k - 1)]
    BY <1>1, <2>1, Zenon DEF Walk
  <2>4. s = [k \in 1..n |-> s[k]]
    BY <1>1, <2>1
  <2> QED BY <2>2, <2>3, <2>4, Zenon
<1> QED BY <1>2, <1>3, Zenon

\* The sentinel SHF_QIID_NONE, with which shf.c ends a list, is no item.
LEMMA NoneLemma == NONE \notin Items
BY QueueAssumption DEF Items

\* The ends of a chain.
LEMMA EndsLemma ==
  ASSUME NEW nx, NEW l, NEW s, Chain(nx, l, s)
  PROVE  /\ s \in Seq(Items) /\ Len(s) \in Nat /\ l.size = Len(s)
         /\ s = <<>> => Len(s) = 0 /\ l = Empty /\ l.head = NONE /\ l.tail = NONE
         /\ s # <<>> => /\ Len(s) > 0 /\ 1 \in 1..Len(s) /\ Len(s) \in 1..Len(s)
                        /\ l.tail = s[1] /\ l.head = s[Len(s)]
                        /\ s[1] \in Items /\ s[Len(s)] \in Items
                        /\ l.head # NONE /\ l.tail # NONE
         /\ \A k \in 1..Len(s) : s[k] \in Items
<1>1. s \in Seq(Items) /\ l.size = Len(s) /\ Len(s) \in Nat
  BY DEF Chain
<1>2. \A k \in 1..Len(s) : s[k] \in Items
  BY <1>1, EntryLemma, Zenon
<1>3. CASE s = <<>>
  <2>1. l = Empty
    BY <1>3, Zenon DEF Chain
  <2> QED BY <1>1, <1>2, <1>3, <2>1, Zenon DEF Empty
<1>4. CASE s # <<>>
  <2>1. Len(s) > 0
    BY <1>1, <1>4, NotEmptyLemma, Zenon
  <2>2. 1 \in 1..Len(s) /\ Len(s) \in 1..Len(s)
    BY <2>1, <1>1
  <2>3. l = [tail |-> s[1], head |-> s[Len(s)], size |-> Len(s)]
    BY <1>4, Zenon DEF Chain
  <2>4. l.tail = s[1] /\ l.head = s[Len(s)]
    BY <2>3, Zenon
  <2> QED BY <1>1, <1>2, <1>4, <2>1, <2>2, <2>4, NoneLemma, Zenon
<1> QED BY <1>3, <1>4, Zenon

\* A list whose links are not changed is not changed.
LEMMA FrameLemma ==
  ASSUME NEW nx, NEW ny, NEW l, NEW s, Rep(nx, l, s),
         \A k \in 1..Len(s) : ny[s[k]] = nx[s[k]]
  PROVE  Rep(ny, l, s)
<1>1. Chain(nx, l, s)
  BY Zenon DEF Rep
<1>2. Len(s) \in Nat /\ (s # <<>> => Len(s) \in 1..Len(s))
  BY <1>1, EndsLemma
<1>3. \A k \in 1..(Len(s) - 1) : k \in 1..Len(s)
  BY <1>2
<1>4. Chain(ny, l, s)
  BY <1>1, <1>3, Zenon DEF Chain
<1> QED BY <1>2, <1>4, Zenon DEF Rep

\* The links after the chain t is hung behind the list of s.
LEMMA LinkedLemma ==
  ASSUME NEW nx \in Links, NEW l, NEW m, NEW s, NEW t, Chain(nx, l, s), Chain(nx, m, t),
         t # <<>>, \A j \in 1..Len(s), k \in 1..Len(t) : s[j] # t[k]
  PROVE  /\ Linked(nx, l, m) \in Links
         /\ \A i \in Items : Linked(nx, l, m)[i] =
              IF s # <<>> /\ i = s[Len(s)] THEN t[1]
              ELSE IF i = t[Len(t)] THEN NONE ELSE nx[i]
<1>1. PICK e : e = [nx EXCEPT ![m.head] = NONE]
  BY Zenon
<1>2. m.head = t[Len(t)] /\ m.tail = t[1] /\ m.tail \in Items /\ m.head \in Items
  BY EndsLemma, Zenon
<1>3. e \in Links /\ \A i \in Items : e[i] = IF i = m.head THEN NONE ELSE nx[i]
  BY <1>1, <1>2, Zenon DEF Links
<1>4. CASE s = <<>>
  <2>1. Linked(nx, l, m) = e
    BY <1>1, <1>4, EndsLemma, Zenon DEF Linked
  <2> QED BY <2>1, <1>2, <1>3, <1>4, Zenon
<1>5. CASE s # <<>>
  <2>1. l.head = s[Len(s)] /\ l.head \in Items /\ l.head # NONE
    BY <1>5, EndsLemma, Zenon
  <2>2. Linked(nx, l, m) = [e EXCEPT ![l.head] = m.tail]
    BY <1>1, <2>1, Zenon DEF Linked
  <2>3. PICK f : f = [e EXCEPT ![l.head] = m.tail]
    BY Zenon
  <2>4. f \in Links /\ \A i \in Items : f[i] = IF i = l.head THEN m.tail ELSE e[i]
    BY <2>1, <2>3, <1>2, <1>3, Zenon DEF Links
  <2> QED BY <2>1, <2>2, <2>3, <2>4, <1>2, <1>3, <1>5, ZenonT(30)
<1> QED BY <1>4, <1>5, Zenon

\* The two lists become one.
LEMMA JoinLemma ==
  ASSUME NEW nx \in Links, NEW l, NEW m, NEW s, NEW t, Chain(nx, l, s), Chain(nx, m, t),
         t # <<>>, \A j \in 1..Len(s), k \in 1..Len(t) : s[j] # t[k]
  PROVE  Rep(Linked(nx, l, m), Joined(l, m), s \o t)
<1>1. PICK ny : ny = Linked(nx, l, m)
  BY Zenon
<1>2. \A i \in Items : ny[i] = IF s # <<>> /\ i = s[Len(s)] THEN t[1]
                               ELSE IF i = t[Len(t)] THEN NONE ELSE nx[i]
  BY <1>1, LinkedLemma
<1>3. PICK a, b, u : a = Len(s) /\ b = Len(t) /\ u = s \o t
  BY Zenon
<1>4. /\ s \in Seq(Items) /\ t \in Seq(Items) /\ a \in Nat /\ b \in Nat /\ b > 0
      /\ l.size = a /\ m.size = b /\ (s # <<>> => a > 0) /\ (s = <<>> => a = 0)
  BY <1>3, EndsLemma
<1>5. /\ u \in Seq(Items) /\ Len(u) = a + b
      /\ \A k \in 1..a : u[k] = s[k]
      /\ \A k \in (a + 1)..(a + b) : u[k] = t[k - a] /\ k - a \in 1..b
  <2>1. /\ u \in Seq(Items) /\ Len(u) = a + b
        /\ \A i \in 1..(a + b) : u[i] = IF i <= a THEN s[i] ELSE t[i - a]
    BY <1>3, <1>4, JoinSeqs
  <2> QED BY <2>1, <1>4
<1>6. /\ \A j, k \in 1..a : s[j] = s[k] => j = k
      /\ \A j, k \in 1..b : t[j] = t[k] => j = k
      /\ \A k \in 1..(a - 1) : nx[s[k]] = s[k + 1]
      /\ \A k \in 1..(b - 1) : nx[t[k]] = t[k + 1]
      /\ \A j \in 1..a, k \in 1..b : s[j] # t[k]
      /\ \A j \in 1..a : s[j] \in Items
      /\ \A j \in 1..b : t[j] \in Items
  <2>1. /\ \A j \in 1..a : s[j] \in Items
        /\ \A j \in 1..b : t[j] \in Items
    BY <1>3, <1>4, EntryLemma, Zenon
  <2> QED BY <2>1, <1>3, Zenon DEF Chain
<1>7. \A k \in 1..(a + b) : k \in 1..a \/ k \in (a + 1)..(a + b)
  BY <1>4
<1>8. ASSUME NEW j \in 1..(a + b), NEW k \in 1..(a + b), u[j] = u[k] PROVE j = k
  <2>1. CASE j \in 1..a /\ k \in 1..a
    BY <2>1, <1>5, <1>6, <1>8, ZenonT(30)
  <2>2. CASE j \in 1..a /\ k \in (a + 1)..(a + b)
    BY <2>2, <1>5, <1>6, <1>8
  <2>3. CASE k \in 1..a /\ j \in (a + 1)..(a + b)
    BY <2>3, <1>5, <1>6, <1>8
  <2>4. CASE j \in (a + 1)..(a + b) /\ k \in (a + 1)..(a + b)
    <3>1. j - a = k - a
      BY <2>4, <1>5, <1>6, <1>8
    <3> QED BY <3>1, <1>4
  <2> QED BY <1>7, <2>1, <2>2, <2>3, <2>4, Zenon
<1>9. ASSUME NEW k \in 1..(a + b - 1) PROVE ny[u[k]] = u[k + 1]
  <2>1. CASE k < a
    <3>1. k \in 1..a /\ k + 1 \in 1..a /\ k \in 1..(a - 1) /\ a \in 1..a /\ k # a /\ b \in 1..b
      BY <2>1, <1>4
    <3>2. ny[s[k]] = nx[s[k]]
      BY <3>1, <1>2, <1>3, <1>6, ZenonT(30)
    <3> QED BY <3>1, <3>2, <1>5, <1>6, Zenon
  <2>2. CASE k = a
    <3>1. a \in 1..a /\ s # <<>> /\ a + 1 \in (a + 1)..(a + b) /\ (a + 1) - a = 1
      BY <2>2, <1>4
    <3>2. ny[s[a]] = t[1]
      BY <3>1, <1>2, <1>3, <1>6, Zenon
    <3>3. u[a + 1] = t[1]
      BY <3>1, <1>5, Zenon
    <3> QED BY <3>1, <3>2, <3>3, <2>2, <1>5, Zenon
  <2>3. CASE k > a
    <3>1. PICK i : i = k - a
      BY Zenon
    <3>2. /\ k \in (a + 1)..(a + b) /\ k + 1 \in (a + 1)..(a + b) /\ (k + 1) - a = i + 1
          /\ i \in 1..(b - 1) /\ i \in 1..b /\ i # b /\ b \in 1..b /\ (s # <<>> => a \in 1..a)
      BY <3>1, <2>3, <1>4
    <3>3. u[k] = t[i]
      BY <3>1, <3>2, <1>5, Zenon
    <3>4. u[k + 1] = t[(k + 1) - a]
      BY <3>2, <1>5, Zenon
    <3>5. ny[t[i]] = nx[t[i]]
      <4>1. t[i] \in Items /\ t[i] # t[b] /\ (s # <<>> => t[i] # s[a])
        BY <3>2, <1>6, Zenon
      <4> QED BY <4>1, <1>2, <1>3, Zenon
    <3> QED BY <3>2, <3>3, <3>4, <3>5, <1>6, Zenon
  <2> QED BY <2>1, <2>2, <2>3, <1>4
<1>10. /\ a + b \in (a + 1)..(a + b) /\ (a + b) - a = b /\ b \in 1..b /\ a + b > 0
       /\ 1 \in 1..(a + b) /\ (s # <<>> => a \in 1..a /\ 1 \in 1..a)
       /\ (s = <<>> => 1 \in (a + 1)..(a + b) /\ 1 - a = 1)
  BY <1>4
<1>11. u[a + b] = t[b] /\ u[1] = IF s = <<>> THEN t[1] ELSE s[1]
  BY <1>10, <1>5, Zenon
<1>12. u # <<>>
  BY <1>5, <1>10
<1>13. ny[u[a + b]] = NONE
  <2>1. t[b] \in Items /\ (s # <<>> => t[b] # s[a])
    BY <1>10, <1>6, Zenon
  <2> QED BY <2>1, <1>2, <1>3, <1>11, Zenon
<1>14. Joined(l, m) = [tail |-> u[1], head |-> u[a + b], size |-> a + b]
  <2>1. /\ l.head = NONE <=> s = <<>>
        /\ m.tail = t[1] /\ m.head = t[b] /\ (s # <<>> => l.tail = s[1])
    BY <1>3, EndsLemma, ZenonT(30)
  <2> QED BY <2>1, <1>4, <1>11, Zenon DEF Joined
<1>15. Joined(l, m).size = a + b
  BY <1>14
<1>16. Chain(ny, Joined(l, m), u)
  <2>1. PICK c : c = a + b /\ c = Len(u)
    BY <1>5, Zenon
  <2>2. \A j, k \in 1..c : u[j] = u[k] => j = k
    BY <2>1, <1>8, Zenon
  <2>3. \A k \in 1..(c - 1) : ny[u[k]] = u[k + 1]
    <3>1. SUFFICES ASSUME NEW k \in 1..(c - 1) PROVE ny[u[k]] = u[k + 1]
      BY Zenon
    <3>2. k \in 1..(a + b - 1)
      BY <2>1, <1>4
    <3> QED BY <3>2, <1>9, Zenon
  <2>4. /\ Joined(l, m) = [tail |-> u[1], head |-> u[c], size |-> c]
        /\ Joined(l, m).size = c
    BY <2>1, <1>14, <1>15, Zenon
  <2> QED BY <2>1, <2>2, <2>3, <2>4, <1>5, <1>12, Zenon DEF Chain
<1> QED BY <1>1, <1>3, <1>5, <1>13, <1>16, Zenon DEF Rep

\* A list has no more items than there are.
LEMMA SizeLemma ==
  ASSUME NEW nx, NEW l, NEW s, Chain(nx, l, s)
  PROVE  l \in Lists
<1>1. PICK n : n = Len(s) /\ n \in Nat
  BY EndsLemma, Zenon
<1>2. s \in Seq(Items) /\ \A j, k \in 1..n : s[j] = s[k] => j = k
  BY <1>1, Zenon DEF Chain
<1>3. \A k \in 1..n : s[k] \in 0..(q_items - 1)
  BY <1>1, <1>2, EntryLemma, Zenon DEF Items
<1>4. q_items \in Nat
  BY QueueAssumption, Zenon
<1>5. n <= q_items
  <2>1. Spread(s, n, q_items)
    BY <1>2, <1>3, Zenon DEF Spread
  <2> QED BY <2>1, <1>1, <1>4, SpreadLemma, Zenon
<1>7. n \in 0..q_items
  BY <1>1, <1>4, <1>5
<1>8. CASE s = <<>>
  <2>1. l = Empty
    BY <1>8, EndsLemma, Zenon
  <2>2. 0 \in 0..q_items
    BY <1>4
  <2> QED BY <2>1, <2>2, Zenon DEF Lists, Empty
<1>9. CASE s # <<>>
  <2>1. /\ l = [tail |-> s[1], head |-> s[n], size |-> n]
        /\ s[1] \in Items /\ s[n] \in Items
    <3>1. s[1] \in Items /\ s[n] \in Items
      BY <1>1, <1>9, EndsLemma, Zenon
    <3> QED BY <3>1, <1>1, <1>9, Zenon DEF Chain
  <2> QED BY <2>1, <1>7, Zenon DEF Lists
<1> QED BY <1>8, <1>9, Zenon

\* A part of a chain is a chain.
LEMMA PartLemma ==
  ASSUME NEW nx, NEW l, NEW s, Chain(nx, l, s), NEW a \in 1..Len(s), NEW b \in a..Len(s)
  PROVE  /\ Chain(nx, [tail |-> s[a], head |-> s[b], size |-> b - a + 1], SubSeq(s, a, b))
         /\ SubSeq(s, a, b) # <<>> /\ Len(SubSeq(s, a, b)) = b - a + 1
         /\ SubSeq(s, a, b)[b - a + 1] = s[b]
         /\ \A k \in 1..(b - a + 1) : SubSeq(s, a, b)[k] = s[a + k - 1]
<1>1. PICK n : n = Len(s) /\ n \in Nat
  BY EndsLemma, Zenon
<1>2. /\ s \in Seq(Items) /\ \A j, k \in 1..n : s[j] = s[k] => j = k
      /\ \A k \in 1..(n - 1) : nx[s[k]] = s[k + 1]
  BY <1>1, Zenon DEF Chain
<1>3. PICK t, c : t = SubSeq(s, a, b) /\ c = b - a + 1
  BY Zenon
<1>4. /\ a \in Int /\ b \in Int /\ a <= b /\ c \in Nat /\ c > 0 /\ a + c - 1 = b
      /\ \A i \in a..b : i \in 1..n
      /\ \A k \in 1..c : a + k - 1 \in 1..n
      /\ \A k \in 1..(c - 1) : /\ a + k - 1 \in 1..(n - 1) /\ (a + k - 1) + 1 = a + (k + 1) - 1
                               /\ k \in 1..c /\ k + 1 \in 1..c
      /\ \A j, k \in 1..c : a + j - 1 = a + k - 1 => j = k
      /\ 1 \in 1..c /\ c \in 1..c /\ a + 1 - 1 = a
  BY <1>1, <1>3
<1>5. \A i \in a..b : s[i] \in Items
  BY <1>1, <1>2, <1>4, EntryLemma, Zenon
<1>6. /\ t \in Seq(Items) /\ Len(t) = c
      /\ \A k \in 1..c : t[k] = s[a + k - 1]
  <2>1. /\ t \in Seq(Items)
        /\ Len(t) = IF a <= b THEN b - a + 1 ELSE 0
        /\ \A i \in 1..(b - a + 1) : t[i] = s[a + i - 1]
    BY <1>3, <1>4, <1>5, SubSeqLemma
  <2> QED BY <2>1, <1>3, <1>4, Zenon
<1>7. \A j, k \in 1..c : t[j] = t[k] => j = k
  <2>1. ASSUME NEW j \in 1..c, NEW k \in 1..c, t[j] = t[k] PROVE j = k
    <3>1. s[a + j - 1] = s[a + k - 1]
      BY <2>1, <1>6, Zenon
    <3>2. a + j - 1 = a + k - 1
      BY <3>1, <1>2, <1>4, Zenon
    <3> QED BY <3>2, <1>4, Zenon
  <2> QED BY <2>1, Zenon
<1>8. ASSUME NEW k \in 1..(c - 1) PROVE nx[t[k]] = t[k + 1]
  <2>1. t[k] = s[a + k - 1] /\ t[k + 1] = s[a + (k + 1) - 1]
    BY <1>4, <1>6, Zenon
  <2>2. nx[s[a + k - 1]] = s[(a + k - 1) + 1]
    BY <1>2, <1>4, Zenon
  <2> QED BY <2>1, <2>2, <1>4, Zenon
<1>9. t[1] = s[a] /\ t[c] = s[b]
  BY <1>4, <1>6, Zenon
<1>10. t # <<>>
  BY <1>4, <1>6
<1>11. PICK m : m = [tail |-> s[a], head |-> s[b], size |-> c]
  BY Zenon
<1>12. m.size = c /\ m = [tail |-> t[1], head |-> t[c], size |-> c]
  BY <1>9, <1>11, Zenon
<1>13. Chain(nx, m, t)
  BY <1>6, <1>7, <1>8, <1>10, <1>12, Zenon DEF Chain
<1> QED BY <1>3, <1>6, <1>9, <1>10, <1>11, <1>13, Zenon

\* shf_q_flush takes the first n items off a list.
LEMMA CutLemma ==
  ASSUME NEW nx, NEW l, NEW s, Rep(nx, l, s), NEW n \in 1..Len(s)
  PROVE  /\ Chain(nx, Front(nx, l, n), SubSeq(s, 1, n))
         /\ Rep(nx, Rest(nx, l, n), SubSeq(s, n + 1, Len(s)))
<1>1. PICK m : m = Len(s) /\ m \in Nat
  BY EndsLemma, Zenon DEF Rep
<1>2. /\ Chain(nx, l, s) /\ s # <<>> /\ nx[s[m]] = NONE
      /\ l = [tail |-> s[1], head |-> s[m], size |-> m]
      /\ \A k \in 1..(m - 1) : nx[s[k]] = s[k + 1]
  <2>1. s # <<>>
    BY <1>1
  <2> QED BY <2>1, <1>1, Zenon DEF Rep, Chain
<1>3. l.tail = s[1] /\ l.head = s[m] /\ l.size = m
  BY <1>2, Zenon
<1>4. Along(nx, l.tail, n - 1) = s[n]
  <2>1. n - 1 \in 0..(m - 1) /\ (n - 1) + 1 = n
    BY <1>1
  <2>2. Along(nx, s[1], n - 1) = s[(n - 1) + 1]
    BY <2>1, <1>1, <1>2, AlongLemma, ZenonT(30)
  <2> QED BY <2>1, <2>2, <1>3, Zenon
<1>5. Chain(nx, Front(nx, l, n), SubSeq(s, 1, n))
  <2>1. 1 \in 1..m /\ n \in 1..m /\ n - 1 + 1 = n
    BY <1>1
  <2>2. Chain(nx, [tail |-> s[1], head |-> s[n], size |-> n - 1 + 1], SubSeq(s, 1, n))
    BY <2>1, <1>1, <1>2, PartLemma, Zenon
  <2>3. Front(nx, l, n) = [tail |-> s[1], head |-> s[n], size |-> n]
    BY <1>3, <1>4, Zenon DEF Front
  <2> QED BY <2>1, <2>2, <2>3, Zenon
<1>6. CASE n = m
  <2>1. SubSeq(s, n + 1, m) = <<>>
    BY <1>1, <1>6, SubSeqNothing
  <2>2. Rest(nx, l, n) = Empty
    BY <1>3, <1>6, Zenon DEF Rest
  <2>3. Rep(nx, Empty, <<>>)
    BY DEF Rep, Chain, Empty
  <2> QED BY <2>1, <2>2, <2>3, <1>1, <1>5, Zenon
<1>7. CASE n # m
  <2>1. /\ n \in 1..(m - 1) /\ n + 1 \in 1..m /\ m \in (n + 1)..m
        /\ m - (n + 1) + 1 = m - n
    BY <1>1, <1>7
  <2>2. PICK t : t = SubSeq(s, n + 1, m)
    BY Zenon
  <2>3. /\ Chain(nx, [tail |-> s[n + 1], head |-> s[m], size |-> m - n], t)
        /\ Len(t) = m - n /\ t[m - n] = s[m]
    <3>1. /\ Chain(nx, [tail |-> s[n + 1], head |-> s[m], size |-> m - (n + 1) + 1], t)
          /\ Len(t) = m - (n + 1) + 1 /\ t[m - (n + 1) + 1] = s[m]
      BY <2>1, <2>2, <1>1, <1>2, PartLemma
    <3> QED BY <2>1, <3>1, Zenon
  <2>4. Rest(nx, l, n) = [l EXCEPT !.tail = s[n + 1], !.size = @ - n]
    BY <2>1, <1>2, <1>3, <1>4, <1>7, Zenon DEF Rest
  <2>5. Rest(nx, l, n) = [tail |-> s[n + 1], head |-> s[m], size |-> m - n]
    BY <2>4, <1>2, Zenon
  <2>6. Rep(nx, Rest(nx, l, n), t)
    BY <2>3, <2>5, <1>2, Zenon DEF Rep
  <2> QED BY <2>2, <2>6, <1>1, <1>5, Zenon
<1> QED BY <1>6, <1>7, Zenon

\* A pull takes the first item off a list.
LEMMA FirstLemma ==
  ASSUME NEW nx, NEW l, NEW s, Rep(nx, l, s), s # <<>>
  PROVE  /\ l.tail = s[1] /\ s[1] = Head(s)
         /\ Rep(nx, [tail |-> nx[l.tail], head |-> IF nx[l.tail] = NONE THEN NONE ELSE l.head,
                     size |-> l.size - 1], Tail(s))
<1>1. Chain(nx, l, s)
  BY Zenon DEF Rep
<1>2. PICK m : m = Len(s) /\ m \in Nat /\ m > 0
  BY <1>1, EndsLemma
<1>3. /\ l = [tail |-> s[1], head |-> s[m], size |-> m] /\ nx[s[m]] = NONE
      /\ \A k \in 1..(m - 1) : nx[s[k]] = s[k + 1]
  BY <1>1, <1>2, Zenon DEF Rep, Chain
<1>4. l.tail = s[1] /\ l.head = s[m] /\ l.size = m /\ s \in Seq(Items)
  BY <1>1, <1>3 DEF Chain
<1>5. Rep(nx, Rest(nx, l, 1), Tail(s))
  <2>1. 1 \in 1..m /\ 1 + 1 = 2
    BY <1>2
  <2>2. Rep(nx, Rest(nx, l, 1), SubSeq(s, 1 + 1, m))
    BY <2>1, <1>2, CutLemma, Zenon
  <2>3. Tail(s) = SubSeq(s, 2, m)
    BY <1>2, <1>4, TailLemma, Zenon
  <2> QED BY <2>1, <2>2, <2>3, Zenon
<1>6. Along(nx, l.tail, 1 - 1) = s[1]
  <2>1. 1 - 1 = 0 /\ 0 \in 0..(m - 1) /\ 0 + 1 = 1
    BY <1>2
  <2>2. Along(nx, s[1], 0) = s[0 + 1]
    BY <2>1, <1>2, <1>3, AlongLemma, ZenonT(30)
  <2> QED BY <2>1, <2>2, <1>4, Zenon
<1>7. Rest(nx, l, 1) = [tail |-> nx[l.tail], head |-> IF nx[l.tail] = NONE THEN NONE ELSE l.head,
                        size |-> l.size - 1]
  <2>1. CASE m = 1
    <3>1. Rest(nx, l, 1) = Empty
      BY <2>1, <1>4, Zenon DEF Rest
    <3> QED BY <3>1, <2>1, <1>3, <1>4 DEF Empty
  <2>2. CASE m # 1
    <3>1. 1 \in 1..(m - 1) /\ 2 \in 1..m /\ 1 + 1 = 2
      BY <2>2, <1>2
    <3>2. nx[s[1]] = s[2] /\ s[2] \in Items
      <4>1. nx[s[1]] = s[1 + 1]
        BY <3>1, <1>3, Zenon
      <4> QED BY <4>1, <3>1, <1>2, <1>4, EntryLemma, Zenon
    <3>3. nx[l.tail] # NONE
      BY <3>2, <1>4, NoneLemma, Zenon
    <3>4. Rest(nx, l, 1) = [l EXCEPT !.tail = nx[l.tail], !.size = @ - 1]
      BY <2>2, <1>4, <1>6, Zenon DEF Rest
    <3> QED BY <3>3, <3>4, <1>3, <1>4, Zenon
  <2> QED BY <2>1, <2>2, Zenon
<1> QED BY <1>4, <1>5, <1>7

\* f has the links that shf_q_flush makes one queue after the other.
HungBy(nx, E, qd, ps, n, f) ==
  f = [k \in 0..n |->
         IF k = 0 THEN nx
         ELSE IF (k - 1) \in E THEN Linked(f[k - 1], qd[k - 1], ps[k - 1]) ELSE f[k - 1]]

\* The recursion of Hung has a solution.
LEMMA HungExists ==
  ASSUME NEW nx, NEW E, NEW qd, NEW ps, NEW n \in Nat
  PROVE  \E f : HungBy(nx, E, qd, ps, n, f)
<1> DEFINE More(x, k) == IF k \in E THEN Linked(x, qd[k], ps[k]) ELSE x
           Solves(f, j) == \A k \in 0..j : f[k] = IF k = 0 THEN nx ELSE More(f[k - 1], k - 1)
           T == {j \in 0..n : ~ \E f : DOMAIN f = 0..j /\ Solves(f, j)}
<1> HIDE DEF T, More
<1>1. ASSUME T # {} PROVE FALSE
  <2>1. T \in SUBSET Nat
    BY DEF T
  <2>2. PICK x \in T : \A y \in T : x <= y
    BY <2>1, <1>1, LeastNumber, Zenon
  <2>3. x \in 0..n /\ ~ \E f : DOMAIN f = 0..x /\ Solves(f, x)
    BY <2>2, Zenon DEF T
  <2>4. CASE x = 0
    <3>1. PICK f : f = [k \in 0..x |-> nx]
      BY Zenon
    <3>2. DOMAIN f = 0..x /\ Solves(f, x)
      BY <3>1, <2>4
    <3> QED BY <3>2, <2>3, Zenon
  <2>5. CASE x # 0
    <3>1. x - 1 \in 0..n /\ ~(x <= x - 1)
      BY <2>5, <2>3
    <3>2. PICK f : DOMAIN f = 0..(x - 1) /\ Solves(f, x - 1)
      BY <3>1, <2>2, Zenon DEF T
    <3>3. PICK g : g = [k \in 0..x |-> IF k = x THEN More(f[x - 1], x - 1) ELSE f[k]]
      BY Zenon
    <3>4. ASSUME NEW k \in 0..x
          PROVE  g[k] = IF k = 0 THEN nx ELSE More(g[k - 1], k - 1)
      <4>1. CASE k = x
        <5>1. k - 1 \in 0..x /\ k - 1 # x /\ k # 0
          BY <4>1, <2>3, <2>5
        <5> QED BY <5>1, <4>1, <3>3, Zenon
      <4>2. CASE k # x
        <5>1. k \in 0..(x - 1) /\ (k # 0 => k - 1 \in 0..x /\ k - 1 # x)
          BY <4>2, <2>3
        <5>2. g[k] = f[k] /\ (k # 0 => g[k - 1] = f[k - 1])
          BY <5>1, <4>2, <3>3, Zenon
        <5> QED BY <5>1, <5>2, <3>2, Zenon
      <4> QED BY <4>1, <4>2, Zenon
    <3>5. DOMAIN g = 0..x
      BY <3>3, Zenon
    <3> QED BY <3>4, <3>5, <2>3, Zenon
  <2> QED BY <2>4, <2>5, Zenon
<1>2. n \in 0..n
  OBVIOUS
<1>3. PICK f : DOMAIN f = 0..n /\ Solves(f, n)
  BY <1>1, <1>2, Zenon DEF T
<1>5. PICK g : g = [k \in 0..n |-> f[k]]
  BY Zenon
<1>6. \A k \in 0..n : k # 0 => k - 1 \in 0..n
  OBVIOUS
<1>7. \A k \in 0..n : g[k] = f[k]
  BY <1>5, Zenon
<1>8. \A k \in 0..n : f[k] = IF k = 0 THEN nx ELSE More(g[k - 1], k - 1)
  BY <1>3, <1>6, <1>7, Zenon
<1>9. g = [k \in 0..n |-> IF k = 0 THEN nx ELSE More(g[k - 1], k - 1)]
  BY <1>5, <1>8, Zenon
<1> QED BY <1>9, Zenon DEF More, HungBy

\* Where the items of a concatenation come from.
LEMMA ConcatLemma ==
  ASSUME NEW a \in Seq(Items), NEW b \in Seq(Items), NEW k \in 1..Len(a \o b)
  PROVE  \/ k \in 1..Len(a) /\ (a \o b)[k] = a[k]
         \/ k - Len(a) \in 1..Len(b) /\ (a \o b)[k] = b[k - Len(a)]
<1>1. PICK u, m, n : u = a \o b /\ m = Len(a) /\ n = Len(b)
  BY Zenon
<1>2. m \in Nat /\ n \in Nat
  BY <1>1, LenLemma, Zenon
<1>3. Len(u) = m + n /\ \A i \in 1..(m + n) : u[i] = IF i <= m THEN a[i] ELSE b[i - m]
  BY <1>1, JoinSeqs, Zenon
<1>4. k \in 1..(m + n)
  BY <1>1, <1>3, Zenon
<1>5. \/ k \in 1..m /\ u[k] = a[k]
      \/ k - m \in 1..n /\ u[k] = b[k - m]
  BY <1>2, <1>3, <1>4
<1> QED BY <1>1, <1>5, Zenon

\* The lists ps with the items B are hung behind the lists qd with the items A, of
\* which no two have an item in common.
Apart(A, B) ==
  \A r, t \in Qids :
    /\ A[r] \in Seq(Items) /\ B[r] \in Seq(Items)
    /\ \A j \in 1..Len(A[r]), k \in 1..Len(B[t]) : A[r][j] # B[t][k]
    /\ r # t => /\ \A j \in 1..Len(A[r]), k \in 1..Len(A[t]) : A[r][j] # A[t][k]
                /\ \A j \in 1..Len(B[r]), k \in 1..Len(B[t]) : B[r][j] # B[t][k]

\* What shf_q_flush has done before queue k, with the links ny.
Halfway(nx, ny, qd, ps, A, B, k) ==
  /\ ny \in Links
  /\ \A r \in Qids :
       IF r < k
         THEN Rep(ny, IF B[r] # <<>> THEN Joined(qd[r], ps[r]) ELSE qd[r], A[r] \o B[r])
         ELSE Rep(ny, qd[r], A[r]) /\ Rep(ny, ps[r], B[r])
  /\ \A i \in Items :
       (\A r \in Qids : (\A j \in 1..Len(A[r]) : A[r][j] # i)
                          /\ (\A j \in 1..Len(B[r]) : B[r][j] # i)) => ny[i] = nx[i]

\* One queue.
LEMMA HangOne ==
  ASSUME NEW nx, NEW ny, NEW qd, NEW ps, NEW A, NEW B, Apart(A, B), NEW x \in Qids,
         Halfway(nx, ny, qd, ps, A, B, x), B[x] # <<>>
  PROVE  Halfway(nx, Linked(ny, qd[x], ps[x]), qd, ps, A, B, x + 1)
<1>1. PICK nz, l, m, s, t : nz = Linked(ny, qd[x], ps[x]) /\ l = qd[x] /\ m = ps[x]
                            /\ s = A[x] /\ t = B[x]
  BY Zenon
<1>2. /\ x \in Int /\ ~(x < x) /\ x < x + 1 /\ \A r \in Qids : r # x => (r < x + 1 <=> r < x)
  BY QueueAssumption DEF Qids
<1>3. ny \in Links /\ Rep(ny, l, s) /\ Rep(ny, m, t) /\ t # <<>>
  BY <1>1, <1>2, Zenon DEF Halfway
<1>4. /\ Chain(ny, l, s) /\ Chain(ny, m, t)
      /\ \A j \in 1..Len(s), k \in 1..Len(t) : s[j] # t[k]
  BY <1>1, <1>3, ZenonT(30) DEF Rep, Apart
<1>5. Rep(nz, Joined(l, m), s \o t)
  BY <1>1, <1>3, <1>4, JoinLemma, Zenon
<1>6. /\ nz \in Links
      /\ \A i \in Items : nz[i] = IF s # <<>> /\ i = s[Len(s)] THEN t[1]
                                  ELSE IF i = t[Len(t)] THEN NONE ELSE ny[i]
  <2>1. Linked(ny, l, m) = nz
    BY <1>1, Zenon
  <2> QED BY <2>1, <1>3, <1>4, LinkedLemma
<1>7. Len(t) \in 1..Len(t) /\ (s # <<>> => Len(s) \in 1..Len(s))
  BY <1>3, <1>4, EndsLemma, Zenon
<1>8. ASSUME NEW i \in Items, \A j \in 1..Len(s) : s[j] # i, \A j \in 1..Len(t) : t[j] # i
      PROVE  nz[i] = ny[i]
  BY <1>6, <1>7, <1>8, Zenon
<1>9. ASSUME NEW o, NEW u, Rep(ny, o, u), \A j \in 1..Len(s), k \in 1..Len(u) : s[j] # u[k],
             \A j \in 1..Len(t), k \in 1..Len(u) : t[j] # u[k]
      PROVE  Rep(nz, o, u)
  <2>1. \A k \in 1..Len(u) : u[k] \in Items
    BY <1>9, EndsLemma, Zenon DEF Rep
  <2>2. \A k \in 1..Len(u) : nz[u[k]] = ny[u[k]]
    BY <2>1, <1>8, <1>9, Zenon
  <2> QED BY <2>2, <1>9, FrameLemma, Zenon
<1>10. ASSUME NEW r \in Qids, r # x
       PROVE  IF r < x + 1
                THEN Rep(nz, IF B[r] # <<>> THEN Joined(qd[r], ps[r]) ELSE qd[r], A[r] \o B[r])
                ELSE Rep(nz, qd[r], A[r]) /\ Rep(nz, ps[r], B[r])
  <2>1. /\ \A j \in 1..Len(s), k \in 1..Len(A[r]) : s[j] # A[r][k]
        /\ \A j \in 1..Len(t), k \in 1..Len(A[r]) : t[j] # A[r][k]
        /\ \A j \in 1..Len(s), k \in 1..Len(B[r]) : s[j] # B[r][k]
        /\ \A j \in 1..Len(t), k \in 1..Len(B[r]) : t[j] # B[r][k]
    <3>1. /\ \A j \in 1..Len(A[x]), k \in 1..Len(A[r]) : A[x][j] # A[r][k]
          /\ \A j \in 1..Len(B[x]), k \in 1..Len(B[r]) : B[x][j] # B[r][k]
          /\ \A j \in 1..Len(A[x]), k \in 1..Len(B[r]) : A[x][j] # B[r][k]
      BY <1>10, Zenon DEF Apart
    <3>2. \A j \in 1..Len(A[r]), k \in 1..Len(B[x]) : A[r][j] # B[x][k]
      BY Zenon DEF Apart
    <3> QED BY <3>1, <3>2, <1>1, Zenon
  <2>2. CASE r < x
    <3>1. PICK o, u : u = A[r] \o B[r] /\ o = IF B[r] # <<>> THEN Joined(qd[r], ps[r]) ELSE qd[r]
      BY Zenon
    <3>2. Rep(ny, o, u)
      BY <3>1, <2>2, Zenon DEF Halfway
    <3>3. /\ \A j \in 1..Len(s), k \in 1..Len(u) : s[j] # u[k]
          /\ \A j \in 1..Len(t), k \in 1..Len(u) : t[j] # u[k]
      <4>1. PICK a, b : a = A[r] /\ b = B[r] /\ a \in Seq(Items) /\ b \in Seq(Items)
        BY Zenon DEF Apart
      <4>2. ASSUME NEW k \in 1..Len(u)
            PROVE  \/ k \in 1..Len(a) /\ u[k] = a[k]
                   \/ k - Len(a) \in 1..Len(b) /\ u[k] = b[k - Len(a)]
        BY <3>1, <4>1, ConcatLemma, ZenonT(30)
      <4>3. ASSUME NEW k \in 1..Len(u)
            PROVE  (\A j \in 1..Len(s) : s[j] # u[k]) /\ (\A j \in 1..Len(t) : t[j] # u[k])
        <5>1. CASE k \in 1..Len(a) /\ u[k] = a[k]
          BY <5>1, <4>1, <2>1, Zenon
        <5>2. CASE k - Len(a) \in 1..Len(b) /\ u[k] = b[k - Len(a)]
          BY <5>2, <4>1, <2>1, Zenon
        <5> QED BY <4>2, <5>1, <5>2, Zenon
      <4> QED BY <4>3, Zenon
    <3>4. Rep(nz, o, u)
      BY <3>2, <3>3, <1>9, Zenon
    <3> QED BY <3>1, <3>4, <2>2, <1>2, <1>10, Zenon
  <2>3. CASE ~(r < x)
    <3>1. Rep(ny, qd[r], A[r]) /\ Rep(ny, ps[r], B[r])
      BY <2>3, Zenon DEF Halfway
    <3>2. Rep(nz, qd[r], A[r]) /\ Rep(nz, ps[r], B[r])
      BY <3>1, <2>1, <1>9, Zenon
    <3> QED BY <3>2, <2>3, <1>2, <1>10, Zenon
  <2> QED BY <2>2, <2>3, Zenon
<1>11. ASSUME NEW i \in Items,
              \A r \in Qids : (\A j \in 1..Len(A[r]) : A[r][j] # i)
                                /\ (\A j \in 1..Len(B[r]) : B[r][j] # i)
       PROVE  nz[i] = nx[i]
  <2>1. ny[i] = nx[i]
    BY <1>11, Zenon DEF Halfway
  <2>2. nz[i] = ny[i]
    BY <1>1, <1>8, <1>11, Zenon
  <2> QED BY <2>1, <2>2, Zenon
<1>12. Rep(nz, IF B[x] # <<>> THEN Joined(qd[x], ps[x]) ELSE qd[x], A[x] \o B[x])
  BY <1>1, <1>3, <1>5, Zenon
<1>13. Halfway(nx, nz, qd, ps, A, B, x + 1)
  BY <1>2, <1>6, <1>10, <1>11, <1>12, Zenon DEF Halfway
<1> QED BY <1>1, <1>13, Zenon

\* All queues: what Hung is.
LEMMA HangLemma ==
  ASSUME NEW p, NEW A, NEW B, Apart(A, B), next \in Links,
         \A r \in Qids : /\ Rep(next, qids[r], A[r])
                         /\ Rep(next, qids_nolock_push[p][r], B[r])
  PROVE  /\ Hung(p) \in Links
         /\ \A r \in Qids : Rep(Hung(p), Grown(p)[r], A[r] \o B[r])
         /\ \A i \in Items :
              (\A r \in Qids : (\A j \in 1..Len(A[r]) : A[r][j] # i)
                                 /\ (\A j \in 1..Len(B[r]) : B[r][j] # i))
                => Hung(p)[i] = next[i]
         /\ \A r \in Qids : r \in Emptied(p) <=> B[r] # <<>>
<1> DEFINE ps == qids_nolock_push[p]
           E == Emptied(p)
<1>1. qs \in Nat
  BY QueueAssumption, Zenon
<1>2. \A r \in Qids : r \in E <=> B[r] # <<>>
  <2>1. ASSUME NEW r \in Qids PROVE r \in E <=> B[r] # <<>>
    <3>1. Chain(next, ps[r], B[r])
      BY Zenon DEF Rep
    <3>2. ps[r].size = Len(B[r]) /\ Len(B[r]) \in Nat
          /\ (B[r] = <<>> => Len(B[r]) = 0) /\ (B[r] # <<>> => Len(B[r]) > 0)
      BY <3>1, EndsLemma, Zenon
    <3>3. ps[r].size > 0 <=> B[r] # <<>>
      BY <3>2
    <3> QED BY <3>3, Zenon DEF Emptied
  <2> QED BY <2>1, Zenon
<1>3. PICK f : HungBy(next, E, qids, ps, qs, f) /\ Hung(p) = f[qs]
  <2>1. \E f : HungBy(next, E, qids, ps, qs, f)
    BY <1>1, HungExists, Zenon
  <2>2. Hung(p) = (CHOOSE f : HungBy(next, E, qids, ps, qs, f))[qs]
    BY Zenon DEF Hung, HungBy
  <2> QED BY <2>1, <2>2, Zenon
<1>4. /\ f[0] = next
      /\ \A k \in 1..qs : f[k] = IF (k - 1) \in E THEN Linked(f[k - 1], qids[k - 1], ps[k - 1])
                                 ELSE f[k - 1]
  <2>1. \A k \in 0..qs : f[k] =
          IF k = 0 THEN next
          ELSE IF (k - 1) \in E THEN Linked(f[k - 1], qids[k - 1], ps[k - 1]) ELSE f[k - 1]
    BY <1>3, Zenon DEF HungBy
  <2>2. 0 \in 0..qs /\ \A k \in 1..qs : k \in 0..qs /\ k # 0
    BY <1>1
  <2> QED BY <2>1, <2>2, Zenon
<1> HIDE DEF E, ps
<1> DEFINE Ok(k) == Halfway(next, f[k], qids, ps, A, B, k)
           T == {k \in 0..qs : ~Ok(k)}
<1> HIDE DEF T
<1>5. Ok(0)
  <2>1. \A r \in Qids : ~(r < 0)
    BY <1>1 DEF Qids
  <2> QED BY <2>1, <1>4, Zenon DEF Halfway, ps
<1>6. ASSUME NEW x \in Qids, Ok(x) PROVE Ok(x + 1)
  <2>1. x + 1 \in 1..qs /\ (x + 1) - 1 = x
    BY <1>1 DEF Qids
  <2>2. f[x + 1] = IF x \in E THEN Linked(f[x], qids[x], ps[x]) ELSE f[x]
    BY <2>1, <1>4, Zenon
  <2>3. CASE x \in E
    BY <2>2, <2>3, <1>2, <1>6, HangOne, Zenon
  <2>4. CASE x \notin E
    <3>1. f[x + 1] = f[x] /\ B[x] = <<>>
      BY <2>2, <2>4, <1>2, Zenon
    <3>2. ~(x < x) /\ x < x + 1 /\ \A r \in Qids : r # x => (r < x + 1 <=> r < x)
      BY <1>1 DEF Qids
    <3>3. A[x] \o B[x] = A[x]
      BY <3>1, ConcatNothing, Zenon DEF Apart
    <3>4. Rep(f[x], qids[x], A[x])
      BY <3>2, <1>6, Zenon DEF Halfway
    <3>5. Rep(f[x], IF B[x] # <<>> THEN Joined(qids[x], ps[x]) ELSE qids[x], A[x] \o B[x])
      BY <3>1, <3>3, <3>4, Zenon
    <3>6. ASSUME NEW r \in Qids
          PROVE  IF r < x + 1
                   THEN Rep(f[x], IF B[r] # <<>> THEN Joined(qids[r], ps[r]) ELSE qids[r],
                            A[r] \o B[r])
                   ELSE Rep(f[x], qids[r], A[r]) /\ Rep(f[x], ps[r], B[r])
      <4>1. CASE r = x
        BY <4>1, <3>2, <3>5, Zenon
      <4>2. CASE r # x
        BY <4>2, <3>2, <1>6, Zenon DEF Halfway
      <4> QED BY <4>1, <4>2, Zenon
    <3> QED BY <3>1, <3>6, <1>6, Zenon DEF Halfway
  <2> QED BY <2>3, <2>4, Zenon
<1>7. ASSUME T # {} PROVE FALSE
  <2>1. T \in SUBSET Nat
    BY DEF T
  <2>2. PICK x \in T : \A y \in T : x <= y
    BY <2>1, <1>7, LeastNumber, Zenon
  <2>3. x \in 0..qs /\ ~Ok(x)
    BY <2>2, Zenon DEF T
  <2>4. x # 0
    BY <2>3, <1>5, Zenon
  <2>5. PICK y : y = x - 1
    BY Zenon
  <2>6. y \in 0..qs /\ ~(x <= y) /\ y \in Qids /\ y + 1 = x
    BY <2>3, <2>4, <2>5, <1>1 DEF Qids
  <2>7. Ok(y)
    BY <2>6, <2>2, Zenon DEF T
  <2> QED BY <2>3, <2>6, <2>7, <1>6, Zenon
<1>8. Ok(qs)
  <2>1. qs \in 0..qs
    BY <1>1
  <2> QED BY <2>1, <1>7, Zenon DEF T
<1>9. ASSUME NEW r \in Qids PROVE Rep(Hung(p), Grown(p)[r], A[r] \o B[r])
  <2>1. r < qs
    BY <1>1 DEF Qids
  <2>2. Grown(p)[r] = IF B[r] # <<>> THEN Joined(qids[r], ps[r]) ELSE qids[r]
    BY <1>2, Zenon DEF Grown, E, ps
  <2> QED BY <2>1, <2>2, <1>3, <1>8, Zenon DEF Halfway
<1>10. /\ Hung(p) \in Links
       /\ \A i \in Items :
            (\A r \in Qids : (\A j \in 1..Len(A[r]) : A[r][j] # i)
                               /\ (\A j \in 1..Len(B[r]) : B[r][j] # i))
              => Hung(p)[i] = next[i]
  BY <1>3, <1>8, Zenon DEF Halfway
<1> QED BY <1>2, <1>9, <1>10, Zenon DEF E

-----------------------------------------------------------------------------
(***************************************************************************)
(* Where items are.                                                        *)
(***************************************************************************)
QP(q)    == <<"queue", NONE, q>>
UP(p, q) == <<"push", p, q>>
RP(p, q) == <<"pull", p, q>>
HP(p)    == <<"held", p, NONE>>

\* The holders that are lists.
Places == {h \in Holders : h[1] # "held"}

\* The list at the place h, among the lists qd, pu and pl.
ListIn(qd, pu, pl, h) ==
  IF h[1] = "queue" THEN qd[h[3]] ELSE IF h[1] = "push" THEN pu[h[2]][h[3]] ELSE pl[h[2]][h[3]]

\* Item i is in the sequence s.
Of(s, i) == \E k \in 1..Len(s) : s[k] = i

\* Item i is at the holder h when the lists have the items S.
Has(S, hd, h, i) ==
  IF h[1] = "held" THEN i \in hd[h[2]] ELSE Of(S[h], i)

\* Each item is at exactly one holder.
Once(S, hd) ==
  \A i \in Items : \E h \in Holders :
    Has(S, hd, h, i) /\ \A g \in Holders : Has(S, hd, g, i) => g = h

\* The lists that the processes keep for themselves.
OwnLists == [Procs -> [Qids -> Lists]]

\* The items of the lists when list h gets the items s.
Put(S, h, s) == [g \in Places |-> IF g = h THEN s ELSE S[g]]

\* The links nx lead through the items S of all lists, and each item is in one place.
Sound(nx, qd, pu, pl, hd, S) ==
  /\ nx \in Links /\ hd \in [Procs -> SUBSET Items]
  /\ qd \in [Qids -> Lists]
  /\ pu \in OwnLists /\ pl \in OwnLists
  /\ \A h \in Places : Rep(nx, ListIn(qd, pu, pl, h), S[h])
  /\ Once(S, hd)

\* The places are the queues of the shared header and the two lists that each process keeps
\* per queue; what a process holds is no place.
LEMMA PlaceLemma ==
  /\ \A q \in Qids : QP(q) \in Places /\ QP(q) \in Holders
  /\ \A p \in Procs, q \in Qids : /\ UP(p, q) \in Places /\ RP(p, q) \in Places
                                  /\ UP(p, q) \in Holders /\ RP(p, q) \in Holders
  /\ \A p \in Procs : HP(p) \in Holders /\ HP(p) \notin Places
  /\ \A h \in Places : h \in Holders
  /\ \A h \in Places : \/ \E q \in Qids : h = QP(q)
                       \/ \E p \in Procs, q \in Qids : h = UP(p, q) \/ h = RP(p, q)
  /\ \A h \in Holders : h \in Places \/ \E p \in Procs : h = HP(p)
<1>1. \A q \in Qids : QP(q) \in Places /\ QP(q) \in Holders
  BY Zenon DEF QP, Places, Holders
<1>2. \A p \in Procs, q \in Qids : /\ UP(p, q) \in Places /\ RP(p, q) \in Places
                                   /\ UP(p, q) \in Holders /\ RP(p, q) \in Holders
  BY Zenon DEF UP, RP, Places, Holders
<1>3. \A p \in Procs : HP(p) \in Holders /\ HP(p) \notin Places
  BY Zenon DEF HP, Places, Holders
<1>4. \A h \in Holders : \/ \E q \in Qids : h = QP(q)
                         \/ \E p \in Procs, q \in Qids : h = UP(p, q) \/ h = RP(p, q)
                         \/ \E p \in Procs : h = HP(p)
  BY DEF QP, UP, RP, HP, Holders
<1>5. \A h \in Places : h \in Holders
  BY Zenon DEF Places
<1>6. \A h \in Places : \A p \in Procs : h # HP(p)
  BY <1>3, Zenon
<1>7. \A h \in Places : \/ \E q \in Qids : h = QP(q)
                        \/ \E p \in Procs, q \in Qids : h = UP(p, q) \/ h = RP(p, q)
  BY <1>4, <1>5, <1>6, Zenon
<1>8. \A h \in Holders : h \in Places \/ \E p \in Procs : h = HP(p)
  BY <1>1, <1>2, <1>4, ZenonT(30)
<1> QED BY <1>1, <1>2, <1>3, <1>5, <1>7, <1>8, Zenon

\* Two places are the same only when all that names them is.
LEMMA PlacesDiffer ==
  /\ \A q, r : QP(q) = QP(r) => q = r
  /\ \A p, q, x, r : UP(p, q) = UP(x, r) => p = x /\ q = r
  /\ \A p, q, x, r : RP(p, q) = RP(x, r) => p = x /\ q = r
  /\ \A p, x : HP(p) = HP(x) => p = x
  /\ \A p, q, x, r : /\ UP(p, q) # RP(x, r) /\ QP(q) # UP(x, r) /\ QP(q) # RP(x, r)
                     /\ HP(p) # UP(x, r) /\ HP(p) # RP(x, r) /\ HP(p) # QP(r)
BY Zenon DEF QP, UP, RP, HP

\* The list of a queue, shf->q.qids[q].
LEMMA ListOfQueue ==
  ASSUME NEW qd, NEW pu, NEW pl, NEW q
  PROVE  ListIn(qd, pu, pl, QP(q)) = qd[q]
BY Zenon DEF ListIn, QP

\* The list of what p has pushed, shf->q.qids_nolock_push[q].
LEMMA ListOfPush ==
  ASSUME NEW qd, NEW pu, NEW pl, NEW p, NEW q
  PROVE  ListIn(qd, pu, pl, UP(p, q)) = pu[p][q]
BY Zenon DEF ListIn, UP

\* The list of what p may pull, shf->q.qids_nolock_pull[q].
LEMMA ListOfPull ==
  ASSUME NEW qd, NEW pu, NEW pl, NEW p, NEW q
  PROVE  ListIn(qd, pu, pl, RP(p, q)) = pl[p][q]
BY Zenon DEF ListIn, RP

\* What a process holds does not depend on the lists.
LEMMA HeldLemma ==
  ASSUME NEW S, NEW hd, NEW p, NEW i
  PROVE  Has(S, hd, HP(p), i) <=> i \in hd[p]
BY Zenon DEF Has, HP

\* What a place has is the items of its list.
LEMMA HasLemma ==
  ASSUME NEW S, NEW hd, NEW h \in Places, NEW i
  PROVE  Has(S, hd, h, i) <=> Of(S[h], i)
BY Zenon DEF Has, Places

\* One list gets other items, the others keep theirs.
LEMMA PutLemma ==
  ASSUME NEW S, NEW h, NEW s, NEW g \in Places
  PROVE  Put(S, h, s)[g] = IF g = h THEN s ELSE S[g]
BY Zenon DEF Put

\* Items have moved from one holder to another.
LEMMA MoveLemma ==
  ASSUME NEW S, NEW hd, NEW S2, NEW hd2, Once(S, hd), NEW a \in Holders, NEW b \in Holders,
         a # b, NEW X, \A i \in X : Has(S, hd, a, i),
         \A i \in Items : Has(S2, hd2, a, i) <=> Has(S, hd, a, i) /\ i \notin X,
         \A i \in Items : Has(S2, hd2, b, i) <=> Has(S, hd, b, i) \/ i \in X,
         \A h \in Holders, i \in Items :
           h # a /\ h # b => (Has(S2, hd2, h, i) <=> Has(S, hd, h, i))
  PROVE  Once(S2, hd2)
<1>1. SUFFICES ASSUME NEW i \in Items
               PROVE  \E h \in Holders : /\ Has(S2, hd2, h, i)
                                         /\ \A g \in Holders : Has(S2, hd2, g, i) => g = h
  BY Zenon DEF Once
<1>2. PICK h \in Holders :
        Has(S, hd, h, i) /\ \A g \in Holders : Has(S, hd, g, i) => g = h
  BY Zenon DEF Once
<1>3. CASE i \in X
  <2>1. h = a
    BY <1>2, <1>3, Zenon
  <2>2. Has(S2, hd2, b, i)
    BY <1>3, Zenon
  <2>3. ASSUME NEW g \in Holders, Has(S2, hd2, g, i) PROVE g = b
    BY <2>1, <2>3, <1>2, <1>3, Zenon
  <2> QED BY <2>2, <2>3, Zenon
<1>4. CASE i \notin X
  <2>1. Has(S2, hd2, h, i)
    BY <1>2, <1>4, Zenon
  <2>2. ASSUME NEW g \in Holders, Has(S2, hd2, g, i) PROVE g = h
    <3>1. Has(S, hd, g, i)
      BY <2>2, <1>4, Zenon
    <3> QED BY <3>1, <1>2, Zenon
  <2> QED BY <2>1, <2>2, Zenon
<1> QED BY <1>3, <1>4, Zenon

\* No item is twice in the lists, or in a list and in a process's hands.
LEMMA DifferLemma ==
  ASSUME NEW S, NEW hd, Once(S, hd),
         \A h \in Places : \A k \in 1..Len(S[h]) : S[h][k] \in Items
  PROVE  /\ \A g, h \in Places : g # h =>
              \A j \in 1..Len(S[g]), k \in 1..Len(S[h]) : S[g][j] # S[h][k]
         /\ \A h \in Places, p \in Procs : \A k \in 1..Len(S[h]) : S[h][k] \notin hd[p]
<1>1. ASSUME NEW g \in Places, NEW k \in 1..Len(S[g]) PROVE Has(S, hd, g, S[g][k])
  <2>1. Of(S[g], S[g][k])
    BY Zenon DEF Of
  <2> QED BY <2>1, HasLemma, Zenon
<1>2. ASSUME NEW g \in Places, NEW k \in 1..Len(S[g]), NEW h \in Holders, Has(S, hd, h, S[g][k])
      PROVE  h = g
  <2>1. Has(S, hd, g, S[g][k]) /\ S[g][k] \in Items /\ g \in Holders
    BY <1>1, PlaceLemma, Zenon
  <2> QED BY <2>1, <1>2, Zenon DEF Once
<1>3. ASSUME NEW g \in Places, NEW h \in Places, g # h,
             NEW j \in 1..Len(S[g]), NEW k \in 1..Len(S[h])
      PROVE  S[g][j] # S[h][k]
  <2>1. Has(S, hd, h, S[h][k]) /\ h \in Holders
    BY <1>1, PlaceLemma, Zenon
  <2> QED BY <2>1, <1>2, <1>3, Zenon
<1>4. ASSUME NEW h \in Places, NEW p \in Procs, NEW k \in 1..Len(S[h]) PROVE S[h][k] \notin hd[p]
  <2>1. HP(p) \in Holders /\ HP(p) # h
    BY PlaceLemma, Zenon
  <2> QED BY <2>1, <1>2, HeldLemma, Zenon
<1> QED BY <1>3, <1>4, Zenon

\* The items of two sequences that are put together.
LEMMA SetLemma ==
  ASSUME NEW a \in Seq(Items), NEW b \in Seq(Items), NEW i
  PROVE  Of(a \o b, i) <=> Of(a, i) \/ Of(b, i)
<1>1. PICK u, m, n : u = a \o b /\ m = Len(a) /\ n = Len(b)
  BY Zenon
<1>2. m \in Nat /\ n \in Nat
  BY <1>1, LenLemma, Zenon
<1>3. Len(u) = m + n /\ \A j \in 1..(m + n) : u[j] = IF j <= m THEN a[j] ELSE b[j - m]
  BY <1>1, JoinSeqs, Zenon
<1>4. \A k \in 1..m : k \in 1..Len(u) /\ u[k] = a[k]
  BY <1>2, <1>3
<1>5. ASSUME NEW k \in 1..n PROVE k + m \in 1..Len(u) /\ u[k + m] = b[k]
  <2>1. k + m \in 1..(m + n) /\ ~(k + m <= m) /\ (k + m) - m = k
    BY <1>2
  <2> QED BY <2>1, <1>3, Zenon
<1>6. \A k \in 1..Len(u) : \/ k \in 1..m /\ u[k] = a[k]
                           \/ k - m \in 1..n /\ u[k] = b[k - m]
  BY <1>1, ConcatLemma, Zenon
<1>7. (\E k \in 1..Len(u) : u[k] = i)
        <=> (\E k \in 1..m : a[k] = i) \/ (\E k \in 1..n : b[k] = i)
  BY <1>4, <1>5, <1>6, ZenonT(30)
<1> QED BY <1>1, <1>7, Zenon DEF Of

\* What is said at once by Sound.
LEMMA SoundLemma ==
  ASSUME NEW nx, NEW qd, NEW pu, NEW pl, NEW hd, NEW S, Sound(nx, qd, pu, pl, hd, S)
  PROVE  /\ nx \in Links /\ hd \in [Procs -> SUBSET Items] /\ qd \in [Qids -> Lists]
         /\ pu \in OwnLists /\ pl \in OwnLists
         /\ \A h \in Places : Rep(nx, ListIn(qd, pu, pl, h), S[h])
         /\ Once(S, hd)
         /\ \A h \in Places : S[h] \in Seq(Items)
         /\ \A h \in Places : \A k \in 1..Len(S[h]) : S[h][k] \in Items
         /\ \A g, h \in Places : g # h =>
              \A j \in 1..Len(S[g]), k \in 1..Len(S[h]) : S[g][j] # S[h][k]
         /\ \A h \in Places, p \in Procs : \A k \in 1..Len(S[h]) : S[h][k] \notin hd[p]
<1>1. /\ nx \in Links /\ hd \in [Procs -> SUBSET Items] /\ qd \in [Qids -> Lists]
      /\ pu \in OwnLists /\ pl \in OwnLists
      /\ \A h \in Places : Rep(nx, ListIn(qd, pu, pl, h), S[h])
      /\ Once(S, hd)
  BY Zenon DEF Sound
<1>2. ASSUME NEW h \in Places
      PROVE  S[h] \in Seq(Items) /\ \A k \in 1..Len(S[h]) : S[h][k] \in Items
  <2>1. PICK l : Chain(nx, l, S[h])
    BY <1>1, Zenon DEF Rep
  <2> QED BY <2>1, EndsLemma, Zenon
<1>3. \A h \in Places : \A k \in 1..Len(S[h]) : S[h][k] \in Items
  BY <1>2, Zenon
<1>4. /\ \A g, h \in Places : g # h =>
           \A j \in 1..Len(S[g]), k \in 1..Len(S[h]) : S[g][j] # S[h][k]
      /\ \A h \in Places, p \in Procs : \A k \in 1..Len(S[h]) : S[h][k] \notin hd[p]
  BY <1>1, <1>3, DifferLemma, Zenon
<1> QED BY <1>1, <1>2, <1>3, <1>4, Zenon

\* A list of the queues, or of those of a process, is replaced.
Set1(f, q, m)    == [f EXCEPT ![q] = m]
Set2(f, p, q, m) == [f EXCEPT ![p][q] = m]

\* Only the list of queue q is another one.
LEMMA ReplaceQueue ==
  ASSUME NEW qd \in [Qids -> Lists], NEW pu, NEW pl, NEW q \in Qids, NEW m \in Lists,
         NEW h \in Places
  PROVE  /\ h = QP(q) => ListIn(Set1(qd, q, m), pu, pl, h) = m
         /\ h # QP(q) => ListIn(Set1(qd, q, m), pu, pl, h) = ListIn(qd, pu, pl, h)
<1>0. PICK f : f = Set1(qd, q, m)
  BY Zenon
<1>1. f \in [Qids -> Lists] /\ \A r \in Qids : f[r] = IF r = q THEN m ELSE qd[r]
  BY <1>0, Zenon DEF Set1
<1>2. ListIn(f, pu, pl, h) = IF h = QP(q) THEN m ELSE ListIn(qd, pu, pl, h)
  <2>1. CASE \E r \in Qids : h = QP(r)
    <3>1. PICK r \in Qids : h = QP(r)
      BY <2>1, Zenon
    <3>2. h = QP(q) <=> r = q
      BY <3>1, PlacesDiffer, Zenon
    <3>3. ListIn(f, pu, pl, QP(r)) = f[r] /\ ListIn(qd, pu, pl, QP(r)) = qd[r]
      BY ListOfQueue, Zenon
    <3> QED BY <3>1, <3>2, <3>3, <1>1, Zenon
  <2>2. CASE \E p \in Procs, r \in Qids : h = UP(p, r) \/ h = RP(p, r)
    <3>1. PICK p \in Procs, r \in Qids : h = UP(p, r) \/ h = RP(p, r)
      BY <2>2, Zenon
    <3>2. h # QP(q)
      BY <3>1, PlacesDiffer, Zenon
    <3>3. ListIn(f, pu, pl, UP(p, r)) = pu[p][r] /\ ListIn(qd, pu, pl, UP(p, r)) = pu[p][r]
      BY ListOfPush
    <3>4. ListIn(f, pu, pl, RP(p, r)) = pl[p][r] /\ ListIn(qd, pu, pl, RP(p, r)) = pl[p][r]
      BY ListOfPull
    <3> QED BY <3>1, <3>2, <3>3, <3>4, Zenon
  <2> QED BY <2>1, <2>2, PlaceLemma, Zenon
<1> QED BY <1>0, <1>2, Zenon

\* One list of one process is replaced.
LEMMA ReplaceOwn ==
  ASSUME NEW fs \in OwnLists, NEW p \in Procs, NEW q \in Qids, NEW m \in Lists
  PROVE  /\ Set2(fs, p, q, m) \in OwnLists
         /\ \A x \in Procs, r \in Qids :
              Set2(fs, p, q, m)[x][r] = IF x = p /\ r = q THEN m ELSE fs[x][r]
BY Zenon DEF OwnLists, Set2

\* Only the list of what p pushed for q is another one.
LEMMA ReplacePush ==
  ASSUME NEW qd, NEW pu \in OwnLists, NEW pl, NEW p \in Procs, NEW q \in Qids,
         NEW m \in Lists,
         NEW h \in Places
  PROVE  /\ h = UP(p, q) => ListIn(qd, Set2(pu, p, q, m), pl, h) = m
         /\ h # UP(p, q) => ListIn(qd, Set2(pu, p, q, m), pl, h) = ListIn(qd, pu, pl, h)
<1>0. PICK f : f = Set2(pu, p, q, m)
  BY Zenon
<1>1. \A x \in Procs, r \in Qids : f[x][r] = IF x = p /\ r = q THEN m ELSE pu[x][r]
  <2>1. \A x \in Procs, r \in Qids :
          Set2(pu, p, q, m)[x][r] = IF x = p /\ r = q THEN m ELSE pu[x][r]
    BY ReplaceOwn
  <2> QED BY <2>1, <1>0, Zenon
<1>2. ListIn(qd, f, pl, h) = IF h = UP(p, q) THEN m ELSE ListIn(qd, pu, pl, h)
  <2>1. CASE \E r \in Qids : h = QP(r)
    <3>1. PICK r \in Qids : h = QP(r)
      BY <2>1, Zenon
    <3>2. h # UP(p, q)
      BY <3>1, PlacesDiffer, Zenon
    <3>3. ListIn(qd, f, pl, QP(r)) = qd[r] /\ ListIn(qd, pu, pl, QP(r)) = qd[r]
      BY ListOfQueue, Zenon
    <3> QED BY <3>1, <3>2, <3>3, Zenon
  <2>2. CASE \E x \in Procs, r \in Qids : h = UP(x, r) \/ h = RP(x, r)
    <3>1. PICK x \in Procs, r \in Qids : h = UP(x, r) \/ h = RP(x, r)
      BY <2>2, Zenon
    <3>2. (UP(x, r) = UP(p, q) <=> x = p /\ r = q) /\ RP(x, r) # UP(p, q)
      BY PlacesDiffer, Zenon
    <3>3. ListIn(qd, f, pl, UP(x, r)) = f[x][r] /\ ListIn(qd, pu, pl, UP(x, r)) = pu[x][r]
      BY ListOfPush
    <3>4. ListIn(qd, f, pl, RP(x, r)) = pl[x][r] /\ ListIn(qd, pu, pl, RP(x, r)) = pl[x][r]
      BY ListOfPull
    <3> QED BY <3>1, <3>2, <3>3, <3>4, <1>1, Zenon
  <2> QED BY <2>1, <2>2, PlaceLemma, Zenon
<1> QED BY <1>0, <1>2, Zenon

\* Only the list of what p may pull from q is another one.
LEMMA ReplacePull ==
  ASSUME NEW qd, NEW pu, NEW pl \in OwnLists, NEW p \in Procs, NEW q \in Qids,
         NEW m \in Lists,
         NEW h \in Places
  PROVE  /\ h = RP(p, q) => ListIn(qd, pu, Set2(pl, p, q, m), h) = m
         /\ h # RP(p, q) => ListIn(qd, pu, Set2(pl, p, q, m), h) = ListIn(qd, pu, pl, h)
<1>0. PICK f : f = Set2(pl, p, q, m)
  BY Zenon
<1>1. \A x \in Procs, r \in Qids : f[x][r] = IF x = p /\ r = q THEN m ELSE pl[x][r]
  <2>1. \A x \in Procs, r \in Qids :
          Set2(pl, p, q, m)[x][r] = IF x = p /\ r = q THEN m ELSE pl[x][r]
    BY ReplaceOwn
  <2> QED BY <2>1, <1>0, Zenon
<1>2. ListIn(qd, pu, f, h) = IF h = RP(p, q) THEN m ELSE ListIn(qd, pu, pl, h)
  <2>1. CASE \E r \in Qids : h = QP(r)
    <3>1. PICK r \in Qids : h = QP(r)
      BY <2>1, Zenon
    <3>2. h # RP(p, q)
      BY <3>1, PlacesDiffer, Zenon
    <3>3. ListIn(qd, pu, f, QP(r)) = qd[r] /\ ListIn(qd, pu, pl, QP(r)) = qd[r]
      BY ListOfQueue, Zenon
    <3> QED BY <3>1, <3>2, <3>3, Zenon
  <2>2. CASE \E x \in Procs, r \in Qids : h = UP(x, r) \/ h = RP(x, r)
    <3>1. PICK x \in Procs, r \in Qids : h = UP(x, r) \/ h = RP(x, r)
      BY <2>2, Zenon
    <3>2. (RP(x, r) = RP(p, q) <=> x = p /\ r = q) /\ UP(x, r) # RP(p, q)
      BY PlacesDiffer
    <3>3. ListIn(qd, pu, f, UP(x, r)) = pu[x][r] /\ ListIn(qd, pu, pl, UP(x, r)) = pu[x][r]
      BY ListOfPush
    <3>4. ListIn(qd, pu, f, RP(x, r)) = f[x][r] /\ ListIn(qd, pu, pl, RP(x, r)) = pl[x][r]
      BY ListOfPull
    <3> QED BY <3>1, <3>2, <3>3, <3>4, <1>1, Zenon
  <2> QED BY <2>1, <2>2, PlaceLemma, Zenon
<1> QED BY <1>0, <1>2, Zenon

\* One item goes from a process's hands to its list for pushing.
LEMMA PushSound ==
  ASSUME NEW nx, NEW qd, NEW pu, NEW pl, NEW hd, NEW S, Sound(nx, qd, pu, pl, hd, S),
         NEW p \in Procs, NEW q \in Qids, NEW i \in hd[p]
  PROVE  Sound(Linked(nx, pu[p][q], Single(i)), qd,
               [pu EXCEPT ![p][q] = Joined(pu[p][q], Single(i))], pl,
               [hd EXCEPT ![p] = hd[p] \ {i}], Put(S, UP(p, q), S[UP(p, q)] \o <<i>>))
<1>1. PICK a : a = UP(p, q)
  BY Zenon
<1>2. PICK b : b = HP(p)
  BY Zenon
<1>3. PICK l, m, s : l = pu[p][q] /\ m = Single(i) /\ s = S[a]
  BY Zenon
<1>25. PICK t : t = <<i>>
  BY Zenon
<1>4. PICK ny, lm : ny = Linked(nx, l, m) /\ lm = Joined(l, m)
  BY Zenon
<1>5. PICK pu2 : pu2 = [pu EXCEPT ![p][q] = lm]
  BY Zenon
<1>6. PICK hd2 : hd2 = [hd EXCEPT ![p] = hd[p] \ {i}]
  BY Zenon
<1>23. PICK S2 : S2 = Put(S, a, s \o t)
  BY Zenon
<1>24. \A h \in Places : S2[h] = IF h = a THEN s \o t ELSE S[h]
  BY <1>23, PutLemma
<1>7. /\ nx \in Links /\ hd \in [Procs -> SUBSET Items] /\ qd \in [Qids -> Lists]
      /\ pu \in OwnLists /\ pl \in OwnLists
      /\ \A h \in Places : Rep(nx, ListIn(qd, pu, pl, h), S[h])
      /\ Once(S, hd)
      /\ \A h \in Places : S[h] \in Seq(Items)
      /\ \A h \in Places : \A k \in 1..Len(S[h]) : S[h][k] \in Items
      /\ \A g, h \in Places : g # h =>
           \A j \in 1..Len(S[g]), k \in 1..Len(S[h]) : S[g][j] # S[h][k]
      /\ \A h \in Places, x \in Procs : \A k \in 1..Len(S[h]) : S[h][k] \notin hd[x]
  BY SoundLemma, Zenon
<1>8. a \in Places /\ a \in Holders /\ b \in Holders /\ b \notin Places /\ a # b
  BY <1>1, <1>2, PlaceLemma, Zenon
<1>9. i \in Items
  BY <1>7, Zenon
<1>10. /\ Chain(nx, m, t) /\ t # <<>> /\ Len(t) = 1 /\ t[1] = i /\ t \in Seq(Items)
  BY <1>3, <1>9, <1>25 DEF Chain, Single
<1>11. Rep(nx, l, s) /\ Chain(nx, l, s)
  <2>1. ListIn(qd, pu, pl, a) = l
    BY <1>1, <1>3, ListOfPush
  <2> QED BY <2>1, <1>3, <1>7, <1>8, Zenon DEF Rep
<1>13. \A h \in Places : \A k \in 1..Len(S[h]) : S[h][k] # i
  BY <1>7
<1>14. \A j \in 1..Len(s), k \in 1..Len(t) : s[j] # t[k]
  BY <1>3, <1>8, <1>10, <1>13
<1>15. Rep(ny, lm, s \o t)
  BY <1>4, <1>7, <1>10, <1>11, <1>14, JoinLemma, Zenon
<1>16. ny \in Links /\ \A x \in Items : ny[x] = IF s # <<>> /\ x = s[Len(s)] THEN i
                                               ELSE IF x = i THEN NONE ELSE nx[x]
  <2>1. ny \in Links /\ \A x \in Items : ny[x] = IF s # <<>> /\ x = s[Len(s)] THEN t[1]
                                          ELSE IF x = t[Len(t)] THEN NONE ELSE nx[x]
    BY <1>4, <1>7, <1>10, <1>11, <1>14, LinkedLemma
  <2> QED BY <2>1, <1>10, Zenon
<1>17. lm \in Lists
  BY <1>15, SizeLemma, Zenon DEF Rep
<1>18. /\ pu2 \in OwnLists
       /\ \A h \in Places : ListIn(qd, pu2, pl, h) = IF h = a THEN lm ELSE ListIn(qd, pu, pl, h)
  <2>1. pu2 = Set2(pu, p, q, lm)
    BY <1>5, Zenon DEF Set2
  <2>2. pu \in OwnLists
    BY <1>7, Zenon
  <2>3. pu2 \in OwnLists
    BY <2>1, <2>2, <1>17, ReplaceOwn, Zenon
  <2>4. ASSUME NEW h \in Places
        PROVE  /\ h = UP(p, q) => ListIn(qd, Set2(pu, p, q, lm), pl, h) = lm
               /\ h # UP(p, q) => ListIn(qd, Set2(pu, p, q, lm), pl, h) = ListIn(qd, pu, pl, h)
    BY <2>2, <1>17, ReplacePush
  <2> QED BY <2>1, <2>3, <2>4, <1>1, Zenon
<1>19. hd2 \in [Procs -> SUBSET Items]
       /\ \A x \in Procs : hd2[x] = IF x = p THEN hd[p] \ {i} ELSE hd[x]
  BY <1>6, <1>7, Zenon
<1>20. ASSUME NEW h \in Places PROVE Rep(ny, ListIn(qd, pu2, pl, h), S2[h])
  <2>1. CASE h = a
    BY <2>1, <1>15, <1>18, <1>24, Zenon
  <2>2. CASE h # a
    <3>1. s # <<>> => Len(s) \in 1..Len(s)
      BY <1>11, EndsLemma, Zenon
    <3>2. \A k \in 1..Len(S[h]) : s # <<>> => S[h][k] # s[Len(s)]
      BY <3>1, <2>2, <1>3, <1>7, <1>8, Zenon
    <3>3. \A k \in 1..Len(S[h]) : ny[S[h][k]] = nx[S[h][k]]
      BY <3>2, <1>7, <1>13, <1>16, Zenon
    <3>4. Rep(ny, ListIn(qd, pu, pl, h), S[h])
      BY <3>3, <1>7, FrameLemma, ZenonT(30)
    <3> QED BY <3>4, <2>2, <1>24, <1>18, Zenon
  <2> QED BY <2>1, <2>2, Zenon
<1>21. Once(S2, hd2)
  <2>1. \A x \in Items : Has(S2, hd2, a, x) <=> Has(S, hd, a, x) \/ x \in {i}
    <3>1. \A x : Of(t, x) <=> x \in {i}
      BY <1>10 DEF Of
    <3>2. t \in Seq(Items) /\ s \in Seq(Items) /\ S2[a] = s \o t /\ S[a] = s
      BY <1>3, <1>7, <1>8, <1>10, <1>24, Zenon
    <3>3. \A x : Of(s \o t, x) <=> Of(s, x) \/ Of(t, x)
      BY <3>2, SetLemma, Zenon
    <3>4. \A x : (Has(S2, hd2, a, x) <=> Of(S2[a], x)) /\ (Has(S, hd, a, x) <=> Of(S[a], x))
      BY <1>8, HasLemma, Zenon
    <3> QED BY <3>1, <3>2, <3>3, <3>4, Zenon
  <2>2. \A x \in Items : Has(S2, hd2, b, x) <=> Has(S, hd, b, x) /\ x \notin {i}
    BY <1>2, <1>19, HeldLemma, Zenon
  <2>3. \A x \in {i} : Has(S, hd, b, x)
    BY <1>2, HeldLemma, Zenon
  <2>4. ASSUME NEW h \in Holders, NEW x \in Items, h # a, h # b
        PROVE  Has(S2, hd2, h, x) <=> Has(S, hd, h, x)
    <3>1. CASE h \in Places
      <4>1. S2[h] = S[h]
        BY <3>1, <2>4, <1>24, Zenon
      <4> QED BY <4>1, <3>1, HasLemma, Zenon
    <3>2. CASE h \notin Places
      <4>1. PICK y \in Procs : h = HP(y)
        BY <3>2, PlaceLemma, Zenon
      <4>2. y # p
        BY <4>1, <2>4, <1>2, Zenon
      <4> QED BY <4>1, <4>2, <1>19, HeldLemma, Zenon
    <3> QED BY <3>1, <3>2, Zenon
  <2> QED BY <2>1, <2>2, <2>3, <2>4, <1>7, <1>8, MoveLemma, Zenon
<1>22. Sound(ny, qd, pu2, pl, hd2, S2)
  BY <1>7, <1>16, <1>18, <1>19, <1>20, <1>21, Zenon DEF Sound
<1> QED BY <1>1, <1>3, <1>4, <1>5, <1>6, <1>22, <1>23, <1>25, Zenon

\* The items of the parts of a list.
LEMMA CutSet ==
  ASSUME NEW nx, NEW l, NEW s, Chain(nx, l, s), NEW n \in 1..Len(s)
  PROVE  /\ SubSeq(s, 1, n) \in Seq(Items) /\ SubSeq(s, n + 1, Len(s)) \in Seq(Items)
         /\ Len(SubSeq(s, 1, n)) = n /\ SubSeq(s, 1, n) # <<>>
         /\ \A k \in 1..n : k \in 1..Len(s) /\ SubSeq(s, 1, n)[k] = s[k]
         /\ \A x : Of(SubSeq(s, 1, n), x) => Of(s, x)
         /\ \A x : Of(SubSeq(s, n + 1, Len(s)), x) <=> Of(s, x) /\ ~Of(SubSeq(s, 1, n), x)
<1>1. PICK m : m = Len(s) /\ m \in Nat
  BY EndsLemma, Zenon
<1>2. PICK f, r : f = SubSeq(s, 1, n) /\ r = SubSeq(s, n + 1, m)
  BY Zenon
<1>3. s \in Seq(Items) /\ (\A k \in 1..m : s[k] \in Items)
      /\ \A j, k \in 1..m : s[j] = s[k] => j = k
  BY <1>1, EndsLemma DEF Chain
<1>4. n \in 1..m /\ n \in Int /\ m \in Int /\ 1 <= n /\ n <= m
  BY <1>1
<1>5. f \in Seq(Items) /\ Len(f) = n /\ \A k \in 1..n : f[k] = s[k]
  <2>1. /\ 1 \in Int /\ n - 1 + 1 = n /\ (\A k \in 1..n : k \in 1..m /\ 1 + k - 1 = k)
    BY <1>4
  <2>2. \A k \in 1..n : s[k] \in Items
    BY <2>1, <1>3, Zenon
  <2>3. f \in Seq(Items) /\ (Len(f) = IF 1 <= n THEN n - 1 + 1 ELSE 0)
        /\ \A k \in 1..(n - 1 + 1) : f[k] = s[1 + k - 1]
    BY <2>1, <2>2, <1>2, <1>4, SubSeqLemma
  <2> QED BY <2>1, <2>3, <1>4, Zenon
<1>6. r \in Seq(Items) /\ Len(r) = m - n /\ \A k \in 1..(m - n) : r[k] = s[n + k]
  <2>1. /\ n + 1 \in Int /\ m - (n + 1) + 1 = m - n /\ (\A k \in (n + 1)..m : k \in 1..m)
        /\ \A k \in 1..(m - n) : (n + 1) + k - 1 = n + k
    BY <1>4
  <2>2. \A k \in (n + 1)..m : s[k] \in Items
    BY <2>1, <1>3, Zenon
  <2>3. r \in Seq(Items) /\ (Len(r) = IF n + 1 <= m THEN m - (n + 1) + 1 ELSE 0)
        /\ \A k \in 1..(m - (n + 1) + 1) : r[k] = s[(n + 1) + k - 1]
    BY <2>1, <2>2, <1>2, <1>4, SubSeqLemma
  <2>4. Len(r) = m - n
    BY <2>3, <1>4
  <2> QED BY <2>1, <2>3, <2>4, Zenon
<1>7. f # <<>> /\ \A k \in 1..n : k \in 1..m
  BY <1>4, <1>5
<1>8. ASSUME NEW x, Of(f, x) PROVE Of(s, x)
  BY <1>8, <1>1, <1>5, <1>7, Zenon DEF Of
<1>9. ASSUME NEW x PROVE Of(r, x) <=> Of(s, x) /\ ~Of(f, x)
  <2>1. ASSUME Of(r, x) PROVE Of(s, x) /\ ~Of(f, x)
    <3>1. PICK k \in 1..(m - n) : r[k] = x
      BY <2>1, <1>6, Zenon DEF Of
    <3>2. n + k \in 1..m /\ \A j \in 1..n : j # n + k
      BY <1>4
    <3>3. s[n + k] = x
      BY <3>1, <1>6, Zenon
    <3>4. \A j \in 1..n : f[j] # x
      BY <3>2, <3>3, <1>3, <1>5, <1>7, Zenon
    <3> QED BY <3>2, <3>3, <3>4, <1>1, <1>5, Zenon DEF Of
  <2>2. ASSUME Of(s, x), ~Of(f, x) PROVE Of(r, x)
    <3>1. PICK k \in 1..m : s[k] = x
      BY <2>2, <1>1, Zenon DEF Of
    <3>2. k \notin 1..n
      BY <3>1, <2>2, <1>5, Zenon DEF Of
    <3>3. k - n \in 1..(m - n) /\ n + (k - n) = k
      BY <3>2, <1>4
    <3>4. r[k - n] = x
      BY <3>1, <3>3, <1>6, Zenon
    <3> QED BY <3>3, <3>4, <1>6, Zenon DEF Of
  <2> QED BY <2>1, <2>2, Zenon
<1>10. \A k \in 1..n : k \in 1..Len(s) /\ f[k] = s[k]
  BY <1>1, <1>5, <1>7, Zenon
<1> QED BY <1>1, <1>2, <1>5, <1>6, <1>7, <1>8, <1>9, <1>10, Zenon

\* The items of a chain without its first one, each of which is in the chain once.
LEMMA TailSet ==
  ASSUME NEW nx, NEW l, NEW s, Chain(nx, l, s), s # <<>>
  PROVE  /\ Of(s, Head(s)) /\ Head(s) \in Items
         /\ \A x : Of(Tail(s), x) <=> Of(s, x) /\ x # Head(s)
<1>1. PICK m : m = Len(s) /\ m \in Nat /\ m > 0
  BY EndsLemma
<1>2. s \in Seq(Items) /\ 1 \in 1..m /\ Head(s) = s[1] /\ Tail(s) = SubSeq(s, 2, m)
  BY <1>1, TailLemma DEF Chain
<1>3. PICK f, r : f = SubSeq(s, 1, 1) /\ r = SubSeq(s, 2, m)
  BY Zenon
<1>4. /\ Len(f) = 1 /\ (\A k \in 1..1 : f[k] = s[k])
      /\ \A x : Of(r, x) <=> Of(s, x) /\ ~Of(f, x)
  <2>1. 1 + 1 = 2
    OBVIOUS
  <2>2. /\ Len(f) = 1 /\ (\A k \in 1..1 : k \in 1..Len(s) /\ SubSeq(s, 1, 1)[k] = s[k])
        /\ \A x : Of(SubSeq(s, 1 + 1, m), x) <=> Of(s, x) /\ ~Of(SubSeq(s, 1, 1), x)
    BY <1>1, <1>2, <1>3, CutSet, Zenon
  <2> QED BY <2>1, <2>2, <1>3, Zenon
<1>5. \A x : Of(f, x) <=> x = s[1]
  BY <1>4 DEF Of
<1>6. Of(s, s[1]) /\ s[1] \in Items
  BY <1>1, <1>2, EndsLemma, Zenon DEF Of
<1> QED BY <1>2, <1>3, <1>4, <1>5, <1>6, Zenon

\* What a list becomes when its first item is taken.
Shorter(nx, l) ==
  [tail |-> nx[l.tail], head |-> IF nx[l.tail] = NONE THEN NONE ELSE l.head, size |-> l.size - 1]

\* One item goes from a list for pulling to the process's hands.
LEMMA TakeSound ==
  ASSUME NEW nx, NEW qd, NEW pu, NEW pl, NEW hd, NEW S, Sound(nx, qd, pu, pl, hd, S),
         NEW p \in Procs, NEW q \in Qids, S[RP(p, q)] # <<>>
  PROVE  /\ pl[p][q].tail = Head(S[RP(p, q)])
         /\ Sound(nx, qd, pu, [pl EXCEPT ![p][q] = Shorter(nx, pl[p][q])],
                  [hd EXCEPT ![p] = hd[p] \cup {pl[p][q].tail}],
                  Put(S, RP(p, q), Tail(S[RP(p, q)])))
<1>1. PICK a : a = RP(p, q)
  BY Zenon
<1>2. PICK b : b = HP(p)
  BY Zenon
<1>3. PICK l, s : l = pl[p][q] /\ s = S[a]
  BY Zenon
<1>4. PICK i : i = l.tail
  BY Zenon
<1>5. PICK m, t : m = Shorter(nx, l) /\ t = Tail(s)
  BY Zenon
<1>6. PICK pl2 : pl2 = [pl EXCEPT ![p][q] = m]
  BY Zenon
<1>7. PICK hd2 : hd2 = [hd EXCEPT ![p] = hd[p] \cup {i}]
  BY Zenon
<1>8. PICK S2 : S2 = Put(S, a, t)
  BY Zenon
<1>9. \A h \in Places : S2[h] = IF h = a THEN t ELSE S[h]
  BY <1>8, PutLemma
<1>10. /\ nx \in Links /\ hd \in [Procs -> SUBSET Items] /\ qd \in [Qids -> Lists]
       /\ pu \in OwnLists /\ pl \in OwnLists
       /\ \A h \in Places : Rep(nx, ListIn(qd, pu, pl, h), S[h])
       /\ Once(S, hd)
  BY Zenon DEF Sound
<1>11. a \in Places /\ a \in Holders /\ b \in Holders /\ b \notin Places /\ a # b
  BY <1>1, <1>2, PlaceLemma, Zenon
<1>12. Rep(nx, l, s) /\ Chain(nx, l, s) /\ s # <<>>
  <2>1. ListIn(qd, pu, pl, a) = l
    BY <1>1, <1>3, ListOfPull
  <2> QED BY <2>1, <1>1, <1>3, <1>10, <1>11, Zenon DEF Rep
<1>13. i = Head(s) /\ Rep(nx, m, t)
  BY <1>4, <1>5, <1>12, FirstLemma, Zenon DEF Shorter
<1>14. /\ Of(s, i) /\ i \in Items
       /\ \A x : Of(t, x) <=> Of(s, x) /\ x # i
  BY <1>5, <1>12, <1>13, TailSet, Zenon
<1>15. m \in Lists
  BY <1>13, SizeLemma, Zenon DEF Rep
<1>16. /\ pl2 \in OwnLists
       /\ \A h \in Places : ListIn(qd, pu, pl2, h) = IF h = a THEN m ELSE ListIn(qd, pu, pl, h)
  <2>1. pl2 = Set2(pl, p, q, m)
    BY <1>6, Zenon DEF Set2
  <2>2. pl \in OwnLists
    BY <1>10, Zenon
  <2>3. pl2 \in OwnLists
    BY <2>1, <2>2, <1>15, ReplaceOwn, Zenon
  <2>4. ASSUME NEW h \in Places
        PROVE  /\ h = RP(p, q) => ListIn(qd, pu, Set2(pl, p, q, m), h) = m
               /\ h # RP(p, q) => ListIn(qd, pu, Set2(pl, p, q, m), h) = ListIn(qd, pu, pl, h)
    BY <2>2, <1>15, ReplacePull, SMTT(20)
  <2> QED BY <2>1, <2>3, <2>4, <1>1, Zenon
<1>17. hd2 \in [Procs -> SUBSET Items]
       /\ \A x \in Procs : hd2[x] = IF x = p THEN hd[p] \cup {i} ELSE hd[x]
  BY <1>7, <1>10, <1>14, Zenon
<1>18. ASSUME NEW h \in Places PROVE Rep(nx, ListIn(qd, pu, pl2, h), S2[h])
  <2>1. CASE h = a
    BY <2>1, <1>9, <1>13, <1>16, Zenon
  <2>2. CASE h # a
    BY <2>2, <1>9, <1>10, <1>16, Zenon
  <2> QED BY <2>1, <2>2, Zenon
<1>19. Once(S2, hd2)
  <2>1. \A x \in Items : Has(S2, hd2, a, x) <=> Has(S, hd, a, x) /\ x \notin {i}
    <3>1. S2[a] = t /\ S[a] = s
      BY <1>3, <1>9, <1>11, Zenon
    <3>2. \A x : (Has(S2, hd2, a, x) <=> Of(S2[a], x)) /\ (Has(S, hd, a, x) <=> Of(S[a], x))
      BY <1>11, HasLemma, Zenon
    <3> QED BY <3>1, <3>2, <1>14, Zenon
  <2>2. \A x \in Items : Has(S2, hd2, b, x) <=> Has(S, hd, b, x) \/ x \in {i}
    BY <1>2, <1>17, HeldLemma, Zenon
  <2>3. \A x \in {i} : Has(S, hd, a, x)
    <3>1. Has(S, hd, a, i) <=> Of(S[a], i)
      BY <1>11, HasLemma, Zenon
    <3> QED BY <3>1, <1>3, <1>14, Zenon
  <2>4. ASSUME NEW h \in Holders, NEW x \in Items, h # a, h # b
        PROVE  Has(S2, hd2, h, x) <=> Has(S, hd, h, x)
    <3>1. CASE h \in Places
      <4>1. S2[h] = S[h]
        BY <3>1, <2>4, <1>9, Zenon
      <4> QED BY <4>1, <3>1, HasLemma, Zenon
    <3>2. CASE h \notin Places
      <4>1. PICK y \in Procs : h = HP(y)
        BY <3>2, PlaceLemma, Zenon
      <4>2. y # p
        BY <4>1, <2>4, <1>2, Zenon
      <4> QED BY <4>1, <4>2, <1>17, HeldLemma, Zenon
    <3> QED BY <3>1, <3>2, Zenon
  <2> QED BY <2>1, <2>2, <2>3, <2>4, <1>10, <1>11, MoveLemma, Zenon
<1>20. Sound(nx, qd, pu, pl2, hd2, S2)
  BY <1>10, <1>16, <1>17, <1>18, <1>19, Zenon DEF Sound
<1> QED BY <1>1, <1>3, <1>4, <1>5, <1>6, <1>7, <1>8, <1>13, <1>20, Zenon

\* The first n items of a queue go to a process's list for pulling.
LEMMA PullSound ==
  ASSUME NEW nx, NEW qd, NEW pu, NEW pl, NEW hd, NEW S, Sound(nx, qd, pu, pl, hd, S),
         NEW p \in Procs, NEW q \in Qids, NEW n \in 1..Len(S[QP(q)])
  PROVE  Sound(Linked(nx, pl[p][q], Front(nx, qd[q], n)), [qd EXCEPT ![q] = Rest(nx, qd[q], n)],
               pu, [pl EXCEPT ![p][q] = Joined(pl[p][q], Front(nx, qd[q], n))], hd,
               Put(Put(S, QP(q), SubSeq(S[QP(q)], n + 1, Len(S[QP(q)]))),
                   RP(p, q), S[RP(p, q)] \o SubSeq(S[QP(q)], 1, n)))
<1>1. PICK a : a = QP(q)
  BY Zenon
<1>2. PICK b : b = RP(p, q)
  BY Zenon
<1>3. PICK u, l, w, s : u = qd[q] /\ l = pl[p][q] /\ w = S[a] /\ s = S[b]
  BY Zenon
<1>4. PICK f, r : f = SubSeq(w, 1, n) /\ r = SubSeq(w, n + 1, Len(w))
  BY Zenon
<1>5. PICK uf, ur : uf = Front(nx, u, n) /\ ur = Rest(nx, u, n)
  BY Zenon
<1>6. PICK ny, lm : ny = Linked(nx, l, uf) /\ lm = Joined(l, uf)
  BY Zenon
<1>7. PICK qd2 : qd2 = [qd EXCEPT ![q] = ur]
  BY Zenon
<1>8. PICK pl2 : pl2 = [pl EXCEPT ![p][q] = lm]
  BY Zenon
<1>9. PICK S1, S2 : S1 = Put(S, a, r) /\ S2 = Put(S1, b, s \o f)
  BY Zenon
<1>10. \A h \in Places : S2[h] = IF h = b THEN s \o f ELSE IF h = a THEN r ELSE S[h]
  <2>1. \A h \in Places : S1[h] = IF h = a THEN r ELSE S[h]
    BY <1>9, PutLemma
  <2>2. \A h \in Places : S2[h] = IF h = b THEN s \o f ELSE S1[h]
    BY <1>9, PutLemma
  <2> QED BY <2>1, <2>2, Zenon
<1>11. /\ nx \in Links /\ hd \in [Procs -> SUBSET Items] /\ qd \in [Qids -> Lists]
       /\ pu \in OwnLists /\ pl \in OwnLists
       /\ \A h \in Places : Rep(nx, ListIn(qd, pu, pl, h), S[h])
       /\ Once(S, hd)
       /\ \A h \in Places : S[h] \in Seq(Items)
       /\ \A h \in Places : \A k \in 1..Len(S[h]) : S[h][k] \in Items
       /\ \A g, h \in Places : g # h =>
            \A j \in 1..Len(S[g]), k \in 1..Len(S[h]) : S[g][j] # S[h][k]
  BY SoundLemma
<1>12. a \in Places /\ a \in Holders /\ b \in Holders /\ b \in Places /\ a # b
  <2>1. QP(q) # RP(p, q)
    BY PlacesDiffer, Zenon
  <2> QED BY <2>1, <1>1, <1>2, PlaceLemma, Zenon
<1>13. Rep(nx, u, w) /\ Chain(nx, u, w) /\ n \in 1..Len(w)
  <2>1. ListIn(qd, pu, pl, a) = u
    BY <1>1, <1>3, ListOfQueue, Zenon
  <2> QED BY <2>1, <1>1, <1>3, <1>11, <1>12, Zenon DEF Rep
<1>14. Rep(nx, l, s) /\ Chain(nx, l, s)
  <2>1. ListIn(qd, pu, pl, b) = l
    BY <1>2, <1>3, ListOfPull
  <2> QED BY <2>1, <1>3, <1>11, <1>12, Zenon DEF Rep
<1>15. Chain(nx, uf, f) /\ Rep(nx, ur, r)
  BY <1>4, <1>5, <1>13, CutLemma, Zenon
<1>16. /\ f \in Seq(Items) /\ r \in Seq(Items) /\ Len(f) = n /\ f # <<>>
       /\ \A k \in 1..n : k \in 1..Len(w) /\ f[k] = w[k]
       /\ \A x : Of(f, x) => Of(w, x)
       /\ \A x : Of(r, x) <=> Of(w, x) /\ ~Of(f, x)
  BY <1>4, <1>13, CutSet, ZenonT(30)
<1>17. \A j \in 1..Len(s), k \in 1..Len(f) : s[j] # f[k]
  <2>1. ASSUME NEW j \in 1..Len(s), NEW k \in 1..Len(f) PROVE s[j] # f[k]
    <3>1. k \in 1..Len(w) /\ f[k] = w[k]
      BY <1>16, Zenon
    <3> QED BY <3>1, <1>3, <1>11, <1>12, Zenon
  <2> QED BY <2>1, Zenon
<1>18. Rep(ny, lm, s \o f)
  BY <1>6, <1>11, <1>14, <1>15, <1>16, <1>17, JoinLemma, Zenon
<1>19. ny \in Links /\ \A x \in Items : ny[x] = IF s # <<>> /\ x = s[Len(s)] THEN f[1]
                                               ELSE IF x = f[Len(f)] THEN NONE ELSE nx[x]
  <2>1. nx \in Links /\ f # <<>>
    BY <1>11, <1>16, Zenon
  <2>2. /\ Linked(nx, l, uf) \in Links
        /\ \A x \in Items : Linked(nx, l, uf)[x] =
             IF s # <<>> /\ x = s[Len(s)] THEN f[1]
             ELSE IF x = f[Len(f)] THEN NONE ELSE nx[x]
    BY <2>1, <1>14, <1>15, <1>17, LinkedLemma
  <2> QED BY <2>2, <1>6, Zenon
<1>20. lm \in Lists /\ ur \in Lists
  BY <1>15, <1>18, SizeLemma, Zenon DEF Rep
<1>21. s # <<>> => Len(s) \in 1..Len(s)
  BY <1>14, EndsLemma, Zenon
<1>22. Len(f) \in 1..Len(f) /\ Len(f) \in 1..Len(w) /\ f[Len(f)] = w[Len(f)]
  BY <1>15, <1>16, EndsLemma, Zenon
<1>23. ASSUME NEW x \in Items, s # <<>> => x # s[Len(s)], x # f[Len(f)] PROVE ny[x] = nx[x]
  BY <1>19, <1>23, Zenon
<1>24. qd2 \in [Qids -> Lists] /\ pl2 \in OwnLists
  <2>1. pl2 = Set2(pl, p, q, lm) /\ pl \in OwnLists
    BY <1>8, <1>11, Zenon DEF Set2
  <2>2. pl2 \in OwnLists
    BY <2>1, <1>20, ReplaceOwn, Zenon
  <2>3. qd2 \in [Qids -> Lists]
    BY <1>7, <1>11, <1>20, Zenon
  <2> QED BY <2>2, <2>3, Zenon
<1>25. ASSUME NEW h \in Places
       PROVE  ListIn(qd2, pu, pl2, h)
                = IF h = b THEN lm ELSE IF h = a THEN ur ELSE ListIn(qd, pu, pl, h)
  <2>1. pl2 = Set2(pl, p, q, lm) /\ pl \in OwnLists /\ qd2 = Set1(qd, q, ur)
        /\ qd \in [Qids -> Lists]
    BY <1>7, <1>8, <1>11, Zenon DEF Set1, Set2
  <2>2. /\ h = QP(q) => ListIn(Set1(qd, q, ur), pu, pl, h) = ur
        /\ h # QP(q) => ListIn(Set1(qd, q, ur), pu, pl, h) = ListIn(qd, pu, pl, h)
    BY <2>1, <1>20, ReplaceQueue
  <2>3. /\ h = RP(p, q) => ListIn(qd2, pu, Set2(pl, p, q, lm), h) = lm
        /\ h # RP(p, q) => ListIn(qd2, pu, Set2(pl, p, q, lm), h) = ListIn(qd2, pu, pl, h)
    BY <2>1, <1>20, ReplacePull
  <2> QED BY <2>1, <2>2, <2>3, <1>1, <1>2, Zenon
<1>26. ASSUME NEW h \in Places PROVE Rep(ny, ListIn(qd2, pu, pl2, h), S2[h])
  <2>1. CASE h = b
    BY <2>1, <1>10, <1>18, <1>25, Zenon
  <2>2. CASE h = a
    <3>1. ASSUME NEW k \in 1..Len(r) PROVE ny[r[k]] = nx[r[k]]
      <4>1. r[k] \in Items
        BY <1>15, EndsLemma, Zenon DEF Rep
      <4>2. Of(r, r[k]) /\ Of(f, f[Len(f)])
        BY <1>22, Zenon DEF Of
      <4>3. PICK j \in 1..Len(w) : w[j] = r[k]
        BY <4>2, <1>16, Zenon DEF Of
      <4>4. s # <<>> => w[j] # s[Len(s)]
        BY <1>3, <1>11, <1>12, <1>21, Zenon
      <4>5. r[k] # f[Len(f)]
        BY <4>2, <1>16, Zenon
      <4> QED BY <4>1, <4>3, <4>4, <4>5, <1>23, Zenon
    <3>2. Rep(ny, ur, r)
      BY <3>1, <1>15, FrameLemma, ZenonT(30)
    <3> QED BY <3>2, <2>2, <1>10, <1>12, <1>25, Zenon
  <2>3. CASE h # a /\ h # b
    <3>1. ASSUME NEW k \in 1..Len(S[h]) PROVE ny[S[h][k]] = nx[S[h][k]]
      <4>1. S[h][k] \in Items
        BY <1>11, Zenon
      <4>2. s # <<>> => S[h][k] # s[Len(s)]
        BY <2>3, <1>3, <1>11, <1>12, <1>21, Zenon
      <4>3. S[h][k] # w[Len(f)]
        BY <2>3, <1>3, <1>11, <1>12, <1>22, Zenon
      <4> QED BY <4>1, <4>2, <4>3, <1>22, <1>23, Zenon
    <3>2. Rep(ny, ListIn(qd, pu, pl, h), S[h])
      BY <3>1, <1>11, FrameLemma, ZenonT(30)
    <3> QED BY <3>2, <2>3, <1>10, <1>25, Zenon
  <2> QED BY <2>1, <2>2, <2>3, ZenonT(30)
<1>27. Once(S2, hd)
  <2>1. PICK X : X = {x \in Items : Of(f, x)}
    BY Zenon
  <2>2. S2[a] = r /\ S[a] = w /\ S2[b] = s \o f /\ S[b] = s /\ s \in Seq(Items)
    BY <1>3, <1>10, <1>11, <1>12, Zenon
  <2>3. \A x \in Items : Has(S2, hd, a, x) <=> Has(S, hd, a, x) /\ x \notin X
    <3>1. \A x : (Has(S2, hd, a, x) <=> Of(S2[a], x)) /\ (Has(S, hd, a, x) <=> Of(S[a], x))
      BY <1>12, HasLemma, Zenon
    <3> QED BY <3>1, <2>1, <2>2, <1>16, Zenon
  <2>4. \A x \in Items : Has(S2, hd, b, x) <=> Has(S, hd, b, x) \/ x \in X
    <3>1. \A x : (Has(S2, hd, b, x) <=> Of(S2[b], x)) /\ (Has(S, hd, b, x) <=> Of(S[b], x))
      BY <1>12, HasLemma, Zenon
    <3>2. \A x : Of(s \o f, x) <=> Of(s, x) \/ Of(f, x)
      BY <2>2, <1>16, SetLemma, Zenon
    <3> QED BY <3>1, <3>2, <2>1, <2>2, Zenon
  <2>5. \A x \in X : Has(S, hd, a, x)
    <3>1. \A x : Has(S, hd, a, x) <=> Of(S[a], x)
      BY <1>12, HasLemma, Zenon
    <3> QED BY <3>1, <2>1, <2>2, <1>16, Zenon
  <2>6. ASSUME NEW h \in Holders, NEW x \in Items, h # a, h # b
        PROVE  Has(S2, hd, h, x) <=> Has(S, hd, h, x)
    <3>1. CASE h \in Places
      <4>1. S2[h] = S[h]
        BY <3>1, <2>6, <1>10, Zenon
      <4> QED BY <4>1, <3>1, HasLemma, Zenon
    <3>2. CASE h \notin Places
      <4>1. PICK y \in Procs : h = HP(y)
        BY <3>2, PlaceLemma, Zenon
      <4> QED BY <4>1, HeldLemma, Zenon
    <3> QED BY <3>1, <3>2, Zenon
  <2> QED BY <2>3, <2>4, <2>5, <2>6, <1>11, <1>12, MoveLemma, Zenon
<1>28. Sound(ny, qd2, pu, pl2, hd, S2)
  BY <1>11, <1>19, <1>24, <1>26, <1>27, Zenon DEF Sound
<1> QED BY <1>1, <1>2, <1>3, <1>4, <1>5, <1>6, <1>7, <1>8, <1>9, <1>28, Zenon

\* The items of the lists after everything that p pushed has gone to the queues.
Joint(S, p) ==
  [h \in Places |-> IF h[1] = "queue" THEN S[h] \o S[UP(p, h[3])]
                    ELSE IF h[1] = "push" /\ h[2] = p THEN <<>> ELSE S[h]]

\* The items of each list once everything that p pushed has gone to the queues.
LEMMA JointLemma ==
  ASSUME NEW S, NEW p \in Procs
  PROVE  \A x \in Procs, r \in Qids :
           /\ Joint(S, p)[QP(r)] = S[QP(r)] \o S[UP(p, r)]
           /\ Joint(S, p)[UP(p, r)] = <<>>
           /\ x # p => Joint(S, p)[UP(x, r)] = S[UP(x, r)]
           /\ Joint(S, p)[RP(x, r)] = S[RP(x, r)]
<1>1. ASSUME NEW x \in Procs, NEW r \in Qids
      PROVE  /\ QP(r) \in Places /\ UP(p, r) \in Places /\ UP(x, r) \in Places
             /\ RP(x, r) \in Places
  BY PlaceLemma, Zenon
<1>2. ASSUME NEW x \in Procs, NEW r \in Qids
      PROVE  /\ QP(r)[1] = "queue" /\ QP(r)[3] = r
             /\ UP(x, r)[1] = "push" /\ UP(x, r)[2] = x /\ UP(p, r)[1] = "push" /\ UP(p, r)[2] = p
             /\ RP(x, r)[1] = "pull"
  BY Zenon DEF QP, UP, RP
<1>3. "push" # "queue" /\ "pull" # "queue" /\ "pull" # "push"
  BY Zenon
<1>4. ASSUME NEW h \in Places
      PROVE  Joint(S, p)[h] = IF h[1] = "queue" THEN S[h] \o S[UP(p, h[3])]
                              ELSE IF h[1] = "push" /\ h[2] = p THEN <<>> ELSE S[h]
  BY Zenon DEF Joint
<1>5. ASSUME NEW x \in Procs, NEW r \in Qids
      PROVE  Joint(S, p)[QP(r)] = S[QP(r)] \o S[UP(p, r)]
  <2>1. QP(r) \in Places /\ QP(r)[1] = "queue" /\ QP(r)[3] = r
    BY <1>1, <1>2, Zenon
  <2> QED BY <2>1, <1>4, Zenon
<1>6. ASSUME NEW x \in Procs, NEW r \in Qids
      PROVE  Joint(S, p)[UP(p, r)] = <<>>
  BY <1>1, <1>2, <1>3, <1>4, Zenon
<1>7. ASSUME NEW x \in Procs, NEW r \in Qids, x # p
      PROVE  Joint(S, p)[UP(x, r)] = S[UP(x, r)]
  BY <1>1, <1>2, <1>3, <1>4, <1>7
<1>8. ASSUME NEW x \in Procs, NEW r \in Qids
      PROVE  Joint(S, p)[RP(x, r)] = S[RP(x, r)]
  BY <1>1, <1>2, <1>3, <1>4, Zenon
<1> QED BY <1>5, <1>6, <1>7, <1>8, Zenon

\* Everything a process has pushed goes to the queues: each item is still once there.
LEMMA JointOnce ==
  ASSUME NEW S, NEW hd, NEW p \in Procs, Once(S, hd),
         \A h \in Places : S[h] \in Seq(Items)
  PROVE  Once(Joint(S, p), hd)
<1>1. PICK S1 : S1 = Joint(S, p)
  BY Zenon
<1>2. ASSUME NEW r \in Qids, NEW i
      PROVE  Has(S1, hd, QP(r), i) <=> Has(S, hd, QP(r), i) \/ Has(S, hd, UP(p, r), i)
  <2>1. QP(r) \in Places /\ UP(p, r) \in Places
    BY PlaceLemma, Zenon
  <2>2. S1[QP(r)] = S[QP(r)] \o S[UP(p, r)]
    BY <1>1, JointLemma, Zenon
  <2>3. Of(S[QP(r)] \o S[UP(p, r)], i) <=> Of(S[QP(r)], i) \/ Of(S[UP(p, r)], i)
    BY <2>1, SetLemma, Zenon
  <2>4. /\ Has(S1, hd, QP(r), i) <=> Of(S1[QP(r)], i)
        /\ Has(S, hd, QP(r), i) <=> Of(S[QP(r)], i)
        /\ Has(S, hd, UP(p, r), i) <=> Of(S[UP(p, r)], i)
    BY <2>1, HasLemma, Zenon
  <2> QED BY <2>2, <2>3, <2>4, Zenon
<1>3. ASSUME NEW r \in Qids, NEW i PROVE ~Has(S1, hd, UP(p, r), i)
  <2>1. Has(S1, hd, UP(p, r), i) <=> Of(S1[UP(p, r)], i)
    BY PlaceLemma, HasLemma, Zenon
  <2>2. S1[UP(p, r)] = <<>>
    BY <1>1, JointLemma, Zenon
  <2>3. ~Of(<<>>, i)
    BY DEF Of
  <2> QED BY <2>1, <2>2, <2>3, Zenon
<1>4. ASSUME NEW h \in Holders, NEW i, \A r \in Qids : h # QP(r) /\ h # UP(p, r)
      PROVE  Has(S1, hd, h, i) <=> Has(S, hd, h, i)
  <2>1. CASE h \in Places
    <3>1. PICK x \in Procs, r \in Qids : (x # p /\ h = UP(x, r)) \/ h = RP(x, r)
      BY <2>1, <1>4, PlaceLemma, Zenon
    <3>2. S1[h] = S[h]
      <4>1. (x # p => S1[UP(x, r)] = S[UP(x, r)]) /\ S1[RP(x, r)] = S[RP(x, r)]
        BY <1>1, JointLemma, ZenonT(30)
      <4> QED BY <4>1, <3>1, Zenon
    <3>3. (Has(S1, hd, h, i) <=> Of(S1[h], i)) /\ (Has(S, hd, h, i) <=> Of(S[h], i))
      BY <2>1, HasLemma, Zenon
    <3> QED BY <3>2, <3>3, Zenon
  <2>2. CASE h \notin Places
    <3>1. PICK y \in Procs : h = HP(y)
      BY <2>2, PlaceLemma, Zenon
    <3> QED BY <3>1, HeldLemma, Zenon
  <2> QED BY <2>1, <2>2, Zenon
<1>5. ASSUME NEW i \in Items
      PROVE  \E h \in Holders : Has(S1, hd, h, i) /\ \A g \in Holders : Has(S1, hd, g, i) => g = h
  <2>1. PICK h \in Holders : Has(S, hd, h, i) /\ \A g \in Holders : Has(S, hd, g, i) => g = h
    BY Zenon DEF Once
  <2>2. \A r \in Qids : QP(r) \in Holders /\ UP(p, r) \in Holders
    BY PlaceLemma, Zenon
  <2>3. CASE \E r \in Qids : h = UP(p, r)
    <3>1. PICK r \in Qids : h = UP(p, r)
      BY <2>3, Zenon
    <3>2. Has(S1, hd, QP(r), i)
      BY <3>1, <2>1, <1>2, Zenon
    <3>3. ASSUME NEW g \in Holders, Has(S1, hd, g, i) PROVE g = QP(r)
      <4>1. CASE \E t \in Qids : g = QP(t)
        <5>1. PICK t \in Qids : g = QP(t)
          BY <4>1, Zenon
        <5>2. Has(S, hd, QP(t), i) \/ Has(S, hd, UP(p, t), i)
          BY <5>1, <3>3, <1>2, Zenon
        <5>3. QP(t) = UP(p, r) \/ UP(p, t) = UP(p, r)
          BY <5>2, <3>1, <2>1, <2>2, Zenon
        <5>4. t = r
          BY <5>3, PlacesDiffer
        <5> QED BY <5>1, <5>4, Zenon
      <4>2. CASE \A t \in Qids : g # QP(t)
        <5>1. \A t \in Qids : g # UP(p, t)
          BY <3>3, <1>3, Zenon
        <5>2. Has(S, hd, g, i)
          BY <5>1, <4>2, <3>3, <1>4, Zenon
        <5> QED BY <5>1, <5>2, <3>1, <2>1, Zenon
      <4> QED BY <4>1, <4>2, Zenon
    <3> QED BY <3>2, <3>3, <2>2, Zenon
  <2>4. CASE \A r \in Qids : h # UP(p, r)
    <3>1. Has(S1, hd, h, i)
      <4>1. CASE \E r \in Qids : h = QP(r)
        BY <4>1, <2>1, <1>2, Zenon
      <4>2. CASE \A r \in Qids : h # QP(r)
        BY <4>2, <2>1, <2>4, <1>4, Zenon
      <4> QED BY <4>1, <4>2, Zenon
    <3>2. ASSUME NEW g \in Holders, Has(S1, hd, g, i) PROVE g = h
      <4>1. \A t \in Qids : g # UP(p, t)
        BY <3>2, <1>3, Zenon
      <4>2. \A t \in Qids : ~Has(S, hd, UP(p, t), i)
        BY <2>1, <2>2, <2>4, Zenon
      <4>3. CASE \E t \in Qids : g = QP(t)
        BY <4>2, <4>3, <3>2, <2>1, <1>2, Zenon
      <4>4. CASE \A t \in Qids : g # QP(t)
        BY <4>1, <4>4, <3>2, <2>1, <1>4, Zenon
      <4> QED BY <4>3, <4>4, Zenon
    <3> QED BY <3>1, <3>2, Zenon
  <2> QED BY <2>3, <2>4, Zenon
<1> QED BY <1>1, <1>5, Zenon DEF Once

\* p's lists for pushing after a flush.
Emptier(p) ==
  [qids_nolock_push EXCEPT ![p] =
     [r \in Qids |-> IF r \in Emptied(p) THEN Empty ELSE qids_nolock_push[p][r]]]

\* The first half of shf_q_flush.
LEMMA HangSound ==
  ASSUME NEW S, Sound(next, qids, qids_nolock_push, qids_nolock_pull, held, S), NEW p \in Procs
  PROVE  /\ Sound(Hung(p), Grown(p), Emptier(p), qids_nolock_pull, held, Joint(S, p))
         /\ \A r \in Qids : Grown(p)[r].size = Len(S[QP(r)] \o S[UP(p, r)])
<1>1. PICK qd, pu, pl : qd = qids /\ pu = qids_nolock_push /\ pl = qids_nolock_pull
  BY Zenon
<1>2. PICK nx, hd : nx = next /\ hd = held
  BY Zenon
<1>3. /\ nx \in Links /\ hd \in [Procs -> SUBSET Items] /\ qd \in [Qids -> Lists]
      /\ pu \in OwnLists /\ pl \in OwnLists
      /\ \A h \in Places : Rep(nx, ListIn(qd, pu, pl, h), S[h])
      /\ Once(S, hd)
      /\ \A h \in Places : S[h] \in Seq(Items)
      /\ \A h \in Places : \A k \in 1..Len(S[h]) : S[h][k] \in Items
      /\ \A g, h \in Places : g # h =>
           \A j \in 1..Len(S[g]), k \in 1..Len(S[h]) : S[g][j] # S[h][k]
  <2>1. Sound(nx, qd, pu, pl, hd, S)
    BY <1>1, <1>2, Zenon
  <2> QED BY <2>1, SoundLemma
<1>4. PICK A : A = [r \in Qids |-> S[QP(r)]]
  BY Zenon
<1>5. PICK B : B = [r \in Qids |-> S[UP(p, r)]]
  BY Zenon
<1>6. \A r \in Qids : A[r] = S[QP(r)] /\ B[r] = S[UP(p, r)]
  BY <1>4, <1>5, Zenon
<1>7. \A r \in Qids : QP(r) \in Places /\ UP(p, r) \in Places
  BY PlaceLemma, Zenon
<1>8. \A r, t \in Qids : QP(r) # UP(p, t) /\ (r # t => QP(r) # QP(t) /\ UP(p, r) # UP(p, t))
  BY PlacesDiffer, Zenon
<1>9. Apart(A, B)
  <2>1. ASSUME NEW r \in Qids, NEW t \in Qids
        PROVE  /\ A[r] \in Seq(Items) /\ B[r] \in Seq(Items)
               /\ \A j \in 1..Len(A[r]), k \in 1..Len(B[t]) : A[r][j] # B[t][k]
               /\ r # t => /\ \A j \in 1..Len(A[r]), k \in 1..Len(A[t]) : A[r][j] # A[t][k]
                           /\ \A j \in 1..Len(B[r]), k \in 1..Len(B[t]) : B[r][j] # B[t][k]
    <3>1. A[r] \in Seq(Items) /\ B[r] \in Seq(Items)
      BY <1>3, <1>6, <1>7, Zenon
    <3>2. \A j \in 1..Len(S[QP(r)]), k \in 1..Len(S[UP(p, t)]) : S[QP(r)][j] # S[UP(p, t)][k]
      BY <1>3, <1>7, <1>8, Zenon
    <3>3. ASSUME r # t
          PROVE  \A j \in 1..Len(S[QP(r)]), k \in 1..Len(S[QP(t)]) : S[QP(r)][j] # S[QP(t)][k]
      BY <3>3, <1>3, <1>7, <1>8, Zenon
    <3>4. ASSUME r # t
          PROVE  \A j \in 1..Len(S[UP(p, r)]), k \in 1..Len(S[UP(p, t)]) :
                   S[UP(p, r)][j] # S[UP(p, t)][k]
      BY <3>4, <1>3, <1>7, <1>8, Zenon
    <3>5. A[r] = S[QP(r)] /\ A[t] = S[QP(t)] /\ B[r] = S[UP(p, r)] /\ B[t] = S[UP(p, t)]
      BY <1>6, Zenon
    <3> QED BY <3>1, <3>2, <3>3, <3>4, <3>5, ZenonT(30)
  <2> QED BY <2>1, Zenon DEF Apart
<1>10. \A r \in Qids : Rep(next, qids[r], A[r]) /\ Rep(next, qids_nolock_push[p][r], B[r])
  <2>1. ASSUME NEW r \in Qids PROVE Rep(nx, qd[r], A[r]) /\ Rep(nx, pu[p][r], B[r])
    <3>1. ListIn(qd, pu, pl, QP(r)) = qd[r] /\ ListIn(qd, pu, pl, UP(p, r)) = pu[p][r]
      BY ListOfQueue, ListOfPush
    <3>2. Rep(nx, ListIn(qd, pu, pl, QP(r)), S[QP(r)])
          /\ Rep(nx, ListIn(qd, pu, pl, UP(p, r)), S[UP(p, r)])
      BY <1>3, <1>7, Zenon
    <3> QED BY <3>1, <3>2, <1>6, Zenon
  <2> QED BY <2>1, <1>1, <1>2, ZenonT(30)
<1>11. PICK ny, qd2, pu2, S1 : /\ ny = Hung(p) /\ qd2 = Grown(p) /\ pu2 = Emptier(p)
                               /\ S1 = Joint(S, p)
  BY Zenon
<1>12. /\ ny \in Links
       /\ \A r \in Qids : Rep(ny, qd2[r], A[r] \o B[r])
       /\ \A i \in Items :
            (\A r \in Qids : (\A j \in 1..Len(A[r]) : A[r][j] # i)
                               /\ (\A j \in 1..Len(B[r]) : B[r][j] # i)) => ny[i] = nx[i]
       /\ \A r \in Qids : r \in Emptied(p) <=> B[r] # <<>>
  <2>1. next \in Links
    BY <1>2, <1>3, ZenonT(30)
  <2>2. /\ Hung(p) \in Links
        /\ \A r \in Qids : Rep(Hung(p), Grown(p)[r], A[r] \o B[r])
        /\ \A i \in Items :
             (\A r \in Qids : (\A j \in 1..Len(A[r]) : A[r][j] # i)
                                /\ (\A j \in 1..Len(B[r]) : B[r][j] # i))
               => Hung(p)[i] = next[i]
        /\ \A r \in Qids : r \in Emptied(p) <=> B[r] # <<>>
    BY <2>1, <1>9, <1>10, HangLemma, SMTT(20)
  <2> QED BY <2>2, <1>2, <1>11, Zenon
<1>13. qd2 \in [Qids -> Lists]
  <2>1. \A r \in Qids : qd2[r] \in Lists
    BY <1>12, SizeLemma, Zenon DEF Rep
  <2> QED BY <2>1, <1>11, Zenon DEF Grown
<1>14. Empty \in Lists
  <2>1. Chain(nx, Empty, <<>>)
    BY DEF Chain, Empty
  <2> QED BY <2>1, SizeLemma, Zenon
<1>15. /\ pu2 \in OwnLists
       /\ \A x \in Procs, r \in Qids :
            pu2[x][r] = IF x = p /\ r \in Emptied(p) THEN Empty ELSE pu[x][r]
  BY <1>1, <1>3, <1>11, <1>14, ZenonT(30) DEF Emptier, OwnLists
<1>16. ASSUME NEW r \in Qids
       PROVE  /\ Rep(ny, ListIn(qd2, pu2, pl, QP(r)), S1[QP(r)])
              /\ Rep(ny, ListIn(qd2, pu2, pl, UP(p, r)), S1[UP(p, r)])
  <2>1. S1[QP(r)] = A[r] \o B[r] /\ S1[UP(p, r)] = <<>>
    <3>1. S1[QP(r)] = S[QP(r)] \o S[UP(p, r)] /\ S1[UP(p, r)] = <<>>
      BY <1>11, JointLemma, Zenon
    <3> QED BY <3>1, <1>6, Zenon
  <2>2. ListIn(qd2, pu2, pl, QP(r)) = qd2[r] /\ ListIn(qd2, pu2, pl, UP(p, r)) = pu2[p][r]
    BY ListOfQueue, ListOfPush
  <2>3. pu2[p][r] = Empty
    <3>1. CASE r \in Emptied(p)
      BY <3>1, <1>15, Zenon
    <3>2. CASE r \notin Emptied(p)
      <4>1. Chain(nx, pu[p][r], <<>>)
        BY <3>2, <1>1, <1>2, <1>10, <1>12, Zenon DEF Rep
      <4>2. pu[p][r] = Empty
        BY <4>1, EndsLemma, Zenon
      <4> QED BY <4>2, <3>2, <1>15, Zenon
    <3> QED BY <3>1, <3>2, Zenon
  <2>4. Rep(ny, Empty, <<>>)
    BY DEF Rep, Chain, Empty
  <2>5. Rep(ny, qd2[r], A[r] \o B[r])
    BY <1>12, Zenon
  <2> QED BY <2>1, <2>2, <2>3, <2>4, <2>5, Zenon
<1>17. ASSUME NEW h \in Places, \A r \in Qids : h # QP(r) /\ h # UP(p, r)
       PROVE  Rep(ny, ListIn(qd2, pu2, pl, h), S1[h])
  <2>1. PICK x \in Procs, r \in Qids : (x # p /\ h = UP(x, r)) \/ h = RP(x, r)
    BY <1>17, PlaceLemma, Zenon
  <2>2. S1[h] = S[h]
    <3>1. (x # p => S1[UP(x, r)] = S[UP(x, r)]) /\ S1[RP(x, r)] = S[RP(x, r)]
      BY <1>11, JointLemma, ZenonT(30)
    <3> QED BY <3>1, <2>1, Zenon
  <2>3. ListIn(qd2, pu2, pl, h) = ListIn(qd, pu, pl, h)
    <3>1. /\ ListIn(qd2, pu2, pl, UP(x, r)) = pu2[x][r] /\ ListIn(qd, pu, pl, UP(x, r)) = pu[x][r]
          /\ ListIn(qd2, pu2, pl, RP(x, r)) = pl[x][r] /\ ListIn(qd, pu, pl, RP(x, r)) = pl[x][r]
      BY ListOfPush, ListOfPull, SMTT(20)
    <3> QED BY <3>1, <2>1, <1>15, Zenon
  <2>4. ASSUME NEW k \in 1..Len(S[h]) PROVE ny[S[h][k]] = nx[S[h][k]]
    <3>1. S[h][k] \in Items
      BY <1>3, Zenon
    <3>2. ASSUME NEW t \in Qids
          PROVE  /\ \A j \in 1..Len(S[QP(t)]) : S[QP(t)][j] # S[h][k]
                 /\ \A j \in 1..Len(S[UP(p, t)]) : S[UP(p, t)][j] # S[h][k]
      BY <1>3, <1>7, <1>17, Zenon
    <3>3. ASSUME NEW t \in Qids
          PROVE  /\ \A j \in 1..Len(A[t]) : A[t][j] # S[h][k]
                 /\ \A j \in 1..Len(B[t]) : B[t][j] # S[h][k]
      <4>1. A[t] = S[QP(t)] /\ B[t] = S[UP(p, t)]
        BY <1>6, Zenon
      <4> QED BY <4>1, <3>2, Zenon
    <3> QED BY <3>1, <3>3, <1>12, Zenon
  <2>5. Rep(ny, ListIn(qd, pu, pl, h), S[h])
    BY <2>4, <1>3, FrameLemma, Zenon
  <2> QED BY <2>2, <2>3, <2>5, Zenon
<1>18. \A h \in Places : Rep(ny, ListIn(qd2, pu2, pl, h), S1[h])
  BY <1>16, <1>17, Zenon
<1>19. Once(S1, hd)
  BY <1>3, <1>11, JointOnce, Zenon
<1>20. Sound(ny, qd2, pu2, pl, hd, S1)
  BY <1>3, <1>12, <1>13, <1>15, <1>18, <1>19, ZenonT(30) DEF Sound
<1>21. \A r \in Qids : Grown(p)[r].size = Len(S[QP(r)] \o S[UP(p, r)])
  <2>1. ASSUME NEW r \in Qids PROVE qd2[r].size = Len(A[r] \o B[r])
    BY <1>12, EndsLemma, ZenonT(30) DEF Rep
  <2> QED BY <2>1, <1>6, <1>11, Zenon
<1> QED BY <1>1, <1>2, <1>11, <1>20, <1>21, Zenon

-----------------------------------------------------------------------------
(***************************************************************************)
(* The inductive invariant.                                                *)
(***************************************************************************)
\* The items of the lists.
Seqs == [h \in Places |->
           Walk(next, ListIn(qids, qids_nolock_push, qids_nolock_pull, h))]

\* The lists as they are lead through their items, and no item is in two places.
SoundNow == Sound(next, qids, qids_nolock_push, qids_nolock_pull, held, Seqs)

\* Where each process is; one that is to take an item knows from which queue.
Control ==
  /\ pc \in [Procs -> {"idle", "flush", "take"}]
  /\ pull_qid \in [Procs -> Qids \cup {NONE}]
  /\ \A p \in Procs : pc[p] = "take" => pull_qid[p] # NONE

\* A flush gives a process no more items than qids_nolock_max.
Room == \A p \in Procs, q \in Qids : Len(Seqs[RP(p, q)]) <= qids_nolock_max

\* The inductive invariant.
IInv == SoundNow /\ Control /\ Room

\* In sound lists, walking the links from a list's tail gives the items it is said to have.
LEMMA WalkSound ==
  ASSUME NEW nx, NEW qd, NEW pu, NEW pl, NEW hd, NEW S, Sound(nx, qd, pu, pl, hd, S)
  PROVE  \A h \in Places : Walk(nx, ListIn(qd, pu, pl, h)) = S[h]
<1>1. \A h \in Places : Chain(nx, ListIn(qd, pu, pl, h), S[h])
  BY Zenon DEF Sound, Rep
<1> QED BY <1>1, WalkLemma, Zenon

\* Soundness is about the items at the places and nothing else of S.
LEMMA SameSound ==
  ASSUME NEW nx, NEW qd, NEW pu, NEW pl, NEW hd, NEW S, Sound(nx, qd, pu, pl, hd, S),
         NEW T, \A h \in Places : T[h] = S[h]
  PROVE  Sound(nx, qd, pu, pl, hd, T)
<1>1. /\ nx \in Links /\ hd \in [Procs -> SUBSET Items] /\ qd \in [Qids -> Lists]
      /\ pu \in OwnLists /\ pl \in OwnLists
      /\ \A h \in Places : Rep(nx, ListIn(qd, pu, pl, h), S[h])
      /\ Once(S, hd)
  BY Zenon DEF Sound
<1>2. ASSUME NEW h \in Holders, NEW i PROVE Has(T, hd, h, i) <=> Has(S, hd, h, i)
  <2>1. CASE h \in Places
    <3>1. (Has(T, hd, h, i) <=> Of(T[h], i)) /\ (Has(S, hd, h, i) <=> Of(S[h], i))
      BY <2>1, HasLemma, Zenon
    <3> QED BY <3>1, <2>1, Zenon
  <2>2. CASE h \notin Places
    <3>1. PICK y \in Procs : h = HP(y)
      BY <2>2, PlaceLemma, Zenon
    <3> QED BY <3>1, HeldLemma, Zenon
  <2> QED BY <2>1, <2>2, Zenon
<1>3. Once(T, hd)
  BY <1>1, <1>2, Zenon DEF Once
<1>4. \A h \in Places : Rep(nx, ListIn(qd, pu, pl, h), T[h])
  BY <1>1, Zenon
<1> QED BY <1>1, <1>3, <1>4, Zenon DEF Sound

\* The lists of the next state.
LEMMA Renew ==
  ASSUME NEW S, Sound(next', qids', qids_nolock_push', qids_nolock_pull', held', S)
  PROVE  SoundNow' /\ \A h \in Places : Seqs'[h] = S[h]
<1>1. \A h \in Places :
        Seqs'[h] = Walk(next', ListIn(qids', qids_nolock_push', qids_nolock_pull', h))
  BY Zenon DEF Seqs
<1>2. \A h \in Places :
        Walk(next', ListIn(qids', qids_nolock_push', qids_nolock_pull', h)) = S[h]
  BY WalkSound, ZenonT(30)
<1>3. \A h \in Places : Seqs'[h] = S[h]
  BY <1>1, <1>2, Zenon
<1>4. Sound(next', qids', qids_nolock_push', qids_nolock_pull', held', Seqs')
  BY <1>3, SameSound, Zenon
<1> QED BY <1>3, <1>4, Zenon DEF SoundNow

\* shf_q_new: the items 0, 1, ... are in queue 0.
LEMMA InitLemma == Init => IInv /\ Seqs[QP(0)] = [i \in 1..q_items |-> i - 1]
                                /\ \A h \in Places : h # QP(0) => Seqs[h] = <<>>
<1> SUFFICES ASSUME Init
             PROVE  IInv /\ Seqs[QP(0)] = [i \in 1..q_items |-> i - 1]
                         /\ \A h \in Places : h # QP(0) => Seqs[h] = <<>>
  BY Zenon
<1>1. PICK a : a = QP(0)
  BY Zenon
<1>2. PICK s : s = [i \in 1..q_items |-> i - 1]
  BY Zenon
<1>3. PICK S : S = [h \in Places |-> IF h = a THEN s ELSE <<>>]
  BY Zenon
<1>4. \A h \in Places : S[h] = IF h = a THEN s ELSE <<>>
  BY <1>3, Zenon
<1>5. q_items \in Nat \ {0} /\ qs \in Nat \ {0} /\ NONE \notin Nat
  BY QueueAssumption
<1>6. /\ s \in Seq(Items) /\ Len(s) = q_items /\ s # <<>>
      /\ \A k \in 1..q_items : s[k] = k - 1
  BY <1>2, <1>5 DEF Items
<1>7. 0 \in Qids /\ a \in Places
  <2>1. 0 \in Qids
    BY <1>5 DEF Qids
  <2> QED BY <2>1, <1>1, PlaceLemma, Zenon
<1>8. next \in Links /\ \A i \in Items : next[i] = IF i = q_items - 1 THEN NONE ELSE i + 1
  <2>1. ASSUME NEW i \in Items PROVE (IF i = q_items - 1 THEN NONE ELSE i + 1) \in Items \cup {NONE}
    BY <1>5 DEF Items
  <2> QED BY <2>1, Zenon DEF Init, Links
<1>9. Rep(next, [tail |-> 0, head |-> q_items - 1, size |-> q_items], s)
  <2>1. \A j, k \in 1..Len(s) : s[j] = s[k] => j = k
    BY <1>5, <1>6
  <2>2. ASSUME NEW k \in 1..(Len(s) - 1) PROVE next[s[k]] = s[k + 1]
    <3>1. k \in 1..q_items /\ k + 1 \in 1..q_items /\ k - 1 \in Items /\ k - 1 # q_items - 1
          /\ (k - 1) + 1 = (k + 1) - 1
      BY <1>5, <1>6 DEF Items
    <3> QED BY <3>1, <1>6, <1>8, Zenon
  <2>3. s[1] = 0 /\ s[Len(s)] = q_items - 1 /\ q_items - 1 \in Items
    BY <1>5, <1>6 DEF Items
  <2>4. next[s[Len(s)]] = NONE
    BY <2>3, <1>8, Zenon
  <2>5. Chain(next, [tail |-> 0, head |-> q_items - 1, size |-> q_items], s)
    BY <2>1, <2>2, <2>3, <1>6, Zenon DEF Chain
  <2> QED BY <2>4, <2>5, Zenon DEF Rep
<1>10. Rep(next, Empty, <<>>)
  BY DEF Rep, Chain, Empty
<1>11. PICK whole : whole = [tail |-> 0, head |-> q_items - 1, size |-> q_items]
  BY Zenon
<1>12. whole \in Lists /\ Empty \in Lists
  BY <1>9, <1>10, <1>11, SizeLemma, Zenon DEF Rep
<1>13. /\ qids \in [Qids -> Lists] /\ qids_nolock_push \in OwnLists /\ qids_nolock_pull \in OwnLists
       /\ \A q \in Qids : qids[q] = IF q = 0 THEN whole ELSE Empty
       /\ \A p \in Procs, q \in Qids : /\ qids_nolock_push[p][q] = Empty
                                       /\ qids_nolock_pull[p][q] = Empty
  BY <1>11, <1>12, Zenon DEF Init, OwnLists
<1>14. ASSUME NEW h \in Places
       PROVE  Rep(next, ListIn(qids, qids_nolock_push, qids_nolock_pull, h), S[h])
  <2>1. CASE \E q \in Qids : h = QP(q)
    <3>1. PICK q \in Qids : h = QP(q)
      BY <2>1, Zenon
    <3>2. ListIn(qids, qids_nolock_push, qids_nolock_pull, h) = IF q = 0 THEN whole ELSE Empty
      BY <3>1, <1>13, ListOfQueue
    <3>3. h = a <=> q = 0
      BY <3>1, <1>1, PlacesDiffer, Zenon
    <3> QED BY <3>2, <3>3, <1>4, <1>9, <1>10, <1>11, Zenon
  <2>2. CASE \E p \in Procs, q \in Qids : h = UP(p, q) \/ h = RP(p, q)
    <3>1. PICK p \in Procs, q \in Qids : h = UP(p, q) \/ h = RP(p, q)
      BY <2>2, Zenon
    <3>2. ListIn(qids, qids_nolock_push, qids_nolock_pull, h) = Empty
      BY <3>1, <1>13, ListOfPush, ListOfPull
    <3>3. h # a
      BY <3>1, <1>1, PlacesDiffer, Zenon
    <3> QED BY <3>2, <3>3, <1>4, <1>10, Zenon
  <2> QED BY <2>1, <2>2, PlaceLemma, Zenon
<1>15. held \in [Procs -> SUBSET Items] /\ \A p \in Procs : held[p] = {}
  BY Zenon DEF Init
<1>16. Once(S, held)
  <2>1. ASSUME NEW i \in Items
        PROVE  /\ Has(S, held, a, i)
               /\ \A g \in Holders : Has(S, held, g, i) => g = a
    <3>1. i + 1 \in 1..q_items /\ (i + 1) - 1 = i
      BY <1>5 DEF Items
    <3>2. Of(s, i)
      BY <3>1, <1>6, Zenon DEF Of
    <3>3. Has(S, held, a, i)
      BY <3>2, <1>4, <1>7, HasLemma, Zenon
    <3>4. ASSUME NEW g \in Holders, Has(S, held, g, i) PROVE g = a
      <4>1. CASE g \in Places
        <5>1. Of(S[g], i)
          BY <4>1, <3>4, HasLemma, Zenon
        <5>2. ~Of(<<>>, i)
          BY DEF Of
        <5> QED BY <5>1, <5>2, <4>1, <1>4, Zenon
      <4>2. CASE g \notin Places
        BY <4>2, <3>4, <1>15, PlaceLemma, HeldLemma
      <4> QED BY <4>1, <4>2, Zenon
    <3> QED BY <3>3, <3>4, Zenon
  <2>2. a \in Holders
    BY <1>7, PlaceLemma, Zenon
  <2> QED BY <2>1, <2>2, Zenon DEF Once
<1>17. Sound(next, qids, qids_nolock_push, qids_nolock_pull, held, S)
  BY <1>8, <1>13, <1>14, <1>15, <1>16, Zenon DEF Sound
<1>18. \A h \in Places : Seqs[h] = S[h]
  BY <1>17, WalkSound DEF Seqs
<1>19. SoundNow
  BY <1>17, <1>18, SameSound, Zenon DEF SoundNow
<1>20. Control
  BY Zenon DEF Init, Control
<1>21. Room
  <2>1. ASSUME NEW p \in Procs, NEW q \in Qids PROVE Len(Seqs[RP(p, q)]) <= qids_nolock_max
    <3>1. RP(p, q) \in Places /\ RP(p, q) # a
      BY <1>1, PlaceLemma, PlacesDiffer, Zenon
    <3>2. Seqs[RP(p, q)] = <<>> /\ qids_nolock_max \in Nat
      BY <3>1, <1>4, <1>18, QueueAssumption, Zenon
    <3> QED BY <3>2
  <2> QED BY <2>1, Zenon DEF Room
<1> QED BY <1>1, <1>2, <1>4, <1>7, <1>18, <1>19, <1>20, <1>21, Zenon DEF IInv

\* One lemma for each change of the lists.
LEMMA PushStep ==
  ASSUME IInv, NEW p \in Procs, NEW q \in Qids, NEW i, Push(p, q, i)
  PROVE  /\ SoundNow'
         /\ \A h \in Places : Seqs'[h] = Put(Seqs, UP(p, q), Seqs[UP(p, q)] \o <<i>>)[h]
<1>1. i \in held[p] /\ Sound(next, qids, qids_nolock_push, qids_nolock_pull, held, Seqs)
  BY Zenon DEF IInv, SoundNow, Push
<1>2. Sound(Linked(next, qids_nolock_push[p][q], Single(i)), qids,
            [qids_nolock_push EXCEPT ![p][q] = Joined(qids_nolock_push[p][q], Single(i))],
            qids_nolock_pull, [held EXCEPT ![p] = held[p] \ {i}],
            Put(Seqs, UP(p, q), Seqs[UP(p, q)] \o <<i>>))
  BY <1>1, PushSound, Zenon
<1>3. /\ next' = Linked(next, qids_nolock_push[p][q], Single(i)) /\ qids' = qids
      /\ qids_nolock_push' =
           [qids_nolock_push EXCEPT ![p][q] = Joined(qids_nolock_push[p][q], Single(i))]
      /\ qids_nolock_pull' = qids_nolock_pull /\ held' = [held EXCEPT ![p] = held[p] \ {i}]
  BY Zenon DEF Push
<1>4. Sound(next', qids', qids_nolock_push', qids_nolock_pull', held',
            Put(Seqs, UP(p, q), Seqs[UP(p, q)] \o <<i>>))
  BY <1>2, <1>3, Zenon
<1> QED BY <1>4, Renew, Zenon

\* A step that leaves the lists and the held items alone keeps them sound.
LEMMA StayStep ==
  ASSUME IInv, UNCHANGED <<lists, held>>
  PROVE  SoundNow' /\ \A h \in Places : Seqs'[h] = Seqs[h]
<1>1. Sound(next, qids, qids_nolock_push, qids_nolock_pull, held, Seqs)
  BY Zenon DEF IInv, SoundNow
<1>2. /\ next' = next /\ qids' = qids /\ qids_nolock_push' = qids_nolock_push
      /\ qids_nolock_pull' = qids_nolock_pull /\ held' = held
  BY Zenon DEF lists
<1>3. Sound(next', qids', qids_nolock_push', qids_nolock_pull', held', Seqs)
  BY <1>1, <1>2, Zenon
<1> QED BY <1>3, Renew, Zenon

\* The size of a list for pulling.
LEMMA PullSize ==
  ASSUME IInv, NEW p \in Procs, NEW q \in Qids
  PROVE  /\ qids_nolock_pull[p][q].size = Len(Seqs[RP(p, q)])
         /\ Seqs[RP(p, q)] \in Seq(Items) /\ Len(Seqs[RP(p, q)]) \in Nat
         /\ Len(Seqs[RP(p, q)]) = 0 <=> Seqs[RP(p, q)] = <<>>
<1>1. Rep(next, ListIn(qids, qids_nolock_push, qids_nolock_pull, RP(p, q)), Seqs[RP(p, q)])
  BY PlaceLemma, Zenon DEF IInv, SoundNow, Sound
<1>2. ListIn(qids, qids_nolock_push, qids_nolock_pull, RP(p, q)) = qids_nolock_pull[p][q]
  BY ListOfPull
<1>3. Chain(next, qids_nolock_pull[p][q], Seqs[RP(p, q)])
  BY <1>1, <1>2, Zenon DEF Rep
<1> QED BY <1>3, EndsLemma

\* The end of a pull, which takes the first item of the process's own list or finds it empty,
\* keeps the lists sound.
LEMMA TakeStep ==
  ASSUME IInv, NEW p \in Procs, NEW q, q = pull_qid[p], Take(p)
  PROVE  /\ q \in Qids /\ SoundNow'
         /\ \/ held' = held /\ \A h \in Places : Seqs'[h] = Seqs[h]
            \/ /\ Seqs[RP(p, q)] # <<>>
               /\ held' = [held EXCEPT ![p] = held[p] \cup {Head(Seqs[RP(p, q)])}]
               /\ \A h \in Places : Seqs'[h] = Put(Seqs, RP(p, q), Tail(Seqs[RP(p, q)]))[h]
<1>1. q \in Qids
  BY Zenon DEF IInv, Control, Take
<1>2. /\ next' = next /\ qids' = qids /\ qids_nolock_push' = qids_nolock_push
  BY Zenon DEF Take
<1>3. PICK l : l = qids_nolock_pull[p][q]
  BY Zenon
<1>4. CASE l.size = 0
  <2>1. UNCHANGED <<lists, held>>
    <3>1. qids_nolock_pull' = qids_nolock_pull /\ held' = held
      BY <1>3, <1>4, Zenon DEF Take
    <3> QED BY <3>1, <1>2, Zenon DEF lists
  <2>2. held' = held
    BY <2>1, Zenon
  <2> QED BY <2>1, <2>2, <1>1, StayStep, Zenon
<1>5. CASE l.size # 0
  <2>1. /\ held' = [held EXCEPT ![p] = held[p] \cup {l.tail}]
        /\ qids_nolock_pull' = [qids_nolock_pull EXCEPT ![p][q] = Shorter(next, l)]
    BY <1>3, <1>5, Zenon DEF Take, Shorter
  <2>2. Seqs[RP(p, q)] # <<>>
    BY <1>1, <1>3, <1>5, PullSize, Zenon
  <2>3. Sound(next, qids, qids_nolock_push, qids_nolock_pull, held, Seqs)
    BY Zenon DEF IInv, SoundNow
  <2>4. /\ l.tail = Head(Seqs[RP(p, q)])
        /\ Sound(next, qids, qids_nolock_push,
                 [qids_nolock_pull EXCEPT ![p][q] = Shorter(next, l)],
                 [held EXCEPT ![p] = held[p] \cup {l.tail}],
                 Put(Seqs, RP(p, q), Tail(Seqs[RP(p, q)])))
    <3>1. /\ qids_nolock_pull[p][q].tail = Head(Seqs[RP(p, q)])
          /\ Sound(next, qids, qids_nolock_push,
                   [qids_nolock_pull EXCEPT ![p][q] = Shorter(next, qids_nolock_pull[p][q])],
                   [held EXCEPT ![p] = held[p] \cup {qids_nolock_pull[p][q].tail}],
                   Put(Seqs, RP(p, q), Tail(Seqs[RP(p, q)])))
      BY <2>2, <2>3, <1>1, TakeSound
    <3> QED BY <3>1, <1>3, ZenonT(30)
  <2>5. Sound(next', qids', qids_nolock_push', qids_nolock_pull', held',
              Put(Seqs, RP(p, q), Tail(Seqs[RP(p, q)])))
    BY <2>1, <2>4, <1>2, Zenon
  <2>6. /\ SoundNow'
        /\ \A h \in Places : Seqs'[h] = Put(Seqs, RP(p, q), Tail(Seqs[RP(p, q)]))[h]
    BY <2>5, Renew, Zenon
  <2>7. held' = [held EXCEPT ![p] = held[p] \cup {Head(Seqs[RP(p, q)])}]
    BY <2>1, <2>4, Zenon
  <2> QED BY <2>2, <2>6, <2>7, <1>1, Zenon
<1> QED BY <1>4, <1>5, Zenon

\* The items of the lists after a flush that gives p the first n items of queue q.
After(S, p, q, n) ==
  Put(Put(Joint(S, p), QP(q), SubSeq(Joint(S, p)[QP(q)], n + 1, Len(Joint(S, p)[QP(q)]))),
      RP(p, q), Joint(S, p)[RP(p, q)] \o SubSeq(Joint(S, p)[QP(q)], 1, n))

\* The items of each list after a flush.
LEMMA AfterLemma ==
  ASSUME NEW S, NEW p \in Procs, NEW q \in Qids, NEW n, NEW h \in Places
  PROVE  After(S, p, q, n)[h] =
           IF h = RP(p, q) THEN S[RP(p, q)] \o SubSeq(Joint(S, p)[QP(q)], 1, n)
           ELSE IF h = QP(q) THEN SubSeq(Joint(S, p)[QP(q)], n + 1, Len(Joint(S, p)[QP(q)]))
           ELSE Joint(S, p)[h]
<1>1. PICK J, w : J = Joint(S, p) /\ w = J[QP(q)]
  BY Zenon
<1>2. J[RP(p, q)] = S[RP(p, q)]
  BY <1>1, JointLemma, Zenon
<1>3. PICK r, t : r = SubSeq(w, n + 1, Len(w)) /\ t = J[RP(p, q)] \o SubSeq(w, 1, n)
  BY Zenon
<1>4. PICK T : T = Put(J, QP(q), r)
  BY Zenon
<1>5. After(S, p, q, n) = Put(T, RP(p, q), t)
  BY <1>1, <1>3, <1>4, Zenon DEF After
<1>6. T[h] = IF h = QP(q) THEN r ELSE J[h]
  BY <1>4, PutLemma, SMTT(20)
<1>7. Put(T, RP(p, q), t)[h] = IF h = RP(p, q) THEN t ELSE T[h]
  BY PutLemma
<1>8. After(S, p, q, n)[h] = IF h = RP(p, q) THEN t ELSE IF h = QP(q) THEN r ELSE J[h]
  BY <1>5, <1>6, <1>7, Zenon
<1> QED BY <1>1, <1>2, <1>3, <1>8, Zenon

\* A flush that gives p nothing.
LEMMA AfterNothing ==
  ASSUME NEW S, \A h \in Places : S[h] \in Seq(Items), NEW p \in Procs, NEW q \in Qids
  PROVE  \A h \in Places : After(S, p, q, 0)[h] = Joint(S, p)[h]
<1>1. PICK w, s : w = Joint(S, p)[QP(q)] /\ s = S[RP(p, q)]
  BY Zenon
<1>2. S[QP(q)] \in Seq(Items) /\ S[UP(p, q)] \in Seq(Items) /\ s \in Seq(Items)
  BY <1>1, PlaceLemma, Zenon
<1>3. w = S[QP(q)] \o S[UP(p, q)] /\ Joint(S, p)[RP(p, q)] = s
  BY <1>1, JointLemma, Zenon
<1>4. w \in Seq(Items)
  BY <1>2, <1>3, JoinSeqs, Zenon
<1>5. SubSeq(w, 0 + 1, Len(w)) = w /\ SubSeq(w, 1, 0) = <<>> /\ s \o <<>> = s
  <2>1. SubSeq(w, 1, Len(w)) = w
    BY <1>4, SubSeqWhole, Zenon
  <2>2. SubSeq(w, 1, 0) = <<>>
    BY SubSeqNothing
  <2>3. s \o <<>> = s
    BY <1>2, ConcatNothing, Zenon
  <2>4. 0 + 1 = 1
    OBVIOUS
  <2> QED BY <2>1, <2>2, <2>3, <2>4, Zenon
<1>6. ASSUME NEW h \in Places PROVE After(S, p, q, 0)[h] = Joint(S, p)[h]
  <2>1. After(S, p, q, 0)[h] =
          IF h = RP(p, q) THEN s \o SubSeq(w, 1, 0)
          ELSE IF h = QP(q) THEN SubSeq(w, 0 + 1, Len(w)) ELSE Joint(S, p)[h]
    BY <1>1, AfterLemma
  <2>2. After(S, p, q, 0)[h] = IF h = RP(p, q) THEN s ELSE IF h = QP(q) THEN w ELSE Joint(S, p)[h]
    BY <2>1, <1>5, Zenon
  <2> QED BY <2>2, <1>1, <1>3, Zenon
<1> QED BY <1>6, Zenon

\* shf_q_flush moves no more than the queue has and than there is room for.
LEMMA ToPullLemma ==
  ASSUME NEW p, NEW size \in Nat, NEW l \in Nat, qids_nolock_pull[p][pull_qid[p]].size = l
  PROVE  /\ ToPull(p, size) \in 0..size
         /\ ToPull(p, size) # 0 => /\ ToPull(p, size) \in 1..size
                                   /\ l + ToPull(p, size) <= qids_nolock_max
BY QueueAssumption DEF ToPull

\* shf_q_flush keeps the lists sound: the queues get what p pushed, and p gets the first
\* items of the queue it pulls from, as many as there is room for.
LEMMA FlushStep ==
  ASSUME IInv, NEW p \in Procs, Flush(p)
  PROVE  /\ SoundNow'
         /\ \E q \in Qids : \E n \in 0..Len(Joint(Seqs, p)[QP(q)]) :
              /\ Len(Seqs[RP(p, q)]) + n <= qids_nolock_max
              /\ \A h \in Places : Seqs'[h] = After(Seqs, p, q, n)[h]
<1>1. PICK q : q = pull_qid[p]
  BY Zenon
<1>2. PICK n : n = IF q = NONE THEN 0 ELSE ToPull(p, Grown(p)[q].size)
  BY Zenon
<1>3. PICK part : part = Front(Hung(p), Grown(p)[q], n)
  BY Zenon
<1>4. /\ held' = held /\ qids_nolock_push' = Emptier(p)
      /\ IF n = 0
           THEN qids' = Grown(p) /\ next' = Hung(p) /\ qids_nolock_pull' = qids_nolock_pull
           ELSE /\ qids' = [Grown(p) EXCEPT ![q] = Rest(Hung(p), Grown(p)[q], n)]
                /\ next' = Linked(Hung(p), qids_nolock_pull[p][q], part)
                /\ qids_nolock_pull' =
                     [qids_nolock_pull EXCEPT ![p][q] = Joined(qids_nolock_pull[p][q], part)]
  BY <1>1, <1>2, <1>3, Zenon DEF Flush, Emptier
<1>5. PICK J : J = Joint(Seqs, p)
  BY Zenon
<1>6. /\ Sound(Hung(p), Grown(p), Emptier(p), qids_nolock_pull, held, J)
      /\ \A r \in Qids : Grown(p)[r].size = Len(Seqs[QP(r)] \o Seqs[UP(p, r)])
  <2>1. Sound(next, qids, qids_nolock_push, qids_nolock_pull, held, Seqs)
    BY Zenon DEF IInv, SoundNow
  <2> QED BY <2>1, <1>5, HangSound, Zenon
<1>7. \A h \in Places : Seqs[h] \in Seq(Items) /\ J[h] \in Seq(Items)
  <2>1. Sound(next, qids, qids_nolock_push, qids_nolock_pull, held, Seqs)
    BY Zenon DEF IInv, SoundNow
  <2>2. \A h \in Places : Seqs[h] \in Seq(Items)
    BY <2>1, SoundLemma, Zenon
  <2>3. \A h \in Places : J[h] \in Seq(Items)
    BY <1>6, SoundLemma, Zenon
  <2> QED BY <2>2, <2>3, Zenon
<1>8. CASE n = 0
  <2>1. Sound(next', qids', qids_nolock_push', qids_nolock_pull', held', J)
    BY <1>4, <1>6, <1>8, Zenon
  <2>2. SoundNow' /\ \A h \in Places : Seqs'[h] = J[h]
    BY <2>1, Renew, Zenon
  <2>3. PICK r \in Qids : r = 0
    BY QueueAssumption DEF Qids
  <2>4. \A h \in Places : After(Seqs, p, r, 0)[h] = J[h]
    BY <1>5, <1>7, AfterNothing, Zenon
  <2>5. 0 \in 0..Len(J[QP(r)])
    <3>1. Len(J[QP(r)]) \in Nat
      BY <1>7, PlaceLemma, LenLemma, Zenon
    <3> QED BY <3>1
  <2>6. Len(Seqs[RP(p, r)]) + 0 <= qids_nolock_max
    <3>1. Len(Seqs[RP(p, r)]) \in Nat
      BY PullSize, Zenon
    <3>2. Len(Seqs[RP(p, r)]) <= qids_nolock_max
      BY Zenon DEF IInv, Room
    <3> QED BY <3>1, <3>2, QueueAssumption
  <2>7. \A h \in Places : Seqs'[h] = After(Seqs, p, r, 0)[h]
    BY <2>2, <2>4, Zenon
  <2> QED BY <2>2, <2>5, <2>6, <2>7, <1>5, Zenon
<1>9. CASE n # 0
  <2>1. q \in Qids
    BY <1>1, <1>2, <1>9, Zenon DEF IInv, Control
  <2>2. J[QP(q)] = Seqs[QP(q)] \o Seqs[UP(p, q)] /\ QP(q) \in Places /\ RP(p, q) \in Places
    <3>1. J[QP(q)] = Seqs[QP(q)] \o Seqs[UP(p, q)]
      BY <2>1, <1>5, JointLemma, Zenon
    <3> QED BY <3>1, <2>1, PlaceLemma, Zenon
  <2>3. PICK size, l : size = Len(J[QP(q)]) /\ l = Len(Seqs[RP(p, q)])
    BY Zenon
  <2>4. Grown(p)[q].size = size /\ size \in Nat /\ l \in Nat /\ qids_nolock_pull[p][q].size = l
    <3>1. Grown(p)[q].size = size
      BY <2>1, <2>2, <2>3, <1>6, Zenon
    <3>2. size \in Nat
      BY <2>2, <2>3, <1>7, LenLemma, Zenon
    <3> QED BY <3>1, <3>2, <2>1, <2>3, PullSize, Zenon
  <2>5. n = ToPull(p, size)
    BY <2>4, <1>2, <1>9, Zenon
  <2>6. n \in 1..size /\ l + n <= qids_nolock_max
    BY <2>4, <2>5, <1>1, <1>9, ToPullLemma, Zenon
  <2>7. Sound(Linked(Hung(p), qids_nolock_pull[p][q], Front(Hung(p), Grown(p)[q], n)),
              [Grown(p) EXCEPT ![q] = Rest(Hung(p), Grown(p)[q], n)], Emptier(p),
              [qids_nolock_pull EXCEPT ![p][q] =
                 Joined(qids_nolock_pull[p][q], Front(Hung(p), Grown(p)[q], n))], held,
              Put(Put(J, QP(q), SubSeq(J[QP(q)], n + 1, Len(J[QP(q)]))),
                  RP(p, q), J[RP(p, q)] \o SubSeq(J[QP(q)], 1, n)))
    BY <2>1, <2>3, <2>6, <1>6, PullSound, Zenon
  <2>8. Sound(next', qids', qids_nolock_push', qids_nolock_pull', held', After(Seqs, p, q, n))
    BY <2>7, <1>3, <1>4, <1>5, <1>9, Zenon DEF After
  <2>9. SoundNow' /\ \A h \in Places : Seqs'[h] = After(Seqs, p, q, n)[h]
    BY <2>8, Renew, Zenon
  <2>10. n \in 0..size
    BY <2>4, <2>6
  <2> QED BY <2>1, <2>3, <2>6, <2>9, <2>10, <1>5, ZenonT(30)
<1> QED BY <1>8, <1>9, Zenon

-----------------------------------------------------------------------------
(***************************************************************************)
(* Invariance.                                                             *)
(***************************************************************************)
\* The lists for pulling do not grow in a step that leaves them alone.
LEMMA RoomStays ==
  ASSUME IInv, \A p \in Procs, q \in Qids : Seqs'[RP(p, q)] = Seqs[RP(p, q)]
  PROVE  Room'
BY Zenon DEF IInv, Room

\* A push keeps the lists sound and adds nothing to a list to pull from.
LEMMA PushRoom ==
  ASSUME IInv, NEW p \in Procs, NEW q \in Qids, NEW i, Push(p, q, i)
  PROVE  SoundNow' /\ Room'
<1>1. /\ SoundNow'
      /\ \A h \in Places : Seqs'[h] = Put(Seqs, UP(p, q), Seqs[UP(p, q)] \o <<i>>)[h]
  BY PushStep, Zenon
<1>2. ASSUME NEW x \in Procs, NEW r \in Qids PROVE Seqs'[RP(x, r)] = Seqs[RP(x, r)]
  <2>1. RP(x, r) \in Places /\ RP(x, r) # UP(p, q)
    <3>1. RP(x, r) # UP(p, q)
      BY PlacesDiffer, ZenonT(30)
    <3> QED BY <3>1, PlaceLemma, Zenon
  <2>2. Put(Seqs, UP(p, q), Seqs[UP(p, q)] \o <<i>>)[RP(x, r)] = Seqs[RP(x, r)]
    BY <2>1, PutLemma, SMTT(20)
  <2> QED BY <2>1, <2>2, <1>1, Zenon
<1> QED BY <1>1, <1>2, RoomStays, Zenon

\* So does a step that leaves the lists alone.
LEMMA StayRoom ==
  ASSUME IInv, UNCHANGED <<lists, held>>
  PROVE  SoundNow' /\ Room'
<1>1. SoundNow' /\ \A h \in Places : Seqs'[h] = Seqs[h]
  BY StayStep, Zenon
<1>2. ASSUME NEW x \in Procs, NEW r \in Qids PROVE Seqs'[RP(x, r)] = Seqs[RP(x, r)]
  BY <1>1, PlaceLemma, Zenon
<1> QED BY <1>1, <1>2, RoomStays, Zenon

\* So does the end of a pull, which can only make the list to pull from shorter.
LEMMA TakeRoom ==
  ASSUME IInv, NEW p \in Procs, Take(p)
  PROVE  SoundNow' /\ Room'
<1>1. PICK q : q = pull_qid[p]
  BY Zenon
<1>2. /\ q \in Qids /\ SoundNow'
      /\ \/ held' = held /\ \A h \in Places : Seqs'[h] = Seqs[h]
         \/ /\ Seqs[RP(p, q)] # <<>>
            /\ held' = [held EXCEPT ![p] = held[p] \cup {Head(Seqs[RP(p, q)])}]
            /\ \A h \in Places : Seqs'[h] = Put(Seqs, RP(p, q), Tail(Seqs[RP(p, q)]))[h]
  BY <1>1, TakeStep, SMTT(20)
<1>3. CASE \A h \in Places : Seqs'[h] = Seqs[h]
  <2>1. ASSUME NEW x \in Procs, NEW r \in Qids PROVE Seqs'[RP(x, r)] = Seqs[RP(x, r)]
    BY <1>3, PlaceLemma, Zenon
  <2> QED BY <2>1, <1>2, RoomStays, Zenon
<1>4. CASE /\ Seqs[RP(p, q)] # <<>>
           /\ \A h \in Places : Seqs'[h] = Put(Seqs, RP(p, q), Tail(Seqs[RP(p, q)]))[h]
  <2>1. ASSUME NEW x \in Procs, NEW r \in Qids PROVE Len(Seqs'[RP(x, r)]) <= qids_nolock_max
    <3>1. RP(x, r) \in Places /\ Len(Seqs[RP(x, r)]) <= qids_nolock_max
      BY PlaceLemma, Zenon DEF IInv, Room
    <3>2. Seqs'[RP(x, r)] = IF RP(x, r) = RP(p, q) THEN Tail(Seqs[RP(p, q)]) ELSE Seqs[RP(x, r)]
      BY <3>1, <1>4, PutLemma
    <3>3. CASE RP(x, r) = RP(p, q)
      <4>1. PICK s : s = Seqs[RP(p, q)]
        BY Zenon
      <4>2. s \in Seq(Items) /\ s # <<>> /\ Len(s) \in Nat
        BY <4>1, <1>2, <1>4, PullSize, Zenon
      <4>3. Len(Tail(s)) = Len(s) - 1
        BY <4>2, TailLemma, Zenon
      <4>4. Len(s) <= qids_nolock_max /\ Seqs'[RP(x, r)] = Tail(s)
        BY <4>1, <3>1, <3>2, <3>3, Zenon
      <4> QED BY <4>2, <4>3, <4>4, QueueAssumption
    <3>4. CASE RP(x, r) # RP(p, q)
      BY <3>1, <3>2, <3>4, Zenon
    <3> QED BY <3>3, <3>4, Zenon
  <2> QED BY <2>1, <1>2, Zenon DEF Room
<1> QED BY <1>2, <1>3, <1>4, ZenonT(30)

\* So does a flush, which fills the list to pull from up to qids_nolock_max at most.
LEMMA FlushRoom ==
  ASSUME IInv, NEW p \in Procs, Flush(p)
  PROVE  SoundNow' /\ Room'
<1>1. SoundNow'
  BY FlushStep, Zenon
<1>2. PICK q \in Qids : \E n \in 0..Len(Joint(Seqs, p)[QP(q)]) :
              /\ Len(Seqs[RP(p, q)]) + n <= qids_nolock_max
              /\ \A h \in Places : Seqs'[h] = After(Seqs, p, q, n)[h]
  BY FlushStep, Zenon
<1>3. PICK w : w = Joint(Seqs, p)[QP(q)]
  BY Zenon
<1>4. PICK n \in 0..Len(w) :
              /\ Len(Seqs[RP(p, q)]) + n <= qids_nolock_max
              /\ \A h \in Places : Seqs'[h] = After(Seqs, p, q, n)[h]
  BY <1>2, <1>3, Zenon
<1>5. w \in Seq(Items) /\ Len(w) \in Nat
  <2>1. Sound(next, qids, qids_nolock_push, qids_nolock_pull, held, Seqs)
    BY Zenon DEF IInv, SoundNow
  <2>2. Sound(Hung(p), Grown(p), Emptier(p), qids_nolock_pull, held, Joint(Seqs, p))
    BY <2>1, HangSound, ZenonT(30)
  <2>3. w \in Seq(Items)
    BY <2>2, <1>3, SoundLemma, PlaceLemma, Zenon
  <2> QED BY <2>3, LenLemma, Zenon
<1>6. ASSUME NEW x \in Procs, NEW r \in Qids PROVE Len(Seqs'[RP(x, r)]) <= qids_nolock_max
  <2>1. RP(x, r) \in Places /\ Len(Seqs[RP(x, r)]) <= qids_nolock_max /\ RP(x, r) # QP(q)
    BY PlaceLemma, PlacesDiffer, Zenon DEF IInv, Room
  <2>2. Seqs'[RP(x, r)] = IF RP(x, r) = RP(p, q) THEN Seqs[RP(p, q)] \o SubSeq(w, 1, n)
                          ELSE Joint(Seqs, p)[RP(x, r)]
    BY <2>1, <1>3, <1>4, AfterLemma
  <2>3. CASE RP(x, r) = RP(p, q)
    <3>1. PICK s, t : s = Seqs[RP(p, q)] /\ t = SubSeq(w, 1, n)
      BY Zenon
    <3>2. s \in Seq(Items) /\ Len(s) \in Nat
      BY <3>1, PullSize, Zenon
    <3>3. t \in Seq(Items) /\ Len(t) = n
      <4>1. \A k \in 1..n : k \in 1..Len(w)
        BY <1>5
      <4>2. \A k \in 1..n : w[k] \in Items
        BY <4>1, <1>5, EntryLemma, Zenon
      <4>3. n \in Int /\ 1 \in Int /\ n >= 0
        BY <1>5
      <4> QED BY <4>2, <4>3, <3>1, SubSeqLemma
    <3>4. Len(s \o t) = Len(s) + n
      BY <3>2, <3>3, JoinSeqs, Zenon
    <3> QED BY <3>1, <3>4, <2>2, <2>3, <1>4, Zenon
  <2>4. CASE RP(x, r) # RP(p, q)
    <3>1. Joint(Seqs, p)[RP(x, r)] = Seqs[RP(x, r)]
      BY JointLemma, ZenonT(30)
    <3> QED BY <3>1, <2>1, <2>2, <2>4, Zenon
  <2> QED BY <2>3, <2>4, Zenon
<1> QED BY <1>1, <1>6, Zenon DEF Room

\* Every step leaves the processes where the calls of shf.c can be.
LEMMA ControlStep ==
  ASSUME IInv, NEW p \in Procs, NEW q \in Qids, NEW from \in Qids, NEW i,
         Flush(p) \/ Take(p) \/ PullTail(p, from) \/ PushHeadPullTail(p, q, from)
           \/ PushHead(p, q, i)
  PROVE  Control'
<1>1. /\ pc \in [Procs -> {"idle", "flush", "take"}]
      /\ pull_qid \in [Procs -> Qids \cup {NONE}]
      /\ \A x \in Procs : pc[x] = "take" => pull_qid[x] # NONE
  BY Zenon DEF IInv, Control
<1>2. NONE \notin Qids
  BY QueueAssumption DEF Qids
<1>3. CASE Flush(p)
  BY <1>1, <1>3, Zenon DEF Flush, Control
<1>4. CASE Take(p)
  BY <1>1, <1>4, Zenon DEF Take, Control
<1>5. CASE PullTail(p, from)
  BY <1>1, <1>2, <1>5, Zenon DEF PullTail, Control
<1>6. CASE PushHeadPullTail(p, q, from)
  <2>1. FlushOrTake(p, q, from) \in {"flush", "take"}
    BY Zenon DEF FlushOrTake
  <2>2. pull_qid' = [pull_qid EXCEPT ![p] = from]
        /\ pc' = [pc EXCEPT ![p] = FlushOrTake(p, q, from)]
    BY <1>6, Zenon DEF PushHeadPullTail
  <2> QED BY <2>1, <2>2, <1>1, <1>2, Zenon DEF Control
<1>7. CASE PushHead(p, q, i)
  BY <1>1, <1>7, Zenon DEF PushHead, Control
<1> QED BY <1>3, <1>4, <1>5, <1>6, <1>7, Zenon

\* The links lead through every list to its end, and each item is in one place, in
\* every state: the strengthening of ListsSound and EachItemOnce.
THEOREM Invariance == Spec => []IInv
<1>1. Init => IInv
  BY InitLemma, Zenon
<1>2. IInv /\ [Next]_vars => IInv'
  <2> SUFFICES ASSUME IInv, [Next]_vars PROVE IInv'
    BY Zenon
  <2>1. CASE UNCHANGED vars
    <3>1. SoundNow' /\ Room'
      BY <2>1, StayRoom, Zenon DEF vars
    <3>2. Control'
      BY <2>1, Zenon DEF vars, IInv, Control
    <3> QED BY <3>1, <3>2, Zenon DEF IInv
  <2>2. CASE Next
    <3>1. PICK p \in Procs : Work(p) \/ Pulls(p) \/ \E q \in Qids, i \in Items : PushHead(p, q, i)
      BY <2>2, Zenon DEF Next
    <3>2. PICK z \in Qids : TRUE
      BY QueueAssumption DEF Qids
    <3>3. CASE Flush(p)
      BY <3>2, <3>3, FlushRoom, ControlStep, Zenon DEF IInv
    <3>4. CASE Take(p)
      BY <3>2, <3>4, TakeRoom, ControlStep, Zenon DEF IInv
    <3>5. CASE Pulls(p)
      <4>1. PICK q \in Qids : PullTail(p, q) \/ \E from \in Qids : PushHeadPullTail(p, q, from)
        BY <3>5, Zenon DEF Pulls
      <4>2. CASE PullTail(p, q)
        <5>1. UNCHANGED <<lists, held>>
          BY <4>2, Zenon DEF PullTail
        <5> QED BY <5>1, <4>2, StayRoom, ControlStep, Zenon DEF IInv
      <4>3. ASSUME NEW from \in Qids, PushHeadPullTail(p, q, from) PROVE IInv'
        <5>1. Control'
          BY <4>3, ControlStep, Zenon
        <5>2. (\E i \in Items : Push(p, q, i)) \/ UNCHANGED <<lists, held>>
          BY <4>3, Zenon DEF PushHeadPullTail
        <5>3. SoundNow' /\ Room'
          BY <5>2, PushRoom, StayRoom, Zenon
        <5> QED BY <5>1, <5>3, Zenon DEF IInv
      <4> QED BY <4>1, <4>2, <4>3, Zenon
    <3>6. ASSUME NEW q \in Qids, NEW i \in Items, PushHead(p, q, i) PROVE IInv'
      <4>1. Push(p, q, i)
        BY <3>6, Zenon DEF PushHead
      <4> QED BY <4>1, <3>6, PushRoom, ControlStep, Zenon DEF IInv
    <3> QED BY <3>1, <3>3, <3>4, <3>5, <3>6, Zenon DEF Work
  <2> QED BY <2>1, <2>2, Zenon
<1> QED BY <1>1, <1>2, PTL DEF Spec

\* Every list is what the internal assertions of shf_q_flush say: from its tail, its
\* size and its links lead to its head, where it ends; and the sizes stay in range.
THEOREM SoundLists == Spec => []ListsSound
<1>1. IInv => ListsSound
  <2> SUFFICES ASSUME IInv PROVE ListsSound
    BY Zenon
  <2>1. Sound(next, qids, qids_nolock_push, qids_nolock_pull, held, Seqs)
    BY Zenon DEF IInv, SoundNow
  <2>2. TypeOK
    BY <2>1, Zenon DEF IInv, Control, Sound, OwnLists, Links, TypeOK
  <2>3. ASSUME NEW l \in AllLists
        PROVE  \E h \in Places : l = ListIn(qids, qids_nolock_push, qids_nolock_pull, h)
    <3>1. CASE \E q \in Qids : l = qids[q]
      BY <3>1, ListOfQueue, PlaceLemma, Zenon
    <3>2. CASE \E p \in Procs, q \in Qids : l = qids_nolock_push[p][q]
      BY <3>2, ListOfPush, PlaceLemma
    <3>3. CASE \E p \in Procs, q \in Qids : l = qids_nolock_pull[p][q]
      BY <3>3, ListOfPull, PlaceLemma
    <3>4. \/ \E q \in Qids : l = qids[q]
          \/ \E p \in Procs, q \in Qids : l = qids_nolock_push[p][q]
          \/ \E p \in Procs, q \in Qids : l = qids_nolock_pull[p][q]
      BY DEF AllLists
    <3> QED BY <3>1, <3>2, <3>3, <3>4, Zenon
  <2>4. ASSUME NEW l \in AllLists
        PROVE  IF l.size = 0 THEN l = Empty
               ELSE Along(next, l.tail, l.size - 1) = l.head /\ next[l.head] = NONE
    <3>1. PICK s : Rep(next, l, s)
      BY <2>1, <2>3, Zenon DEF Sound
    <3>2. PICK m : m = Len(s) /\ m \in Nat /\ l.size = m
      BY <3>1, EndsLemma, Zenon DEF Rep
    <3>3. CASE s = <<>>
      BY <3>1, <3>2, <3>3, EndsLemma, Zenon DEF Rep
    <3>4. CASE s # <<>>
      <4>1. m > 0 /\ l.tail = s[1] /\ l.head = s[m]
        BY <3>1, <3>2, <3>4, EndsLemma DEF Rep
      <4>2. next[s[m]] = NONE /\ \A k \in 1..(m - 1) : next[s[k]] = s[k + 1]
        BY <3>1, <3>2, <3>4, Zenon DEF Rep, Chain
      <4>3. m - 1 \in 0..(m - 1) /\ (m - 1) + 1 = m /\ m # 0
        BY <4>1, <3>2
      <4>4. Along(next, s[1], m - 1) = s[(m - 1) + 1]
        BY <4>2, <4>3, <3>2, AlongLemma, ZenonT(30)
      <4> QED BY <4>1, <4>2, <4>3, <4>4, <3>2, Zenon
    <3> QED BY <3>3, <3>4, Zenon
  <2> QED BY <2>2, <2>4, Zenon DEF ListsSound
<1> QED BY <1>1, Invariance, PTL

\* No item is lost and none is in two places: between a pull and a push, an item
\* belongs to one process and to no queue.
THEOREM ItemsOnce == Spec => []EachItemOnce
<1>1. IInv => EachItemOnce
  <2> SUFFICES ASSUME IInv PROVE EachItemOnce
    BY Zenon
  <2>1. Sound(next, qids, qids_nolock_push, qids_nolock_pull, held, Seqs)
    BY Zenon DEF IInv, SoundNow
  <2>2. ASSUME NEW l, NEW s, Rep(next, l, s), NEW i
        PROVE  i \in {Walk(next, l)[k] : k \in 1..l.size} <=> Of(s, i)
    <3>1. Walk(next, l) = s /\ l.size = Len(s)
      BY <2>2, WalkLemma, EndsLemma, Zenon DEF Rep
    <3> QED BY <3>1, Zenon DEF Of
  <2>3. ASSUME NEW h \in Holders, NEW i PROVE i \in ItemsOf(h) <=> Has(Seqs, held, h, i)
    <3>1. CASE h \in Places
      <4>1. Rep(next, ListIn(qids, qids_nolock_push, qids_nolock_pull, h), Seqs[h])
        BY <3>1, <2>1, Zenon DEF Sound
      <4>2. PICK l : l = ListIn(qids, qids_nolock_push, qids_nolock_pull, h)
        BY Zenon
      <4>3. ItemsOf(h) = {Walk(next, l)[k] : k \in 1..l.size}
        <5>1. h[1] \in {"queue", "push", "pull"}
          BY <3>1, PlaceLemma DEF QP, UP, RP
        <5> QED BY <5>1, <4>2, Zenon DEF ItemsOf, ListIn
      <4>4. Has(Seqs, held, h, i) <=> Of(Seqs[h], i)
        BY <3>1, HasLemma, Zenon
      <4> QED BY <4>1, <4>2, <4>3, <4>4, <2>2, SMTT(20)
    <3>2. CASE h \notin Places
      <4>1. PICK p \in Procs : h = HP(p)
        BY <3>2, PlaceLemma, Zenon
      <4>2. ItemsOf(h) = held[p]
        BY <4>1, Zenon DEF ItemsOf, HP
      <4> QED BY <4>1, <4>2, HeldLemma, Zenon
    <3> QED BY <3>1, <3>2, Zenon
  <2>4. Once(Seqs, held)
    BY <2>1, Zenon DEF Sound
  <2>5. ASSUME NEW h \in Holders, NEW i \in ItemsOf(h) PROVE i \in Items
    <3>1. Has(Seqs, held, h, i)
      BY <2>3, <2>5, Zenon
    <3>2. CASE h \in Places
      <4>1. Of(Seqs[h], i)
        BY <3>1, <3>2, HasLemma, Zenon
      <4>2. Seqs[h] \in Seq(Items)
        BY <3>2, <2>1, Zenon DEF Sound, Rep, Chain
      <4> QED BY <4>1, <4>2 DEF Of
    <3>3. CASE h \notin Places
      <4>1. PICK p \in Procs : h = HP(p)
        BY <3>3, PlaceLemma, Zenon
      <4>2. i \in held[p] /\ held \in [Procs -> SUBSET Items]
        BY <4>1, <3>1, <2>1, HeldLemma, Zenon DEF Sound
      <4> QED BY <4>2, Zenon
    <3> QED BY <3>2, <3>3, Zenon
  <2>6. \A h \in Holders : ItemsOf(h) \subseteq Items
    BY <2>5, Zenon
  <2> QED BY <2>3, <2>4, <2>6, Zenon DEF Once, EachItemOnce
<1> QED BY <1>1, Invariance, PTL

-----------------------------------------------------------------------------
(***************************************************************************)
(* The lists implement queues.                                             *)
(***************************************************************************)
\* What the promise sees of the lists.
QS(S) == [q \in Qids |-> S[QP(q)]]
US(S) == [p \in Procs |-> [q \in Qids |-> S[UP(p, q)]]]
RS(S) == [p \in Procs |-> [q \in Qids |-> S[RP(p, q)]]]

\* One value of a table is replaced.
LEMMA TableLemma ==
  ASSUME NEW F, NEW G, NEW p \in Procs, NEW q \in Qids, NEW t,
         F = [x \in Procs |-> [y \in Qids |-> F[x][y]]],
         G = [x \in Procs |-> [y \in Qids |-> G[x][y]]],
         \A x \in Procs, y \in Qids : G[x][y] = IF x = p /\ y = q THEN t ELSE F[x][y]
  PROVE  G = [F EXCEPT ![p][q] = t]
<1>1. PICK H : H = [F EXCEPT ![p][q] = t]
  BY Zenon
<1>2. PICK a, b : a = F[p] /\ b = [a EXCEPT ![q] = t]
  BY Zenon
<1>3. H = [x \in Procs |-> IF x = p THEN b ELSE F[x]]
  BY <1>1, <1>2, Zenon
<1>4. a = [y \in Qids |-> F[p][y]]
  BY <1>2, Zenon
<1>5. b = [y \in Qids |-> IF y = q THEN t ELSE F[p][y]]
  BY <1>2, <1>4, Zenon
<1>6. ASSUME NEW x \in Procs PROVE G[x] = IF x = p THEN b ELSE F[x]
  <2>1. G[x] = [y \in Qids |-> G[x][y]] /\ F[x] = [y \in Qids |-> F[x][y]]
    BY Zenon
  <2>2. CASE x = p
    <3>1. [y \in Qids |-> G[x][y]] = [y \in Qids |-> IF y = q THEN t ELSE F[p][y]]
      BY <2>2, Zenon
    <3> QED BY <3>1, <2>1, <2>2, <1>5, Zenon
  <2>3. CASE x # p
    <3>1. [y \in Qids |-> G[x][y]] = [y \in Qids |-> F[x][y]]
      BY <2>3, Zenon
    <3> QED BY <3>1, <2>1, <2>3, Zenon
  <2> QED BY <2>2, <2>3, Zenon
<1>7. G = [x \in Procs |-> G[x]]
  BY Zenon
<1> QED BY <1>1, <1>3, <1>6, <1>7, Zenon

\* What the promise sees of a process's own lists, per process and queue.
LEMMA SeenFunctions ==
  ASSUME NEW S
  PROVE  /\ US(S) = [x \in Procs |-> [y \in Qids |-> US(S)[x][y]]]
         /\ RS(S) = [x \in Procs |-> [y \in Qids |-> RS(S)[x][y]]]
         /\ \A x \in Procs, y \in Qids : US(S)[x][y] = S[UP(x, y)] /\ RS(S)[x][y] = S[RP(x, y)]
BY Zenon DEF US, RS

\* S is what walking the links nx gives for every list.
Walks(S, nx, qd, pu, pl) == S = [h \in Places |-> Walk(nx, ListIn(qd, pu, pl, h))]

\* Walking all lists gives what the promise sees.
LEMMA SeenLemma ==
  ASSUME NEW nx, NEW qd, NEW pu, NEW pl, NEW S, Walks(S, nx, qd, pu, pl)
  PROVE  /\ [q \in Qids |-> Walk(nx, qd[q])] = QS(S)
         /\ [p \in Procs |-> [q \in Qids |-> Walk(nx, pu[p][q])]] = US(S)
         /\ [p \in Procs |-> [q \in Qids |-> Walk(nx, pl[p][q])]] = RS(S)
<1>0. S = [h \in Places |-> Walk(nx, ListIn(qd, pu, pl, h))]
  BY Zenon DEF Walks
<1>1. \A q \in Qids : S[QP(q)] = Walk(nx, qd[q])
  BY <1>0, PlaceLemma, ListOfQueue, SMTT(20)
<1>2. ASSUME NEW p \in Procs, NEW q \in Qids
      PROVE  S[UP(p, q)] = Walk(nx, pu[p][q]) /\ S[RP(p, q)] = Walk(nx, pl[p][q])
  <2>1. UP(p, q) \in Places /\ RP(p, q) \in Places
    BY PlaceLemma, ZenonT(30)
  <2>2. ListIn(qd, pu, pl, UP(p, q)) = pu[p][q] /\ ListIn(qd, pu, pl, RP(p, q)) = pl[p][q]
    BY ListOfPush, ListOfPull, SMTT(20)
  <2> QED BY <1>0, <2>1, <2>2, Zenon
<1>3. QS(S) = [q \in Qids |-> Walk(nx, qd[q])]
  BY <1>1, Zenon DEF QS
<1>4. US(S) = [p \in Procs |-> [q \in Qids |-> Walk(nx, pu[p][q])]]
  BY <1>2, Zenon DEF US
<1>5. RS(S) = [p \in Procs |-> [q \in Qids |-> Walk(nx, pl[p][q])]]
  BY <1>2, Zenon DEF RS
<1> QED BY <1>3, <1>4, <1>5, Zenon

\* The same items at all places look the same.
LEMMA SameSeen ==
  ASSUME NEW S, NEW T, \A h \in Places : T[h] = S[h]
  PROVE  QS(T) = QS(S) /\ US(T) = US(S) /\ RS(T) = RS(S)
<1>1. ASSUME NEW q \in Qids PROVE T[QP(q)] = S[QP(q)]
  BY PlaceLemma, Zenon
<1>2. ASSUME NEW p \in Procs, NEW q \in Qids
      PROVE  T[UP(p, q)] = S[UP(p, q)] /\ T[RP(p, q)] = S[RP(p, q)]
  BY PlaceLemma, Zenon
<1>3. QS(T) = QS(S)
  BY <1>1, Zenon DEF QS
<1>4. US(T) = US(S)
  BY <1>2, Zenon DEF US
<1>5. RS(T) = RS(S)
  BY <1>2, Zenon DEF RS
<1> QED BY <1>3, <1>4, <1>5, Zenon

\* S and T have the same items at all places.
Same(T, S) == \A h \in Places : T[h] = S[h]

\* Item i is appended to what p has pushed for q.
Pushed(U1, U, p, q, i) == U1 = [U EXCEPT ![p][q] = Append(@, i)]

\* A push, as the promise sees it.
LEMMA PushSeen ==
  ASSUME NEW S, NEW T, NEW p \in Procs, NEW q \in Qids, NEW i \in Items,
         S[UP(p, q)] \in Seq(Items), Same(T, Put(S, UP(p, q), S[UP(p, q)] \o <<i>>))
  PROVE  /\ QS(T) = QS(S) /\ RS(T) = RS(S)
         /\ Pushed(US(T), US(S), p, q, i)
<1>1. PICK t : t = S[UP(p, q)] \o <<i>>
  BY Zenon
<1>2. \A h \in Places : T[h] = IF h = UP(p, q) THEN t ELSE S[h]
  BY <1>1, PutLemma DEF Same
<1>3. t = Append(S[UP(p, q)], i)
  BY <1>1, AppendLemma, Zenon
<1>4. ASSUME NEW r \in Qids PROVE T[QP(r)] = S[QP(r)]
  <2>1. QP(r) \in Places /\ QP(r) # UP(p, q)
    <3>1. QP(r) # UP(p, q)
      BY PlacesDiffer, ZenonT(30)
    <3> QED BY <3>1, PlaceLemma, Zenon
  <2> QED BY <2>1, <1>2, Zenon
<1>5. ASSUME NEW x \in Procs, NEW r \in Qids
      PROVE  /\ T[RP(x, r)] = S[RP(x, r)]
             /\ T[UP(x, r)] = IF x = p /\ r = q THEN t ELSE S[UP(x, r)]
  <2>1. RP(x, r) # UP(p, q) /\ (UP(x, r) = UP(p, q) <=> x = p /\ r = q)
    BY PlacesDiffer, Zenon
  <2>2. RP(x, r) \in Places /\ UP(x, r) \in Places
    BY PlaceLemma, ZenonT(30)
  <2> QED BY <2>1, <2>2, <1>2, Zenon
<1>6. QS(T) = QS(S)
  BY <1>4, Zenon DEF QS
<1>7. RS(T) = RS(S)
  BY <1>5, Zenon DEF RS
<1>8. US(T) = [US(S) EXCEPT ![p][q] = t]
  <2>1. \A x \in Procs, y \in Qids :
          US(T)[x][y] = IF x = p /\ y = q THEN t ELSE US(S)[x][y]
    BY <1>5, SeenFunctions
  <2> QED BY <2>1, SeenFunctions, TableLemma
<1>9. US(S)[p][q] = S[UP(p, q)]
  BY Zenon DEF US
<1>10. US(T) = [US(S) EXCEPT ![p][q] = Append(US(S)[p][q], i)]
  BY <1>3, <1>8, <1>9, Zenon
<1> QED BY <1>6, <1>7, <1>10, Zenon DEF Pushed

\* The end of a pull, as the promise sees it.
LEMMA PullSeen ==
  ASSUME NEW S, NEW T, NEW p \in Procs, NEW q \in Qids,
         \A h \in Places : T[h] = Put(S, RP(p, q), Tail(S[RP(p, q)]))[h]
  PROVE  /\ QS(T) = QS(S) /\ US(T) = US(S)
         /\ RS(T) = [RS(S) EXCEPT ![p][q] = Tail(RS(S)[p][q])]
         /\ RS(S)[p][q] = S[RP(p, q)]
<1>1. PICK t : t = Tail(S[RP(p, q)])
  BY Zenon
<1>2. \A h \in Places : T[h] = IF h = RP(p, q) THEN t ELSE S[h]
  BY <1>1, PutLemma
<1>3. ASSUME NEW r \in Qids PROVE T[QP(r)] = S[QP(r)]
  <2>1. QP(r) \in Places /\ QP(r) # RP(p, q)
    <3>1. QP(r) # RP(p, q)
      BY PlacesDiffer, Zenon
    <3> QED BY <3>1, PlaceLemma, Zenon
  <2> QED BY <2>1, <1>2, Zenon
<1>4. ASSUME NEW x \in Procs, NEW r \in Qids
      PROVE  /\ T[UP(x, r)] = S[UP(x, r)]
             /\ T[RP(x, r)] = IF x = p /\ r = q THEN t ELSE S[RP(x, r)]
  <2>1. UP(x, r) # RP(p, q) /\ (RP(x, r) = RP(p, q) <=> x = p /\ r = q)
    BY PlacesDiffer, SMTT(20)
  <2>2. RP(x, r) \in Places /\ UP(x, r) \in Places
    BY PlaceLemma, Zenon
  <2> QED BY <2>1, <2>2, <1>2, Zenon
<1>5. QS(T) = QS(S)
  BY <1>3, Zenon DEF QS
<1>6. US(T) = US(S)
  BY <1>4, Zenon DEF US
<1>7. RS(T) = [RS(S) EXCEPT ![p][q] = t]
  <2>1. \A x \in Procs, y \in Qids :
          RS(T)[x][y] = IF x = p /\ y = q THEN t ELSE RS(S)[x][y]
    BY <1>4, SeenFunctions
  <2> QED BY <2>1, SeenFunctions, TableLemma
<1>8. RS(S)[p][q] = S[RP(p, q)]
  BY Zenon DEF RS
<1> QED BY <1>1, <1>5, <1>6, <1>7, <1>8, Zenon

\* The queues with all that p has pushed behind them.
Together(Q, U, p) == [r \in Qids |-> Q[r] \o U[p][r]]

\* Everything that p pushed is in the queues, and p has the first n items of queue q.
Exchanged(Q1, U1, R1, U, R, all, p, q, n) ==
  /\ U1 = [U EXCEPT ![p] = [r \in Qids |-> <<>>]]
  /\ Q1 = [all EXCEPT ![q] = SubSeq(@, n + 1, Len(@))]
  /\ R1 = [R EXCEPT ![p][q] = @ \o SubSeq(all[q], 1, n)]

\* A flush, as the promise sees it.
LEMMA ExchangeSeen ==
  ASSUME NEW S, NEW T, NEW p \in Procs, NEW q \in Qids, NEW n, Same(T, After(S, p, q, n))
  PROVE  /\ QS(Joint(S, p)) = Together(QS(S), US(S), p)
         /\ Exchanged(QS(T), US(T), RS(T), US(S), RS(S), QS(Joint(S, p)), p, q, n)
         /\ RS(S)[p][q] = S[RP(p, q)] /\ QS(Joint(S, p))[q] = Joint(S, p)[QP(q)]
<1>1. PICK J, w : J = Joint(S, p) /\ w = J[QP(q)]
  BY Zenon
<1>2. PICK r, t : r = SubSeq(w, n + 1, Len(w)) /\ t = S[RP(p, q)] \o SubSeq(w, 1, n)
  BY ZenonT(30)
<1>3. \A h \in Places : T[h] = IF h = RP(p, q) THEN t ELSE IF h = QP(q) THEN r ELSE J[h]
  BY <1>1, <1>2, AfterLemma, SMTT(20) DEF Same
<1>4. \A x \in Procs, y \in Qids :
        /\ J[QP(y)] = S[QP(y)] \o S[UP(p, y)]
        /\ J[UP(p, y)] = <<>>
        /\ x # p => J[UP(x, y)] = S[UP(x, y)]
        /\ J[RP(x, y)] = S[RP(x, y)]
  <2>1. \A x \in Procs, y \in Qids :
          /\ Joint(S, p)[QP(y)] = S[QP(y)] \o S[UP(p, y)]
          /\ Joint(S, p)[UP(p, y)] = <<>>
          /\ x # p => Joint(S, p)[UP(x, y)] = S[UP(x, y)]
          /\ Joint(S, p)[RP(x, y)] = S[RP(x, y)]
    BY JointLemma, ZenonT(30)
  <2> QED BY <2>1, <1>1, Zenon
<1>5. ASSUME NEW x \in Procs, NEW y \in Qids
      PROVE  /\ T[QP(y)] = IF y = q THEN r ELSE J[QP(y)]
             /\ T[UP(x, y)] = IF x = p THEN <<>> ELSE S[UP(x, y)]
             /\ T[RP(x, y)] = IF x = p /\ y = q THEN t ELSE S[RP(x, y)]
  <2>1. /\ QP(y) # RP(p, q) /\ (QP(y) = QP(q) <=> y = q)
        /\ UP(x, y) # RP(p, q) /\ UP(x, y) # QP(q)
        /\ (RP(x, y) = RP(p, q) <=> x = p /\ y = q) /\ RP(x, y) # QP(q)
    BY PlacesDiffer
  <2>2. QP(y) \in Places /\ UP(x, y) \in Places /\ RP(x, y) \in Places
    BY PlaceLemma, Zenon
  <2>3. T[QP(y)] = IF y = q THEN r ELSE J[QP(y)]
    BY <2>1, <2>2, <1>3, Zenon
  <2>4. T[UP(x, y)] = J[UP(x, y)] /\ T[RP(x, y)] = IF x = p /\ y = q THEN t ELSE J[RP(x, y)]
    BY <2>1, <2>2, <1>3, Zenon
  <2> QED BY <2>3, <2>4, <1>4, ZenonT(30)
<1>6. QS(J) = [y \in Qids |-> QS(S)[y] \o US(S)[p][y]]
  <2>1. \A y \in Qids : QS(S)[y] \o US(S)[p][y] = S[QP(y)] \o S[UP(p, y)]
    BY Zenon DEF QS, US
  <2> QED BY <2>1, <1>4, Zenon DEF QS
<1>7. US(T) = [US(S) EXCEPT ![p] = [y \in Qids |-> <<>>]]
  BY <1>5, Zenon DEF US
<1>8. QS(T) = [QS(J) EXCEPT ![q] = r]
  BY <1>5, Zenon DEF QS
<1>9. RS(T) = [RS(S) EXCEPT ![p][q] = t]
  <2>1. \A x \in Procs, y \in Qids :
          RS(T)[x][y] = IF x = p /\ y = q THEN t ELSE RS(S)[x][y]
    BY <1>5, SeenFunctions
  <2> QED BY <2>1, SeenFunctions, TableLemma
<1>10. RS(S)[p][q] = S[RP(p, q)] /\ QS(J)[q] = w
  BY <1>1, Zenon DEF RS, QS
<1>11. Exchanged(QS(T), US(T), RS(T), US(S), RS(S), QS(J), p, q, n)
  <2>1. QS(T) = [QS(J) EXCEPT ![q] = SubSeq(QS(J)[q], n + 1, Len(QS(J)[q]))]
    BY <1>2, <1>8, <1>10, Zenon
  <2>2. RS(T) = [RS(S) EXCEPT ![p][q] = RS(S)[p][q] \o SubSeq(QS(J)[q], 1, n)]
    BY <1>2, <1>9, <1>10, Zenon
  <2> QED BY <1>7, <2>1, <2>2, Zenon DEF Exchanged
<1>12. QS(J) = Together(QS(S), US(S), p)
  BY <1>6, Zenon DEF Together
<1> QED BY <1>1, <1>10, <1>11, <1>12, Zenon

\* The refinement mapping, before a step ...
LEMMA SeenNow ==
  /\ WalkQueues = QS(Seqs)
  /\ WalkAll(qids_nolock_push) = US(Seqs) /\ WalkAll(qids_nolock_pull) = RS(Seqs)
<1>1. Walks(Seqs, next, qids, qids_nolock_push, qids_nolock_pull)
  BY ZenonT(30) DEF Seqs, Walks
<1>2. /\ [q \in Qids |-> Walk(next, qids[q])] = QS(Seqs)
      /\ [p \in Procs |-> [q \in Qids |-> Walk(next, qids_nolock_push[p][q])]] = US(Seqs)
      /\ [p \in Procs |-> [q \in Qids |-> Walk(next, qids_nolock_pull[p][q])]] = RS(Seqs)
  BY <1>1, SeenLemma, SMTT(20)
<1> QED BY <1>2, Zenon DEF WalkQueues, WalkAll

\* ... and after it.
LEMMA SeenThen ==
  /\ WalkQueues' = QS(Seqs')
  /\ WalkAll(qids_nolock_push)' = US(Seqs') /\ WalkAll(qids_nolock_pull)' = RS(Seqs')
<1>1. Walks(Seqs', next', qids', qids_nolock_push', qids_nolock_pull')
  BY ZenonT(30) DEF Seqs, Walks
<1>2. /\ [q \in Qids |-> Walk(next', qids'[q])] = QS(Seqs')
      /\ [p \in Procs |-> [q \in Qids |-> Walk(next', qids_nolock_push'[p][q])]] = US(Seqs')
      /\ [p \in Procs |-> [q \in Qids |-> Walk(next', qids_nolock_pull'[p][q])]] = RS(Seqs')
  BY <1>1, SeenLemma, SMTT(20)
<1> QED BY <1>2, Zenon DEF WalkQueues, WalkAll

\* A push of the lists is a push of the queues that are promised.
LEMMA MapPush ==
  ASSUME IInv, NEW p \in Procs, NEW q \in Qids, NEW i, Push(p, q, i)
  PROVE  Promise!Push(p, q, i) /\ i \in Items
<1>1. Sound(next, qids, qids_nolock_push, qids_nolock_pull, held, Seqs)
  BY Zenon DEF IInv, SoundNow
<1>2. i \in held[p] /\ held' = [held EXCEPT ![p] = held[p] \ {i}]
  BY Zenon DEF Push
<1>3. i \in Items
  <2>1. held \in [Procs -> SUBSET Items]
    BY <1>1, Zenon DEF Sound
  <2> QED BY <2>1, <1>2, Zenon
<1>4. Seqs[UP(p, q)] \in Seq(Items)
  BY <1>1, SoundLemma, PlaceLemma, ZenonT(30)
<1>5. \A h \in Places : Seqs'[h] = Put(Seqs, UP(p, q), Seqs[UP(p, q)] \o <<i>>)[h]
  BY PushStep, Zenon
<1>6. QS(Seqs') = QS(Seqs) /\ RS(Seqs') = RS(Seqs) /\ Pushed(US(Seqs'), US(Seqs), p, q, i)
  <2>1. Same(Seqs', Put(Seqs, UP(p, q), Seqs[UP(p, q)] \o <<i>>))
    BY <1>5, Zenon DEF Same
  <2> QED BY <2>1, <1>3, <1>4, PushSeen, Zenon
<1>7. Pushed(WalkAll(qids_nolock_push)', WalkAll(qids_nolock_push), p, q, i)
  BY <1>6, SeenNow, SeenThen, Zenon
<1>8. WalkQueues' = WalkQueues /\ WalkAll(qids_nolock_pull)' = WalkAll(qids_nolock_pull)
  BY <1>6, SeenNow, SeenThen, Zenon
<1> QED BY <1>2, <1>3, <1>7, <1>8, Zenon DEF Promise!Push, Pushed

\* A step that leaves the lists alone is none of the queues.
LEMMA MapStay ==
  ASSUME IInv, UNCHANGED <<lists, held>>
  PROVE  UNCHANGED Promise!promiseVars
<1>1. \A h \in Places : Seqs'[h] = Seqs[h]
  BY StayStep, Zenon
<1>2. QS(Seqs') = QS(Seqs) /\ US(Seqs') = US(Seqs) /\ RS(Seqs') = RS(Seqs)
  BY <1>1, SameSeen, Zenon
<1>3. held' = held
  BY Zenon
<1> QED BY <1>2, <1>3, SeenNow, SeenThen, Zenon DEF Promise!promiseVars

\* The end of a pull takes the first item that was exchanged, or is no step.
LEMMA MapTake ==
  ASSUME IInv, NEW p \in Procs, Take(p)
  PROVE  UNCHANGED Promise!promiseVars \/ \E q \in Qids : Promise!Pull(p, q)
<1>1. PICK q : q = pull_qid[p]
  BY Zenon
<1>2. /\ q \in Qids
      /\ \/ held' = held /\ \A h \in Places : Seqs'[h] = Seqs[h]
         \/ /\ Seqs[RP(p, q)] # <<>>
            /\ held' = [held EXCEPT ![p] = held[p] \cup {Head(Seqs[RP(p, q)])}]
            /\ \A h \in Places : Seqs'[h] = Put(Seqs, RP(p, q), Tail(Seqs[RP(p, q)]))[h]
  BY <1>1, TakeStep
<1>3. CASE held' = held /\ \A h \in Places : Seqs'[h] = Seqs[h]
  <2>1. QS(Seqs') = QS(Seqs) /\ US(Seqs') = US(Seqs) /\ RS(Seqs') = RS(Seqs)
    BY <1>3, SameSeen, Zenon
  <2> QED BY <2>1, <1>3, SeenNow, SeenThen, Zenon DEF Promise!promiseVars
<1>4. CASE /\ Seqs[RP(p, q)] # <<>>
           /\ held' = [held EXCEPT ![p] = held[p] \cup {Head(Seqs[RP(p, q)])}]
           /\ \A h \in Places : Seqs'[h] = Put(Seqs, RP(p, q), Tail(Seqs[RP(p, q)]))[h]
  <2>1. /\ QS(Seqs') = QS(Seqs) /\ US(Seqs') = US(Seqs)
        /\ RS(Seqs') = [RS(Seqs) EXCEPT ![p][q] = Tail(RS(Seqs)[p][q])]
        /\ RS(Seqs)[p][q] = Seqs[RP(p, q)]
    BY <1>2, <1>4, PullSeen
  <2>2. /\ RS(Seqs)[p][q] # <<>>
        /\ held' = [held EXCEPT ![p] = held[p] \cup {Head(RS(Seqs)[p][q])}]
    BY <2>1, <1>4, Zenon
  <2>3. Promise!Pull(p, q)
    BY <2>1, <2>2, SeenNow, SeenThen, Zenon DEF Promise!Pull
  <2> QED BY <2>3, <1>2, ZenonT(30)
<1> QED BY <1>2, <1>3, <1>4, ZenonT(30)

\* A flush is an exchange.
LEMMA MapFlush ==
  ASSUME IInv, NEW p \in Procs, Flush(p)
  PROVE  \E q \in Qids : Promise!Exchange(p, q)
<1>1. PICK J : J = Joint(Seqs, p)
  BY Zenon
<1>2. PICK q \in Qids : \E n \in 0..Len(J[QP(q)]) :
        /\ Len(Seqs[RP(p, q)]) + n <= qids_nolock_max
        /\ \A h \in Places : Seqs'[h] = After(Seqs, p, q, n)[h]
  BY <1>1, FlushStep, Zenon
<1>3. PICK n \in 0..Len(J[QP(q)]) :
        /\ Len(Seqs[RP(p, q)]) + n <= qids_nolock_max
        /\ Same(Seqs', After(Seqs, p, q, n))
  BY <1>2, Zenon DEF Same
<1>4. PICK all : all = QS(J)
  BY Zenon
<1>5. /\ all = Together(QS(Seqs), US(Seqs), p)
      /\ Exchanged(QS(Seqs'), US(Seqs'), RS(Seqs'), US(Seqs), RS(Seqs), all, p, q, n)
      /\ RS(Seqs)[p][q] = Seqs[RP(p, q)] /\ all[q] = J[QP(q)]
  <2>1. /\ QS(Joint(Seqs, p)) = Together(QS(Seqs), US(Seqs), p)
        /\ Exchanged(QS(Seqs'), US(Seqs'), RS(Seqs'), US(Seqs), RS(Seqs),
                     QS(Joint(Seqs, p)), p, q, n)
        /\ RS(Seqs)[p][q] = Seqs[RP(p, q)]
        /\ QS(Joint(Seqs, p))[q] = Joint(Seqs, p)[QP(q)]
    BY <1>3, ExchangeSeen, Zenon
  <2> QED BY <2>1, <1>1, <1>4, ZenonT(30)
<1>6. held' = held
  BY Zenon DEF Flush
<1>7. n \in 0..Len(all[q]) /\ Len(WalkAll(qids_nolock_pull)[p][q]) + n <= qids_nolock_max
  BY <1>3, <1>5, SeenNow, Zenon
<1>8. /\ all = Together(WalkQueues, WalkAll(qids_nolock_push), p)
      /\ Exchanged(WalkQueues', WalkAll(qids_nolock_push)', WalkAll(qids_nolock_pull)',
                   WalkAll(qids_nolock_push), WalkAll(qids_nolock_pull), all, p, q, n)
  BY <1>5, SeenNow, SeenThen, Zenon
<1>9. all = [r \in Qids |-> WalkQueues[r] \o WalkAll(qids_nolock_push)[p][r]]
  BY <1>8, Zenon DEF Together
<1>10. Promise!Exchange(p, q)
  BY <1>6, <1>7, <1>8, <1>9, Zenon DEF Promise!Exchange, Exchanged
<1> QED BY <1>10, Zenon

\* The linked lists, and the lists that each process keeps for itself, implement
\* queues: items leave in the order in which they were pushed, all that a process
\* pushed goes to the queues in one step, and a pull gets the item that was first.
THEOREM QueuesPromise == Spec => KeepsPromise
<1>1. Init => Promise!Init
  <2> SUFFICES ASSUME Init PROVE Promise!Init
    BY Zenon
  <2>1. /\ Seqs[QP(0)] = [i \in 1..q_items |-> i - 1]
        /\ \A h \in Places : h # QP(0) => Seqs[h] = <<>>
    BY InitLemma, Zenon
  <2>2. PICK s : s = [i \in 1..q_items |-> i - 1]
    BY Zenon
  <2>3. ASSUME NEW q \in Qids PROVE Seqs[QP(q)] = IF q = 0 THEN s ELSE <<>>
    <3>1. QP(q) \in Places /\ (QP(q) = QP(0) <=> q = 0)
      BY PlaceLemma, PlacesDiffer, Zenon
    <3> QED BY <3>1, <2>1, <2>2, Zenon
  <2>4. ASSUME NEW p \in Procs, NEW q \in Qids
        PROVE  Seqs[UP(p, q)] = <<>> /\ Seqs[RP(p, q)] = <<>>
    <3>1. UP(p, q) # QP(0) /\ RP(p, q) # QP(0)
      BY PlacesDiffer, Zenon
    <3>2. UP(p, q) \in Places /\ RP(p, q) \in Places
      BY PlaceLemma, Zenon
    <3> QED BY <3>1, <3>2, <2>1, Zenon
  <2>5. QS(Seqs) = [q \in Qids |-> IF q = 0 THEN s ELSE <<>>]
    BY <2>3, Zenon DEF QS
  <2>6. US(Seqs) = [p \in Procs |-> [q \in Qids |-> <<>>]]
    BY <2>4, Zenon DEF US
  <2>7. RS(Seqs) = [p \in Procs |-> [q \in Qids |-> <<>>]]
    BY <2>4, Zenon DEF RS
  <2>8. held = [p \in Procs |-> {}]
    BY Zenon DEF Init
  <2> QED BY <2>2, <2>5, <2>6, <2>7, <2>8, SeenNow, Zenon DEF Promise!Init
<1>2. IInv /\ [Next]_vars => [Promise!Next]_(Promise!promiseVars)
  <2> SUFFICES ASSUME IInv, [Next]_vars PROVE Promise!Next \/ UNCHANGED Promise!promiseVars
    BY Zenon
  <2>1. CASE UNCHANGED vars
    BY <2>1, MapStay, Zenon DEF vars
  <2>2. CASE Next
    <3>1. PICK p \in Procs : Work(p) \/ Pulls(p) \/ \E q \in Qids, i \in Items : PushHead(p, q, i)
      BY <2>2, Zenon DEF Next
    <3>2. ASSUME NEW q \in Qids, NEW i, Push(p, q, i) PROVE Promise!Next
      BY <3>2, MapPush, Zenon DEF Promise!Next, Items
    <3>3. CASE Flush(p)
      BY <3>3, MapFlush, Zenon DEF Promise!Next
    <3>4. CASE Take(p)
      BY <3>4, MapTake, Zenon DEF Promise!Next
    <3>5. CASE Pulls(p)
      <4>1. PICK q \in Qids : PullTail(p, q) \/ \E from \in Qids : PushHeadPullTail(p, q, from)
        BY <3>5, Zenon DEF Pulls
      <4>2. CASE PullTail(p, q)
        <5>1. UNCHANGED <<lists, held>>
          BY <4>2, Zenon DEF PullTail
        <5> QED BY <5>1, MapStay, Zenon
      <4>3. ASSUME NEW from \in Qids, PushHeadPullTail(p, q, from)
            PROVE  Promise!Next \/ UNCHANGED Promise!promiseVars
        <5>1. (\E i \in Items : Push(p, q, i)) \/ UNCHANGED <<lists, held>>
          BY <4>3, Zenon DEF PushHeadPullTail
        <5> QED BY <5>1, <3>2, MapStay, Zenon
      <4> QED BY <4>1, <4>2, <4>3, Zenon
    <3>6. ASSUME NEW q \in Qids, NEW i \in Items, PushHead(p, q, i) PROVE Promise!Next
      <4>1. Push(p, q, i)
        BY <3>6, Zenon DEF PushHead
      <4> QED BY <4>1, <3>2, Zenon
    <3> QED BY <3>1, <3>3, <3>4, <3>5, <3>6, Zenon DEF Work
  <2> QED BY <2>1, <2>2, Zenon
<1> QED BY <1>1, <1>2, Invariance, PTL DEF Spec, KeepsPromise, Promise!Spec
=============================================================================
