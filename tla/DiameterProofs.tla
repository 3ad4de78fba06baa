---------------------------- MODULE DiameterProofs ----------------------------
(***************************************************************************)
(* The constructor of Diameter on messages of any number of AVPs of any    *)
(* lengths, whatever uninitialised memory holds; and extractDword, the bit *)
(* extraction beside it, on bytes of any width.                            *)
(***************************************************************************)
EXTENDS Diameter, ExtractDword, FiniteSetTheorems, TLAPS

-----------------------------------------------------------------------------
(***************************************************************************)
(* Where AVPs start.                                                       *)
(***************************************************************************)
\* A set of numbers that is not empty has a least one: among the intervals
\* 0..x that end in the set, one contains no other.
LEMMA LeastNumber ==
  ASSUME NEW T \in SUBSET Nat, T # {}
  PROVE  \E x \in T : \A y \in T : x <= y
<1> DEFINE F == {0..x : x \in T}
           R == StrictSubsetOrdering(Nat)
<1>1. IsWellFoundedOn(R, FiniteSubsetsOf(Nat))
  BY FS_StrictSubsetOrderingWellFounded, Zenon
<1>2. F \subseteq FiniteSubsetsOf(Nat)
  <2>1. ASSUME NEW x \in T PROVE 0..x \in FiniteSubsetsOf(Nat)
    BY FS_Interval DEF FiniteSubsetsOf
  <2> QED BY <2>1, Zenon
<1>3. F # {}
  BY Zenon
<1> HIDE DEF F, R
<1>4. PICK m \in F : \A n \in F : ~(<<n, m>> \in R)
  BY <1>1, <1>2, <1>3, WFMin, Zenon
<1>5. PICK x \in T : m = 0..x
  BY Zenon DEF F
<1>6. ASSUME NEW y \in T, y < x PROVE FALSE
  <2>1. 0..y \in F /\ ~(<<0..y, 0..x>> \in R)
    BY <1>4, <1>5, Zenon DEF F
  <2>2. 0..y \subseteq 0..x /\ 0..y # 0..x
    <3>1. x \in 0..x /\ x \notin 0..y
      BY <1>6
    <3> QED BY <3>1, <1>6
  <2> QED BY <2>1, <2>2 DEF R, StrictSubsetOrdering
<1> QED BY <1>6

\* The recursion of Starts has a solution: were there a first number of AVPs
\* without one, the solution for one AVP less could be extended.
LEMMA SumsExist ==
  ASSUME NEW n \in Nat, NEW w \in [1..n -> Nat]
  PROVE  \E f \in [1..(n + 1) -> Nat] :
           f = [k \in 1..(n + 1) |-> IF k = 1 THEN HeaderLength ELSE f[k - 1] + w[k - 1]]
<1> DEFINE Sums(f, j) == \A k \in 1..j : f[k] = IF k = 1 THEN HeaderLength
                                                 ELSE f[k - 1] + w[k - 1]
           T == {j \in 1..(n + 1) : ~ \E f \in [1..j -> Nat] : Sums(f, j)}
<1> HIDE DEF T
<1>1. T = {}
  <2>1. SUFFICES ASSUME T # {} PROVE FALSE
    OBVIOUS
  <2>2. PICK x \in T : \A y \in T : x <= y
    <3>1. T \in SUBSET Nat
      BY DEF T
    <3> QED BY <3>1, <2>1, LeastNumber, Zenon
  <2>3. x \in 1..(n + 1) /\ ~ \E f \in [1..x -> Nat] : Sums(f, x)
    BY <2>2 DEF T
  <2>4. CASE x = 1
    <3>1. PICK f : f = [k \in 1..x |-> HeaderLength]
      BY Zenon
    <3>2. f \in [1..x -> Nat] /\ Sums(f, x)
      BY <3>1, <2>4 DEF HeaderLength
    <3> QED BY <3>2, <2>3, Zenon
  <2>5. CASE x # 1
    <3>1. x \in Nat /\ x - 1 \in 1..(n + 1) /\ x - 1 \in 1..n /\ ~(x <= x - 1)
      BY <2>5, <2>3
    <3>2. PICK f \in [1..(x - 1) -> Nat] : Sums(f, x - 1)
      BY <3>1, <2>2, Zenon DEF T
    <3>3. PICK g : g = [k \in 1..x |-> IF k = x THEN f[x - 1] + w[x - 1] ELSE f[k]]
      BY Zenon
    <3>4. f[x - 1] \in Nat /\ w[x - 1] \in Nat
      BY <3>1, <3>2, <2>3
    <3>5. g \in [1..x -> Nat]
      <4>1. \A k \in 1..x : k # x => k \in 1..(x - 1)
        BY <2>3
      <4> QED BY <4>1, <3>2, <3>3, <3>4
    <3>6. ASSUME NEW k \in 1..x
          PROVE  g[k] = IF k = 1 THEN HeaderLength ELSE g[k - 1] + w[k - 1]
      <4>1. CASE k = x
        <5>1. k - 1 \in 1..x /\ k - 1 # x /\ k # 1
          BY <4>1, <2>3, <2>5
        <5> QED BY <5>1, <4>1, <3>3
      <4>2. CASE k # x
        <5>1. k \in 1..(x - 1) /\ (k # 1 => k - 1 \in 1..x /\ k - 1 # x)
          BY <4>2, <2>3
        <5> QED BY <5>1, <4>2, <3>2, <3>3
      <4> QED BY <4>1, <4>2
    <3> QED BY <3>5, <3>6, <2>3, Zenon
  <2> QED BY <2>4, <2>5
<1>2. PICK f \in [1..(n + 1) -> Nat] : Sums(f, n + 1)
  <2>1. n + 1 \in 1..(n + 1)
    OBVIOUS
  <2> QED BY <2>1, <1>1, Zenon DEF T
<1>3. f = [k \in 1..(n + 1) |-> IF k = 1 THEN HeaderLength ELSE f[k - 1] + w[k - 1]]
  <2>1. DOMAIN f = 1..(n + 1) /\ f = [k \in DOMAIN f |-> f[k]]
    BY <1>2
  <2>2. [k \in 1..(n + 1) |-> f[k]] =
        [k \in 1..(n + 1) |-> IF k = 1 THEN HeaderLength ELSE f[k - 1] + w[k - 1]]
    BY <1>2, Zenon
  <2> QED BY <2>1, <2>2, Zenon
<1> QED BY <1>3, Zenon

\* What an AVP takes on the wire; where the code accepts it, its padding is right
\* and whole words.
LEMMA WireLemma ==
  ASSUME NEW n \in Nat
  PROVE  /\ Wire(n) \in Nat /\ Wire(n) > 0
         /\ n >= 8 => /\ Padded(n) = Wire(n) /\ Padded(n) \in Nat
                      /\ 2 * (Padded(n) \div 2) = Padded(n)
<1>1. n = 4 * (n \div 4) + (n % 4) /\ n % 4 \in 0..3
  OBVIOUS
<1>2. Wire(n) \in Nat /\ Wire(n) > 0
  BY DEF Wire
<1>3. ASSUME n >= 8 PROVE Padded(n) = Wire(n)
  BY <1>1, <1>3 DEF Wire, Padded
<1>4. 2 * (Wire(n) \div 2) = Wire(n)
  BY DEF Wire
<1> QED BY <1>2, <1>3, <1>4

\* The elements of a sequence.
LEMMA SeqLemma ==
  ASSUME NEW S, NEW s \in Seq(S)
  PROVE  Len(s) \in Nat /\ \A k \in 1..Len(s) : s[k] \in S
OBVIOUS

\* The equations of Starts.
LEMMA StartsLemma ==
  ASSUME NEW m \in Messages, NEW st, st = Starts(m.avps), NEW n, n = Len(m.avps)
  PROVE  /\ n \in Nat /\ st \in [1..(n + 1) -> Nat] /\ st[1] = HeaderLength
         /\ \A k \in 1..n : /\ m.avps[k].length \in Nat
                            /\ st[k + 1] = st[k] + Wire(m.avps[k].length)
<1>1. n \in Nat /\ \A k \in 1..n : m.avps[k].length \in Nat
  <2>1. m.avps \in Seq([code : Nat, length : Nat, value : Nat])
    BY LengthAssumption, Zenon
  <2>2. Len(m.avps) \in Nat /\ \A k \in 1..Len(m.avps) :
          m.avps[k] \in [code : Nat, length : Nat, value : Nat]
    BY <2>1, SeqLemma, Zenon
  <2> QED BY <2>2
<1>2. PICK w : w = [k \in 1..n |-> Wire(m.avps[k].length)]
  BY Zenon
<1>3. w \in [1..n -> Nat]
  BY <1>1, <1>2, WireLemma, Zenon
<1>4. PICK f \in [1..(n + 1) -> Nat] :
        f = [k \in 1..(n + 1) |-> IF k = 1 THEN HeaderLength ELSE f[k - 1] + w[k - 1]]
  BY <1>1, <1>3, SumsExist, Zenon
<1>5. \A k \in 1..(n + 1) : k # 1 => w[k - 1] = Wire(m.avps[k - 1].length)
  <2>1. \A k \in 1..(n + 1) : k # 1 => k - 1 \in 1..n
    BY <1>1
  <2> QED BY <2>1, <1>2, Zenon
<1> DEFINE Solves(g) == g = [k \in 1..(n + 1) |->
             IF k = 1 THEN HeaderLength ELSE g[k - 1] + Wire(m.avps[k - 1].length)]
<1>6. Solves(f)
  BY <1>4, <1>5, Zenon
<1>7. Solves(st)
  BY <1>6, Zenon DEF Starts
<1>8. /\ st[1] = HeaderLength /\ DOMAIN st = 1..(n + 1)
      /\ \A k \in 1..n : st[k + 1] = st[k] + Wire(m.avps[k].length)
  <2>1. 1 \in 1..(n + 1) /\ \A k \in 1..n : k + 1 \in 1..(n + 1) /\ k + 1 # 1 /\ k + 1 - 1 = k
    BY <1>1
  <2>2. ASSUME NEW k \in 1..(n + 1)
        PROVE  st[k] = IF k = 1 THEN HeaderLength
                       ELSE st[k - 1] + Wire(m.avps[k - 1].length)
    BY <1>7
  <2>3. DOMAIN st = 1..(n + 1)
    BY <1>7
  <2> QED BY <2>1, <2>2, <2>3
<1>9. \A k \in 1..(n + 1) : st[k] \in Nat
  <2> DEFINE T == {k \in 1..(n + 1) : st[k] \notin Nat}
  <2> SUFFICES ASSUME T # {} PROVE FALSE
    OBVIOUS
  <2>1. T \in SUBSET Nat
    OBVIOUS
  <2> HIDE DEF T
  <2>2. PICK x \in T : \A y \in T : x <= y
    BY <2>1, LeastNumber, Zenon
  <2>3. x \in 1..(n + 1) /\ st[x] \notin Nat /\ x # 1
    BY <1>8 DEF T, HeaderLength
  <2>4. PICK k \in 1..n : x = k + 1
    <3>1. x - 1 \in 1..n /\ x = x - 1 + 1
      BY <2>3, <1>1
    <3> QED BY <3>1
  <2>5. st[k] \in Nat
    <3>1. k \in 1..(n + 1) /\ ~(x <= k)
      BY <2>4, <1>1
    <3> QED BY <3>1, <2>2, Zenon DEF T
  <2>6. Wire(m.avps[k].length) \in Nat
    BY <1>1, WireLemma, Zenon
  <2> QED BY <2>3, <2>4, <2>5, <2>6, <1>8
<1>10. st = [k \in DOMAIN st |-> st[k]]
  BY <1>7
<1> QED BY <1>1, <1>8, <1>9, <1>10

\* AVPs lie one behind the other.
LEMMA StartsGrow ==
  ASSUME NEW m \in Messages, NEW j \in 1..(Len(m.avps) + 1), NEW k \in 1..(Len(m.avps) + 1),
         j < k
  PROVE  Starts(m.avps)[j] < Starts(m.avps)[k]
<1>1. PICK st, n : st = Starts(m.avps) /\ n = Len(m.avps)
  BY Zenon
<1>2. /\ n \in Nat /\ st \in [1..(n + 1) -> Nat]
      /\ \A i \in 1..n : /\ m.avps[i].length \in Nat
                         /\ st[i + 1] = st[i] + Wire(m.avps[i].length)
  BY <1>1, StartsLemma
<1>3. \A i \in 1..n : st[i] \in Nat /\ st[i + 1] \in Nat /\ st[i] < st[i + 1]
  <2> TAKE i \in 1..n
  <2>1. Wire(m.avps[i].length) \in Nat /\ Wire(m.avps[i].length) > 0
    BY <1>2, WireLemma, Zenon
  <2>2. i \in 1..(n + 1)
    BY <1>2
  <2>3. st[i] \in Nat /\ st[i + 1] = st[i] + Wire(m.avps[i].length)
    BY <2>2, <1>2, Zenon
  <2> QED BY <2>1, <2>3
<1> DEFINE T == {i \in 1..(n + 1) : j < i /\ ~(st[j] < st[i])}
<1>4. T = {}
  <2> SUFFICES ASSUME T # {} PROVE FALSE
    OBVIOUS
  <2>1. T \in SUBSET Nat
    BY <1>2
  <2> HIDE DEF T
  <2>2. PICK x \in T : \A y \in T : x <= y
    BY <2>1, LeastNumber, Zenon
  <2>3. x \in 1..(n + 1) /\ j < x /\ ~(st[j] < st[x]) /\ j \in 1..(n + 1)
    BY <1>1 DEF T
  <2>4. PICK i \in 1..n : x = i + 1 /\ (j < i \/ j = i) /\ ~(x <= i) /\ i \in 1..(n + 1)
    <3>1. /\ x - 1 \in 1..n /\ x = x - 1 + 1 /\ (j < x - 1 \/ j = x - 1) /\ ~(x <= x - 1)
          /\ x - 1 \in 1..(n + 1)
      BY <2>3, <1>2
    <3> QED BY <3>1
  <2>5. j = i \/ st[j] < st[i]
    BY <2>2, <2>4, Zenon DEF T
  <2>6. st[j] \in Nat
    BY <2>3, <1>2, Zenon
  <2> QED BY <2>3, <2>4, <2>5, <2>6, <1>3
<1> QED BY <1>1, <1>4

\* The AVP at an offset is the only one there.
LEMMA AvpAtLemma ==
  ASSUME NEW m \in Messages, NEW j \in 1..(Len(m.avps) + 1),
         NEW k \in AvpAt(m, Starts(m.avps)[j])
  PROVE  j = k
<1>1. k \in 1..Len(m.avps) /\ Starts(m.avps)[k] = Starts(m.avps)[j] /\ Len(m.avps) \in Nat
  BY StartsLemma DEF AvpAt
<1>2. k \in 1..(Len(m.avps) + 1) /\ (j < k \/ k < j \/ j = k)
  BY <1>1
<1>3. Starts(m.avps)[j] \in Nat
  <2>1. PICK st, n : st = Starts(m.avps) /\ n = Len(m.avps)
    BY Zenon
  <2>2. st \in [1..(n + 1) -> Nat]
    BY <2>1, StartsLemma, Zenon
  <2> QED BY <2>1, <2>2
<1> QED BY <1>1, <1>2, <1>3, StartsGrow

-----------------------------------------------------------------------------
(***************************************************************************)
(* The inductive invariant.                                                *)
(***************************************************************************)
\* The loop is about to read AVP k, and has read those before it.
At(k) ==
  /\ 2 * avpStartWord = Starts(msg.avps)[k]
  /\ msgRemaining = MsgLength(msg) - Starts(msg.avps)[k]
  /\ \A j \in 1..(k - 1) : /\ msg.avps[j].code = CC_REQUEST_TYPE => CCReqAvp
                           /\ msg.avps[j].code = RESULT_CODE => resCodeAvp

IInv ==
  /\ TypeIsFound /\ msg \in Messages
  /\ pc = "loop" => avpStartWord \in Nat /\ \E k \in 1..(Len(msg.avps) + 1) : At(k)

\* The constructor starts at the first AVP with none found.
LEMMA InitIInv == Init => IInv
BY Zenon DEF Init, IInv, TypeIsFound, TypeOK

\* What an AVP does to the members; no later one takes back what was found.
LEMMA ReadLemma ==
  ASSUME TypeOK, NEW avp \in [code : Nat, length : Nat, value : Nat], Read(avp)
  PROVE  /\ CCReqAvp' \in BOOLEAN /\ resCodeAvp' \in BOOLEAN
         /\ reqType' \in (0..4) \cup {NoValue} /\ resCode' \in Int \cup {NoValue}
         /\ CCReqAvp' <=> reqType' # NoValue
         /\ resCodeAvp' <=> resCode' # NoValue
         /\ (CCReqAvp => CCReqAvp') /\ (resCodeAvp => resCodeAvp')
         /\ avp.code = CC_REQUEST_TYPE => CCReqAvp'
         /\ avp.code = RESULT_CODE => resCodeAvp'
<1>1. Value(avp) \subseteq Int /\ NoValue \notin Int
  <2>1. avp.value \in Int
    OBVIOUS
  <2> QED BY <2>1, GarbageAssumption, Zenon DEF Value
<1>2. \A v \in Value(avp) : SmallType(v) \in 0..4 /\ SmallType(v) # NoValue
  BY <1>1 DEF SmallType
<1>3. CASE avp.code = RESULT_CODE
  <2>1. resCode' \in Value(avp) /\ resCodeAvp' = TRUE /\ UNCHANGED <<reqType, CCReqAvp>>
    BY <1>3 DEF Read, RESULT_CODE, CC_REQUEST_TYPE
  <2> QED BY <2>1, <1>1, <1>3 DEF TypeOK, RESULT_CODE, CC_REQUEST_TYPE
<1>4. CASE avp.code = CC_REQUEST_TYPE
  <2>1. /\ \E v \in Value(avp) : reqType' = SmallType(v)
        /\ CCReqAvp' = TRUE /\ UNCHANGED <<resCode, resCodeAvp>>
    BY <1>4 DEF Read, RESULT_CODE, CC_REQUEST_TYPE
  <2> QED BY <2>1, <1>2, <1>4 DEF TypeOK, RESULT_CODE, CC_REQUEST_TYPE
<1>5. CASE avp.code # RESULT_CODE /\ avp.code # CC_REQUEST_TYPE
  <2>1. UNCHANGED <<resCode, resCodeAvp, reqType, CCReqAvp>>
    BY <1>5 DEF Read
  <2> QED BY <2>1, <1>5, Zenon DEF TypeOK
<1> QED BY <1>3, <1>4, <1>5

\* The loop reads the AVP that it is at.
LEMMA WhereLemma ==
  ASSUME IInv, pc = "loop"
  PROVE  \E k \in 1..(Len(msg.avps) + 1) :
           /\ At(k) /\ \A j \in AvpAt(msg, 2 * avpStartWord) : j = k
           /\ msgRemaining > 0 <=> k \in 1..Len(msg.avps)
           /\ msgRemaining > 0 => k \in AvpAt(msg, 2 * avpStartWord)
<1>1. PICK k \in 1..(Len(msg.avps) + 1) : At(k)
  BY DEF IInv
<1>2. PICK st, n : st = Starts(msg.avps) /\ n = Len(msg.avps)
  BY Zenon
<1>3. /\ msg \in Messages /\ n \in Nat /\ st \in [1..(n + 1) -> Nat] /\ n + 1 \in 1..(n + 1)
  BY <1>2, StartsLemma DEF IInv
<1>4. \A j \in AvpAt(msg, 2 * avpStartWord) : j = k
  BY <1>1, <1>3, AvpAtLemma, Zenon DEF At
<1>5. msgRemaining = st[n + 1] - st[k] /\ st[n + 1] \in Nat /\ st[k] \in Nat
  <2>1. st[n + 1] \in Nat /\ st[k] \in Nat
    BY <1>2, <1>3, Zenon
  <2> QED BY <2>1, <1>1, <1>2, Zenon DEF At, MsgLength
<1>6. msgRemaining > 0 <=> k \in 1..n
  <2>1. CASE k \in 1..n
    <3>1. k < n + 1
      BY <2>1, <1>3
    <3>2. st[k] < st[n + 1]
      BY <3>1, <1>1, <1>2, <1>3, StartsGrow, Zenon
    <3> QED BY <3>2, <2>1, <1>5
  <2>2. CASE k \notin 1..n
    <3>1. k = n + 1
      BY <2>2, <1>2, <1>3
    <3> QED BY <3>1, <2>2, <1>5
  <2> QED BY <2>1, <2>2
<1>7. k \in 1..n => k \in AvpAt(msg, 2 * avpStartWord)
  BY <1>1, <1>2, Zenon DEF At, AvpAt
<1> QED BY <1>1, <1>2, <1>4, <1>6, <1>7, Zenon

\* The header is read; the loop begins at the first AVP.
LEMMA AcceptIInv ==
  ASSUME IInv, Accept
  PROVE  IInv'
<1>1. /\ msg \in Messages /\ TypeOK /\ pc' = "loop" /\ avpStartWord' = HeaderLength \div 2
      /\ msgRemaining' = MsgLength(msg) - HeaderLength
      /\ UNCHANGED <<msg, valid, reqType, resCode, CCReqAvp, resCodeAvp>>
  BY Zenon DEF IInv, TypeIsFound, Accept
<1>2. /\ Len(msg.avps) \in Nat /\ Starts(msg.avps)[1] = HeaderLength
  BY <1>1, StartsLemma
<1>3. avpStartWord' \in Nat /\ 2 * avpStartWord' = HeaderLength
  BY <1>1 DEF HeaderLength
<1>4. 1 \in 1..(Len(msg.avps) + 1) /\ 1..(1 - 1) = {}
  BY <1>2
<1>5. At(1)'
  BY <1>1, <1>2, <1>3, <1>4 DEF At
<1>6. TypeIsFound'
  BY <1>1 DEF TypeIsFound, TypeOK
<1> QED BY <1>1, <1>3, <1>4, <1>5, <1>6, Zenon DEF IInv

\* At the end of the message all its AVPs were read.
LEMMA EndLemma ==
  ASSUME IInv, EndOfMessage
  PROVE  /\ Carries(msg, CC_REQUEST_TYPE) => CCReqAvp
         /\ Carries(msg, RESULT_CODE) => resCodeAvp
<1>1. PICK k \in 1..(Len(msg.avps) + 1) : At(k) /\ k \notin 1..Len(msg.avps)
  <2>1. pc = "loop" /\ msgRemaining <= 0
    BY DEF EndOfMessage
  <2>2. PICK k \in 1..(Len(msg.avps) + 1) :
          At(k) /\ (msgRemaining > 0 <=> k \in 1..Len(msg.avps))
    BY <2>1, WhereLemma, Zenon
  <2>3. msgRemaining \in Int
    <3>1. PICK st, n : st = Starts(msg.avps) /\ n = Len(msg.avps)
      BY Zenon
    <3>2. n \in Nat /\ st \in [1..(n + 1) -> Nat]
      BY <3>1, StartsLemma DEF IInv
    <3> QED BY <2>2, <3>1, <3>2 DEF At, MsgLength
  <2> QED BY <2>1, <2>2, <2>3
<1>2. Len(msg.avps) \in Nat
  BY StartsLemma DEF IInv
<1>3. \A j \in 1..Len(msg.avps) : j \in 1..(k - 1)
  BY <1>1, <1>2
<1> QED BY <1>1, <1>3, Zenon DEF At, Carries

\* An AVP whose length ends the loop makes the message unreadable.
LEMMA UnreadableLemma ==
  ASSUME IInv, NEW k \in 1..Len(msg.avps), ~Accepted(msg.avps[k].length)
  PROVE  ~Readable(msg)
<1>1. PICK n : n = msg.avps[k].length
  OBVIOUS
<1>2. n \in Nat
  BY <1>1, StartsLemma, Zenon DEF IInv
<1>3. MaxAvpLength \in Nat
  BY DEF MaxAvpLength
<1>4. n \notin 8..MaxAvpLength
  BY <1>1, <1>2, <1>3 DEF Accepted
<1> QED BY <1>1, <1>4, Zenon DEF Readable

\* The loop ends: an AVP ends it, or the message does.
LEMMA FinishIInv ==
  ASSUME IInv, EndOfMessage \/ \E k \in 1..Len(msg.avps) : Unreadable(k)
  PROVE  IInv'
<1>1. /\ TypeOK /\ msg \in Messages /\ pc' = "done"
      /\ UNCHANGED <<msg, valid, reqType, resCode, CCReqAvp, resCodeAvp>>
  BY Zenon DEF IInv, TypeIsFound, EndOfMessage, Unreadable, Finish
<1>2. Readable(msg) /\ Carries(msg, CC_REQUEST_TYPE) => CCReqAvp
  BY EndLemma, UnreadableLemma, Zenon DEF Unreadable
<1>3. TypeOK'
  BY <1>1 DEF TypeOK
<1>4. TypeIsFound'
  <2>1. /\ Readable(msg)' = Readable(msg)
        /\ Carries(msg, CC_REQUEST_TYPE)' = Carries(msg, CC_REQUEST_TYPE)
    BY <1>1 DEF Readable, Carries
  <2> QED BY <2>1, <1>1, <1>2, <1>3, Zenon DEF TypeIsFound
<1> QED BY <1>1, <1>4 DEF IInv

\* The loop reads an AVP and goes on with the next, or has found enough.
LEMMA VisitIInv ==
  ASSUME IInv, NEW k \in 1..Len(msg.avps), Visit(k)
  PROVE  IInv'
<1>1. PICK avp : avp = msg.avps[k]
  OBVIOUS
<1>2. /\ pc = "loop" /\ msgRemaining > 0 /\ k \in AvpAt(msg, 2 * avpStartWord)
      /\ Accepted(avp.length) /\ Read(avp) /\ UNCHANGED <<msg, valid>>
      /\ \/ Enough(CCReqAvp', resCodeAvp') /\ pc' = "done"
         \/ /\ msgRemaining' = msgRemaining - Padded(avp.length)
            /\ avpStartWord' = avpStartWord + Padded(avp.length) \div 2 /\ UNCHANGED pc
  BY <1>1, Zenon DEF Visit, Finish
<1>3. /\ TypeOK /\ msg \in Messages /\ avpStartWord \in Nat
      /\ At(k)
  BY <1>2, WhereLemma, Zenon DEF IInv, TypeIsFound
<1>4. PICK st, n : st = Starts(msg.avps) /\ n = Len(msg.avps)
  OBVIOUS
<1>5. /\ n \in Nat /\ st \in [1..(n + 1) -> Nat] /\ avp.length \in Nat
      /\ st[k + 1] = st[k] + Wire(avp.length)
  BY <1>1, <1>3, <1>4, StartsLemma
<1>6. avp \in [code : Nat, length : Nat, value : Nat]
  <2>1. msg.avps \in Seq([code : Nat, length : Nat, value : Nat])
    BY <1>3, LengthAssumption, Zenon
  <2> QED BY <2>1, <1>1, SeqLemma, Zenon
<1>7. avp.length >= 8
  <2>1. avp.length = 0 \/ avp.length >= 8
    BY <1>1, <1>3, LengthAssumption, Zenon
  <2> QED BY <2>1, <1>2, <1>5 DEF Accepted
<1>8. PICK w : /\ w = Padded(avp.length) /\ w = Wire(avp.length) /\ w \in Nat
               /\ 2 * (w \div 2) = w
  BY <1>5, <1>7, WireLemma, Zenon
<1>9. /\ CCReqAvp' \in BOOLEAN /\ resCodeAvp' \in BOOLEAN
      /\ reqType' \in (0..4) \cup {NoValue} /\ resCode' \in Int \cup {NoValue}
      /\ CCReqAvp' <=> reqType' # NoValue
      /\ resCodeAvp' <=> resCode' # NoValue
      /\ (CCReqAvp => CCReqAvp') /\ (resCodeAvp => resCodeAvp')
      /\ avp.code = CC_REQUEST_TYPE => CCReqAvp'
      /\ avp.code = RESULT_CODE => resCodeAvp'
  BY <1>2, <1>3, <1>6, ReadLemma, Zenon
<1>10. TypeOK'
  BY <1>2, <1>3, <1>9, Zenon DEF TypeOK
<1>11. CASE Enough(CCReqAvp', resCodeAvp') /\ pc' = "done"
  <2>1. CCReqAvp'
    BY <1>11, Zenon DEF Enough
  <2> QED BY <2>1, <1>2, <1>3, <1>10, <1>11 DEF IInv, TypeIsFound
<1>12. CASE /\ msgRemaining' = msgRemaining - w
            /\ avpStartWord' = avpStartWord + w \div 2 /\ UNCHANGED pc
  <2>1. avpStartWord' \in Nat /\ 2 * avpStartWord' = 2 * avpStartWord + w
    BY <1>3, <1>8, <1>12
  <2>2. k \in 1..(n + 1) /\ k + 1 \in 1..(n + 1) /\ n + 1 \in 1..(n + 1)
        /\ \A j \in 1..(k + 1 - 1) : j = k \/ j \in 1..(k - 1)
    BY <1>4, <1>5
  <2>3. st[k] \in Nat /\ st[k + 1] \in Nat /\ st[n + 1] \in Nat
    BY <2>2, <1>5
  <2>4. 2 * avpStartWord = st[k] /\ msgRemaining = st[n + 1] - st[k]
    BY <1>3, <1>4, Zenon DEF At, MsgLength
  <2>5. 2 * avpStartWord' = st[k + 1] /\ msgRemaining' = st[n + 1] - st[k + 1]
    <3>1. PICK a, b, c, x, y, r : /\ a = st[k] /\ b = st[k + 1] /\ c = st[n + 1]
                                  /\ x = 2 * avpStartWord /\ y = 2 * avpStartWord'
                                  /\ r = msgRemaining
      OBVIOUS
    <3>2. /\ a \in Nat /\ c \in Nat /\ w \in Nat /\ b = a + w /\ x = a /\ r = c - a
          /\ y = x + w /\ msgRemaining' = r - w
      BY <3>1, <1>5, <1>8, <1>12, <2>1, <2>3, <2>4, Zenon
    <3>3. y = b /\ msgRemaining' = c - b
      BY <3>2
    <3> QED BY <3>1, <3>3, Zenon
  <2>6. \A j \in 1..(k + 1 - 1) : /\ msg.avps[j].code = CC_REQUEST_TYPE => CCReqAvp'
                                  /\ msg.avps[j].code = RESULT_CODE => resCodeAvp'
    BY <2>2, <1>1, <1>3, <1>9, Zenon DEF At
  <2>7. At(k + 1)'
    BY <2>5, <2>6, <1>2, <1>4 DEF At, MsgLength
  <2>8. TypeIsFound'
    BY <1>2, <1>10, <1>12 DEF TypeIsFound
  <2> QED BY <2>1, <2>2, <2>7, <2>8, <1>2, <1>3, <1>4, Zenon DEF IInv
<1> QED BY <1>2, <1>8, <1>11, <1>12, Zenon

\* Every step keeps the invariant.
LEMMA NextIInv ==
  ASSUME IInv, [Next]_vars
  PROVE  IInv'
<1>1. CASE Reject
  BY <1>1, Zenon DEF Reject, IInv, TypeIsFound, TypeOK
<1>2. CASE UNCHANGED vars
  <2>1. /\ Readable(msg)' = Readable(msg)
        /\ Carries(msg, CC_REQUEST_TYPE)' = Carries(msg, CC_REQUEST_TYPE)
    BY <1>2 DEF vars, Readable, Carries
  <2>2. TypeIsFound'
    BY <2>1, <1>2, Zenon DEF vars, IInv, TypeIsFound, TypeOK
  <2>3. \A k : At(k) => At(k)'
    BY <1>2, Zenon DEF vars, At, MsgLength
  <2> QED BY <2>2, <2>3, <1>2, Zenon DEF vars, IInv
<1> QED BY <1>1, <1>2, AcceptIInv, FinishIInv, VisitIInv, Zenon DEF Next

-----------------------------------------------------------------------------
(***************************************************************************)
(* Theorems.                                                               *)
(***************************************************************************)
\* The inductive invariant of the constructor: the loop is always at an AVP, or
\* at the end, and has read what lies before.
THEOREM Invariance == Spec => []IInv
<1>1. IInv /\ [Next]_vars => IInv'
  BY NextIInv
<1> QED BY InitIInv, <1>1, PTL DEF Spec

\* The AVP loop of the constructor reads headers only where an AVP starts, for
\* any number of AVPs whose lengths are 0 or at least a header.
THEOREM StaysOnBoundary == Spec => []OnBoundary
<1>1. ASSUME IInv PROVE OnBoundary
  <2>1. SUFFICES ASSUME pc = "loop"
                 PROVE  /\ 2 * avpStartWord + msgRemaining = MsgLength(msg)
                        /\ msgRemaining > 0 => AvpAt(msg, 2 * avpStartWord) # {}
    BY Zenon DEF OnBoundary
  <2>2. PICK k \in 1..(Len(msg.avps) + 1) :
          At(k) /\ (msgRemaining > 0 => k \in AvpAt(msg, 2 * avpStartWord))
    BY <1>1, <2>1, WhereLemma, Zenon
  <2>3. PICK st, n : st = Starts(msg.avps) /\ n = Len(msg.avps)
    BY Zenon
  <2>4. n \in Nat /\ st \in [1..(n + 1) -> Nat]
    BY <1>1, <2>3, StartsLemma DEF IInv
  <2>5. 2 * avpStartWord + msgRemaining = MsgLength(msg)
    <3>1. PICK a, b, x : a = st[k] /\ b = st[n + 1] /\ x = 2 * avpStartWord
      BY Zenon
    <3>2. n + 1 \in 1..(n + 1)
      BY <2>4
    <3>3. a \in Nat /\ b \in Nat /\ x = a /\ msgRemaining = b - a /\ MsgLength(msg) = b
      BY <3>1, <3>2, <2>2, <2>3, <2>4, Zenon DEF At, MsgLength
    <3>4. x + msgRemaining = b
      BY <3>3
    <3> QED BY <3>1, <3>3, <3>4, Zenon
  <2> QED BY <2>2, <2>5, Zenon
<1> QED BY <1>1, Invariance, PTL

\* The constructor finds the CC-Request-Type of every readable message, whatever
\* uninitialised memory holds.
THEOREM TypeAlwaysFound == Spec => []TypeIsFound
BY Invariance, PTL DEF IInv

\* It misses a Result-Code only when the uninitialised request is 1.
THEOREM ResultMissedOnly == Spec => ResultMissedOnlyByGarbage
<1>1. ASSUME IInv, Next, pc' = "done", valid', Readable(msg), Carries(msg, RESULT_CODE),
             ~resCodeAvp'
      PROVE  request = 1 /\ CCReqAvp'
  <2>1. ~Reject /\ ~Accept
    BY <1>1 DEF Reject, Accept
  <2>2. ~EndOfMessage
    <3>1. SUFFICES ASSUME EndOfMessage PROVE resCodeAvp /\ resCodeAvp' = resCodeAvp
      BY <1>1
    <3> QED BY <3>1, <1>1, EndLemma, Zenon DEF EndOfMessage
  <2>3. \A k \in 1..Len(msg.avps) : ~Unreadable(k)
    BY <1>1, UnreadableLemma, Zenon DEF Unreadable
  <2>4. PICK k \in 1..Len(msg.avps) : Visit(k)
    BY <1>1, <2>1, <2>2, <2>3, Zenon DEF Next
  <2>5. Enough(CCReqAvp', resCodeAvp')
    BY <2>4, <1>1 DEF Visit
  <2> QED BY <2>5, <1>1, Zenon DEF Enough
<1>2. IInv /\ [Next]_vars =>
        [pc' = "done" /\ valid' /\ Readable(msg) /\ Carries(msg, RESULT_CODE)
           /\ ~resCodeAvp' => request = 1 /\ CCReqAvp']_vars
  BY <1>1, Zenon
<1> QED BY <1>2, Invariance, PTL DEF Spec, ResultMissedOnlyByGarbage

-----------------------------------------------------------------------------
(***************************************************************************)
(* extractDword, for every width of a byte: the number in a run of bits,   *)
(* and what shifts, masks and words do to it.                              *)
(***************************************************************************)
\* What holds of 0 and of each number after one it holds of holds of all.
LEMMA NumberInduction ==
  ASSUME NEW G, 0 \in G, \A n \in Nat : n \in G => n + 1 \in G
  PROVE  \A n \in Nat : n \in G
<1>1. PICK T : T = {n \in Nat : n \notin G}
  BY Zenon
<1>2. SUFFICES ASSUME T # {} PROVE FALSE
  BY <1>1, Zenon
<1>3. PICK x \in T : \A y \in T : x <= y
  BY <1>1, <1>2, LeastNumber, Zenon
<1>4. x \in Nat /\ x \notin G /\ x # 0
  BY <1>1, Zenon
<1>5. x - 1 \in Nat /\ ~(x <= x - 1) /\ (x - 1) + 1 = x
  BY <1>4
<1>6. x - 1 \in G
  BY <1>1, <1>3, <1>5, Zenon
<1> QED BY <1>4, <1>5, <1>6

\* f doubles and adds the next of c, up to n.
Doubles(f, z, c, n) ==
  f[0] = z /\ \A k \in 1..n : f[k] = 2 * f[k - 1] + c[k]

\* Such a recursion has a solution up to any number ...
LEMMA DoublesUpTo ==
  ASSUME NEW z, NEW c
  PROVE  \A n \in Nat : \E f : Doubles(f, z, c, n)
<1>1. PICK G : G = {n \in Nat : \E f : Doubles(f, z, c, n)}
  BY Zenon
<1>2. 0 \in G
  <2>1. PICK f : f = [k \in Nat |-> z]
    BY Zenon
  <2>2. f[0] = z /\ 1..0 = {}
    BY <2>1
  <2> QED BY <2>2, <1>1 DEF Doubles
<1>3. ASSUME NEW n \in Nat, n \in G PROVE n + 1 \in G
  <2>1. PICK f : Doubles(f, z, c, n)
    BY <1>1, <1>3, Zenon
  <2>2. PICK v : v = 2 * f[n] + c[n + 1]
    BY Zenon
  <2>3. PICK g : g = [k \in Nat |-> IF k = n + 1 THEN v ELSE f[k]]
    BY Zenon
  <2>4. \A k \in Nat : g[k] = IF k = n + 1 THEN v ELSE f[k]
    BY <2>3, Zenon
  <2>5. g[0] = z
    <3>1. 0 \in Nat /\ 0 # n + 1
      OBVIOUS
    <3> QED BY <3>1, <2>1, <2>4, Zenon DEF Doubles
  <2>6. ASSUME NEW k \in 1..(n + 1) PROVE g[k] = 2 * g[k - 1] + c[k]
    <3>1. k \in Nat /\ k - 1 \in Nat /\ k - 1 # n + 1 /\ (k # n + 1 => k \in 1..n)
          /\ (k = n + 1 => k - 1 = n)
      OBVIOUS
    <3>2. g[k - 1] = f[k - 1]
      BY <3>1, <2>4, Zenon
    <3>3. CASE k = n + 1
      BY <3>1, <3>2, <3>3, <2>2, <2>4, Zenon
    <3>4. CASE k # n + 1
      BY <3>1, <3>2, <3>4, <2>1, <2>4, Zenon DEF Doubles
    <3> QED BY <3>3, <3>4, Zenon
  <2>7. n + 1 \in Nat
    OBVIOUS
  <2> QED BY <2>4, <2>5, <2>6, <2>7, <1>1, Zenon DEF Doubles
<1>4. \A n \in Nat : n \in G
  BY <1>2, <1>3, NumberInduction, Zenon
<1> QED BY <1>1, <1>4, Zenon

\* ... two of which agree as far as both go ...
LEMMA DoublesAgree ==
  ASSUME NEW z, NEW c, NEW f, NEW g, NEW m \in Nat, Doubles(f, z, c, m), Doubles(g, z, c, m)
  PROVE  \A n \in Nat : n <= m => f[n] = g[n]
<1>1. PICK G : G = {n \in Nat : n <= m => f[n] = g[n]}
  BY Zenon
<1>2. 0 \in G
  <2>1. 0 \in Nat
    OBVIOUS
  <2> QED BY <2>1, <1>1, Zenon DEF Doubles
<1>3. ASSUME NEW n \in Nat, n \in G PROVE n + 1 \in G
  <2>1. n + 1 \in Nat /\ (n + 1) - 1 = n /\ (n + 1 <= m => n <= m /\ n + 1 \in 1..m)
    OBVIOUS
  <2>2. ASSUME n + 1 <= m PROVE f[n + 1] = g[n + 1]
    <3>1. f[n] = g[n]
      BY <2>1, <2>2, <1>1, <1>3, Zenon
    <3>2. /\ f[n + 1] = 2 * f[(n + 1) - 1] + c[n + 1]
          /\ g[n + 1] = 2 * g[(n + 1) - 1] + c[n + 1]
      BY <2>1, <2>2, Zenon DEF Doubles
    <3> QED BY <3>1, <3>2, <2>1, Zenon
  <2> QED BY <2>1, <2>2, <1>1, Zenon
<1>4. \A n \in Nat : n \in G
  BY <1>2, <1>3, NumberInduction, Zenon
<1> QED BY <1>1, <1>4, Zenon

\* f is the solution for all numbers.
Doubling(f, z, c) == f = [n \in Nat |-> IF n = 0 THEN z ELSE 2 * f[n - 1] + c[n]]

\* ... and so one for all numbers.
LEMMA DoublingExists ==
  ASSUME NEW z, NEW c
  PROVE  \E f : Doubling(f, z, c)
<1>1. PICK h : h = [n \in Nat |-> CHOOSE f : Doubles(f, z, c, n)]
  BY Zenon
<1>2. \A n \in Nat : Doubles(h[n], z, c, n)
  BY <1>1, DoublesUpTo, Zenon
<1>3. PICK f : f = [n \in Nat |-> h[n][n]]
  BY Zenon
<1>5. ASSUME NEW n \in Nat PROVE f[n] = IF n = 0 THEN z ELSE 2 * f[n - 1] + c[n]
  <2>1. CASE n = 0
    BY <2>1, <1>2, <1>3, Zenon DEF Doubles
  <2>2. CASE n # 0
    <3>1. n - 1 \in Nat /\ n \in 1..n /\ n - 1 <= n - 1 /\ \A k \in 1..(n - 1) : k \in 1..n
      BY <2>2
    <3>2. Doubles(h[n], z, c, n - 1)
      BY <3>1, <1>2, Zenon DEF Doubles
    <3>3. h[n][n - 1] = h[n - 1][n - 1]
      <4>1. PICK u, v, m : u = h[n] /\ v = h[n - 1] /\ m = n - 1
        BY Zenon
      <4>2. m \in Nat /\ m <= m /\ Doubles(u, z, c, m) /\ Doubles(v, z, c, m)
        BY <4>1, <3>1, <3>2, <1>2, Zenon
      <4>3. u[m] = v[m]
        BY <4>2, DoublesAgree
      <4> QED BY <4>1, <4>3, Zenon
    <3>4. h[n][n] = 2 * h[n][n - 1] + c[n]
      BY <3>1, <1>2, Zenon DEF Doubles
    <3> QED BY <3>1, <3>3, <3>4, <2>2, <1>3, Zenon
  <2> QED BY <2>1, <2>2, Zenon
<1>6. f = [n \in Nat |-> IF n = 0 THEN z ELSE 2 * f[n - 1] + c[n]]
  BY <1>3, <1>5, Zenon
<1> QED BY <1>6, Zenon DEF Doubling

\* The solution is one in numbers when what it adds are numbers.
LEMMA DoublingType ==
  ASSUME NEW z \in Nat, NEW c, NEW f, Doubling(f, z, c), NEW m \in Nat,
         \A n \in 1..m : c[n] \in Nat
  PROVE  \A n \in Nat : n <= m => f[n] \in Nat
<1>1. PICK G : G = {n \in Nat : n <= m => f[n] \in Nat}
  BY Zenon
<1>2. \A n \in Nat : f[n] = IF n = 0 THEN z ELSE 2 * f[n - 1] + c[n]
  BY Zenon DEF Doubling
<1>3. 0 \in G
  BY <1>1, <1>2
<1>4. ASSUME NEW n \in Nat, n \in G PROVE n + 1 \in G
  <2>1. n + 1 \in Nat /\ n + 1 # 0 /\ (n + 1) - 1 = n
        /\ (n + 1 <= m => n <= m /\ n + 1 \in 1..m)
    OBVIOUS
  <2>2. ASSUME n + 1 <= m PROVE f[n + 1] \in Nat
    <3>1. PICK a, b \in Nat : a = f[n] /\ b = c[n + 1]
      BY <2>1, <2>2, <1>1, <1>4, Zenon
    <3>2. f[n + 1] = 2 * a + b
      BY <3>1, <2>1, <1>2, Zenon
    <3> QED BY <3>2
  <2> QED BY <2>1, <2>2, <1>1, Zenon
<1>5. \A n \in Nat : n \in G
  BY <1>3, <1>4, NumberInduction, Zenon
<1> QED BY <1>1, <1>5, Zenon

\* Powers of two.
LEMMA PowLemma ==
  /\ Pow2 \in [Nat -> Nat] /\ Pow2[0] = 1
  /\ \A n \in Nat : Pow2[n + 1] = 2 * Pow2[n]
<1>1. PICK c : c = [n \in Nat |-> 0]
  BY Zenon
<1>2. 1 \in Nat /\ c \in [Nat -> Nat]
  BY <1>1
<1>3. PICK f : Doubling(f, 1, c)
  BY DoublingExists, Zenon
<1>4. ASSUME NEW n \in Nat PROVE f[n] = IF n = 0 THEN 1 ELSE 2 * f[n - 1]
  <2>1. f[n] = IF n = 0 THEN 1 ELSE 2 * f[n - 1] + c[n]
    BY <1>3, Zenon DEF Doubling
  <2>2. ASSUME n # 0 PROVE f[n - 1] \in Nat /\ c[n] = 0
    <3>1. PICK m \in Nat : m = n - 1 /\ m <= m
      BY <2>2
    <3>2. \A k \in 1..m : c[k] \in Nat
      BY <1>1
    <3>3. f[m] \in Nat
      BY <3>1, <3>2, <1>2, <1>3, DoublingType
    <3> QED BY <3>1, <3>3, <1>1, Zenon
  <2> QED BY <2>1, <2>2
<1>5. f = [n \in Nat |-> IF n = 0 THEN 1 ELSE 2 * f[n - 1]]
  <2>1. DOMAIN f = Nat /\ f = [n \in DOMAIN f |-> f[n]]
    BY <1>3, Zenon DEF Doubling
  <2>2. f = [n \in Nat |-> f[n]]
    BY <2>1, Zenon
  <2> QED BY <2>2, <1>4, Zenon
<1>6. Pow2 = [n \in Nat |-> IF n = 0 THEN 1 ELSE 2 * Pow2[n - 1]]
  BY <1>5, Zenon DEF Pow2
<1>7. PICK q : q = Pow2
  BY Zenon
<1>8. \A n \in Nat : q[n] = IF n = 0 THEN 1 ELSE 2 * q[n - 1]
  BY <1>6, <1>7, Zenon
<1>9. q[0] = 1 /\ \A n \in Nat : q[n + 1] = 2 * q[n]
  <2>1. 0 \in Nat /\ \A n \in Nat : n + 1 \in Nat /\ n + 1 # 0 /\ (n + 1) - 1 = n
    OBVIOUS
  <2> QED BY <2>1, <1>8, Zenon
<1>10. \A n \in Nat : q[n] \in Nat
  <2>1. PICK G : G = {n \in Nat : q[n] \in Nat}
    BY Zenon
  <2>2. 0 \in G
    BY <2>1, <1>9
  <2>3. ASSUME NEW n \in Nat, n \in G PROVE n + 1 \in G
    BY <2>1, <2>3, <1>9
  <2> QED BY <2>1, <2>2, <2>3, NumberInduction, Zenon
<1>11. q \in [Nat -> Nat]
  <2>1. q = [n \in Nat |-> q[n]]
    BY <1>6, <1>7, Zenon
  <2> QED BY <2>1, <1>10, Zenon
<1> QED BY <1>7, <1>9, <1>11, Zenon

\* The masks and shifts of extractDword are by numbers that are not 0.
LEMMA PowType == \A n \in Nat : Pow2[n] \in Nat /\ Pow2[n] >= 1
<1>1. PICK G : G = {n \in Nat : Pow2[n] \in Nat /\ Pow2[n] >= 1}
  BY Zenon
<1>2. 0 \in G
  BY <1>1, PowLemma
<1>3. ASSUME NEW n \in Nat, n \in G PROVE n + 1 \in G
  <2>1. PICK a, b : a = Pow2[n] /\ b = Pow2[n + 1] /\ b = 2 * a
    BY PowLemma, Zenon
  <2>2. a \in Nat /\ a >= 1
    BY <2>1, <1>1, <1>3, Zenon
  <2>3. n + 1 \in Nat /\ b \in Nat /\ b >= 1
    BY <2>1, <2>2
  <2> QED BY <2>1, <2>3, <1>1, Zenon
<1>4. \A n \in Nat : n \in G
  BY <1>2, <1>3, NumberInduction, Zenon
<1> QED BY <1>1, <1>4, Zenon

\* Two shifts are one by their sum.
LEMMA PowSum ==
  ASSUME NEW m \in Nat
  PROVE  \A n \in Nat : Pow2[m + n] = Pow2[m] * Pow2[n]
<1>1. PICK G : G = {n \in Nat : Pow2[m + n] = Pow2[m] * Pow2[n]}
  BY Zenon
<1>2. 0 \in G
  <2>1. m + 0 = m /\ 0 \in Nat
    OBVIOUS
  <2>2. Pow2[m] * 1 = Pow2[m]
    BY PowType
  <2> QED BY <2>1, <2>2, <1>1, PowLemma, Zenon
<1>3. ASSUME NEW n \in Nat, n \in G PROVE n + 1 \in G
  <2>1. m + n \in Nat /\ m + (n + 1) = (m + n) + 1 /\ n + 1 \in Nat
    OBVIOUS
  <2>2. PICK a, b, d : a = Pow2[m] /\ b = Pow2[n] /\ d = Pow2[m + n]
    BY Zenon
  <2>3. a \in Nat /\ b \in Nat /\ d \in Nat /\ d = a * b
    BY <2>1, <2>2, <1>1, <1>3, PowType, Zenon
  <2>4. Pow2[n + 1] = 2 * b /\ Pow2[m + (n + 1)] = 2 * d
    BY <2>1, <2>2, PowLemma, Zenon
  <2>5. 2 * d = a * (2 * b)
    BY <2>3
  <2> QED BY <2>1, <2>2, <2>4, <2>5, <1>1, Zenon
<1>4. \A n \in Nat : n \in G
  BY <1>2, <1>3, NumberInduction, Zenon
<1> QED BY <1>1, <1>4, Zenon

\* Division with rest is unique.
LEMMA DivLemma ==
  ASSUME NEW q \in Nat, NEW y \in Nat, NEW r \in Nat, r < y
  PROVE  (q * y + r) \div y = q /\ (q * y + r) % y = r
<1>1. PICK x \in Nat : x = q * y + r
  <2>1. q * y \in Nat
    OBVIOUS
  <2> QED BY <2>1
<1>2. PICK d \in Nat, e \in Nat : d = x \div y /\ e = x % y
  OBVIOUS
<1>3. x = y * d + e /\ e < y
  BY <1>2
<1>4. q * y + r = d * y + e
  BY <1>1, <1>3
<1>5. ~(q >= d + 1)
  <2>1. SUFFICES ASSUME q >= d + 1 PROVE FALSE
    OBVIOUS
  <2>2. q * y >= (d + 1) * y /\ (d + 1) * y = d * y + y
    BY <2>1
  <2>3. PICK a, b \in Nat : a = q * y /\ b = d * y
    OBVIOUS
  <2> QED BY <2>2, <2>3, <1>3, <1>4
<1>6. ~(d >= q + 1)
  <2>1. SUFFICES ASSUME d >= q + 1 PROVE FALSE
    OBVIOUS
  <2>2. d * y >= (q + 1) * y /\ (q + 1) * y = q * y + y
    BY <2>1
  <2>3. PICK a, b \in Nat : a = q * y /\ b = d * y
    OBVIOUS
  <2> QED BY <2>2, <2>3, <1>3, <1>4
<1>7. d = q
  BY <1>5, <1>6
<1>8. e = r
  <2>1. PICK a \in Nat : a = q * y
    OBVIOUS
  <2>2. a + r = a + e
    BY <2>1, <1>4, <1>7
  <2> QED BY <2>2
<1> QED BY <1>1, <1>2, <1>7, <1>8, Zenon

\* The number in the n bits of b that begin with bit f.
Num(b, f, n) == Number(b, f, f + n)

\* It is built bit by bit.
BitByBit(b, f) ==
  /\ Num(b, f, 0) = 0
  /\ \A n \in Nat : Num(b, f, n + 1) = 2 * Num(b, f, n) + Bit(b, f + n)

\* The recursion of Number has a solution, so that it is.
LEMMA NumLemma ==
  ASSUME NEW b, NEW f \in Nat
  PROVE  BitByBit(b, f)
<1>1. PICK c : c = [n \in Nat |-> Bit(b, f + n - 1)]
  BY Zenon
<1>2. PICK g : Doubling(g, 0, c)
  BY DoublingExists, Zenon
<1>3. g = [n \in Nat |-> IF n = 0 THEN 0 ELSE 2 * g[n - 1] + Bit(b, f + n - 1)]
  BY <1>1, <1>2, Zenon DEF Doubling
<1>4. PICK h : /\ h = CHOOSE u : u = [n \in Nat |-> IF n = 0 THEN 0
                                                    ELSE 2 * u[n - 1] + Bit(b, f + n - 1)]
               /\ h = [n \in Nat |-> IF n = 0 THEN 0 ELSE 2 * h[n - 1] + Bit(b, f + n - 1)]
  BY <1>3, Zenon
<1>5. \A n \in Nat : Num(b, f, n) = h[n]
  <2> TAKE n \in Nat
  <2>1. (f + n) - f = n
    OBVIOUS
  <2>2. Num(b, f, n) = h[(f + n) - f]
    BY <1>4, Zenon DEF Num, Number
  <2> QED BY <2>1, <2>2, Zenon
<1>6. 0 \in Nat /\ \A n \in Nat : /\ n + 1 \in Nat /\ n + 1 # 0 /\ (n + 1) - 1 = n
                                  /\ f + (n + 1) - 1 = f + n
  OBVIOUS
<1>7. \A n \in Nat : h[n] = IF n = 0 THEN 0 ELSE 2 * h[n - 1] + Bit(b, f + n - 1)
  BY <1>4, Zenon
<1>8. Num(b, f, 0) = 0
  BY <1>5, <1>6, <1>7, Zenon
<1>9. ASSUME NEW n \in Nat PROVE Num(b, f, n + 1) = 2 * Num(b, f, n) + Bit(b, f + n)
  <2>1. h[n + 1] = 2 * h[(n + 1) - 1] + Bit(b, f + (n + 1) - 1)
    BY <1>6, <1>7, Zenon
  <2> QED BY <2>1, <1>5, <1>6, Zenon
<1> QED BY <1>8, <1>9, Zenon DEF BitByBit

\* The n bits of b from f on are bits.
Bits(b, f, n) == \A k \in Nat : k < n => Bit(b, f + k) \in {0, 1}

\* Such a number has n binary digits.
LEMMA NumType ==
  ASSUME NEW b, NEW f \in Nat, NEW m \in Nat, Bits(b, f, m)
  PROVE  \A n \in Nat : n <= m => Num(b, f, n) \in Nat /\ Num(b, f, n) < Pow2[n]
<1>1. PICK G : G = {n \in Nat : n <= m => Num(b, f, n) \in Nat /\ Num(b, f, n) < Pow2[n]}
  BY Zenon
<1>0. BitByBit(b, f)
  BY NumLemma, Zenon
<1>2. 0 \in G
  <2>1. 0 \in Nat /\ 0 < 1
    OBVIOUS
  <2>2. Num(b, f, 0) = 0 /\ Pow2[0] = 1
    BY <1>0, PowLemma, Zenon DEF BitByBit
  <2> QED BY <2>1, <2>2, <1>1, Zenon
<1>3. ASSUME NEW n \in Nat, n \in G PROVE n + 1 \in G
  <2>1. n + 1 \in Nat /\ (n + 1 <= m => n <= m /\ n < m)
    OBVIOUS
  <2>2. ASSUME n + 1 <= m PROVE Num(b, f, n + 1) \in Nat /\ Num(b, f, n + 1) < Pow2[n + 1]
    <3>1. PICK v \in Nat, q \in Nat, c \in {0, 1} :
            v = Num(b, f, n) /\ q = Pow2[n] /\ c = Bit(b, f + n) /\ v < q
      BY <2>1, <2>2, <1>1, <1>3, PowType, Zenon DEF Bits
    <3>2. Num(b, f, n + 1) = 2 * v + c /\ Pow2[n + 1] = 2 * q
      BY <3>1, <1>0, PowLemma, Zenon DEF BitByBit
    <3>3. 2 * v + c \in Nat /\ 2 * v + c < 2 * q
      BY <3>1
    <3> QED BY <3>2, <3>3, Zenon
  <2> QED BY <2>1, <2>2, <1>1, Zenon
<1>4. \A n \in Nat : n \in G
  BY <1>2, <1>3, NumberInduction, Zenon
<1> QED BY <1>1, <1>4, Zenon

\* Bits within bits are bits.
LEMMA BitsWithin ==
  ASSUME NEW b, NEW f \in Nat, NEW m \in Nat, NEW n \in Nat, Bits(b, f, m + n)
  PROVE  Bits(b, f, m) /\ Bits(b, f + m, n)
<1>1. \A k \in Nat : /\ k < m => k < m + n
                     /\ k < n => m + k \in Nat /\ m + k < m + n /\ f + (m + k) = (f + m) + k
  OBVIOUS
<1> QED BY <1>1, Zenon DEF Bits

\* The number in m + n bits is the number in the first m, shifted, and the
\* number in the last n.
Splits(b, f, m, n) == Num(b, f, m + n) = Num(b, f, m) * Pow2[n] + Num(b, f + m, n)

\* Every run of bits splits, wherever it is cut.
LEMMA NumSplits ==
  ASSUME NEW b, NEW f \in Nat, NEW m \in Nat, NEW l \in Nat, Bits(b, f, m + l)
  PROVE  Splits(b, f, m, l)
<1>1. PICK G : G = {n \in Nat : n <= l =>
                      Num(b, f, m + n) = Num(b, f, m) * Pow2[n] + Num(b, f + m, n)}
  BY Zenon
<1>2. Bits(b, f, m) /\ Bits(b, f + m, l)
  BY BitsWithin, Zenon
<1>3. f + m \in Nat /\ m <= m
  OBVIOUS
<1>0. BitByBit(b, f) /\ BitByBit(b, f + m)
  BY <1>3, NumLemma, Zenon
<1>4. PICK a \in Nat : a = Num(b, f, m)
  BY <1>2, <1>3, NumType, Zenon
<1>5. 0 \in G
  <2>1. 0 \in Nat /\ m + 0 = m /\ a = a * 1 + 0
    OBVIOUS
  <2>2. Num(b, f + m, 0) = 0 /\ Pow2[0] = 1
    BY <1>0, PowLemma, Zenon DEF BitByBit
  <2> QED BY <2>1, <2>2, <1>1, <1>4, Zenon
<1>6. ASSUME NEW n \in Nat, n \in G PROVE n + 1 \in G
  <2>1. n + 1 \in Nat /\ m + n \in Nat /\ m + (n + 1) = (m + n) + 1
        /\ f + (m + n) = (f + m) + n /\ (n + 1 <= l => n <= l /\ n < l)
    OBVIOUS
  <2>2. ASSUME n + 1 <= l
        PROVE  Num(b, f, m + (n + 1)) = Num(b, f, m) * Pow2[n + 1] + Num(b, f + m, n + 1)
    <3>1. PICK v \in Nat, q \in Nat, c \in {0, 1} :
            v = Num(b, f + m, n) /\ q = Pow2[n] /\ c = Bit(b, (f + m) + n)
      <4>1. Num(b, f + m, n) \in Nat
        BY <2>1, <2>2, <1>2, <1>3, NumType, Zenon
      <4>2. Bit(b, (f + m) + n) \in {0, 1}
        BY <2>1, <2>2, <1>2, Zenon DEF Bits
      <4> QED BY <4>1, <4>2, PowType, Zenon
    <3>2. Num(b, f, m + n) = a * q + v
      BY <3>1, <2>1, <2>2, <1>1, <1>4, <1>6, Zenon
    <3>3. Num(b, f, (m + n) + 1) = 2 * (a * q + v) + c
      <4>1. Num(b, f, (m + n) + 1) = 2 * Num(b, f, m + n) + Bit(b, f + (m + n))
        BY <2>1, <1>0, Zenon DEF BitByBit
      <4> QED BY <4>1, <3>1, <3>2, <2>1, Zenon
    <3>4. Num(b, f + m, n + 1) = 2 * v + c /\ Pow2[n + 1] = 2 * q
      BY <3>1, <1>0, PowLemma, Zenon DEF BitByBit
    <3>5. 2 * (a * q + v) + c = a * (2 * q) + (2 * v + c)
      BY <3>1
    <3> QED BY <3>3, <3>4, <3>5, <2>1, <1>4, Zenon
  <2> QED BY <2>1, <2>2, <1>1, Zenon
<1>7. \A n \in Nat : n \in G
  BY <1>5, <1>6, NumberInduction, Zenon
<1>8. l <= l
  OBVIOUS
<1> QED BY <1>1, <1>7, <1>8, Zenon DEF Splits

\* So a shift right leaves the first m bits, and a mask the last n.
Parts(b, f, m, n) ==
  /\ Num(b, f, m + n) \div Pow2[n] = Num(b, f, m)
  /\ Num(b, f, m + n) % Pow2[n] = Num(b, f + m, n)

\* Every run of bits has these parts.
LEMMA ShiftAndMask ==
  ASSUME NEW b, NEW f \in Nat, NEW m \in Nat, NEW n \in Nat, Bits(b, f, m + n)
  PROVE  Parts(b, f, m, n)
<1>1. n <= n /\ m <= m /\ f + m \in Nat
  OBVIOUS
<1>2. Bits(b, f, m) /\ Bits(b, f + m, n)
  BY BitsWithin, Zenon
<1>3. PICK a \in Nat, v \in Nat, q \in Nat :
        a = Num(b, f, m) /\ v = Num(b, f + m, n) /\ q = Pow2[n] /\ v < q
  BY <1>1, <1>2, NumType, PowType, Zenon
<1>4. Num(b, f, m + n) = a * q + v
  <2>1. Splits(b, f, m, n)
    BY NumSplits, Zenon
  <2> QED BY <2>1, <1>3, Zenon DEF Splits
<1>5. q >= 1
  BY <1>3, PowType, Zenon
<1>6. (a * q + v) \div q = a /\ (a * q + v) % q = v
  BY <1>3, <1>5, DivLemma
<1> QED BY <1>3, <1>4, <1>6, Zenon DEF Parts

\* One bit more is twice the number and the bit.
LEMMA Halving ==
  ASSUME NEW x \in Nat, NEW y \in Nat, y >= 1
  PROVE  x \div y = 2 * (x \div (2 * y)) + ((x \div y) % 2)
<1>1. PICK z \in Nat : z = 2 * y /\ z >= 1
  OBVIOUS
<1>2. PICK q \in Nat, r \in Nat : q = x \div z /\ r = x % z
  BY <1>1
<1>3. x = z * q + r /\ r < z
  BY <1>1, <1>2
<1>6. x \div (2 * y) = q
  BY <1>1, <1>2, Zenon
<1>4. CASE r < y
  <2>1. PICK d \in Nat : d = 2 * q
    OBVIOUS
  <2>2. x = d * y + r
    <3>1. z * q = d * y
      BY <2>1, <1>1
    <3> QED BY <3>1, <1>3, Zenon
  <2>3. x \div y = d
    BY <2>2, <1>4, DivLemma
  <2>4. d % 2 = 0 /\ d = 2 * q + 0
    BY <2>1
  <2>5. d = 2 * q + (d % 2)
    BY <2>4, Zenon
  <2> QED BY <2>3, <2>5, <1>6, Zenon
<1>5. CASE r >= y
  <2>1. PICK d \in Nat, e \in Nat : d = 2 * q + 1 /\ e = r - y /\ e < y
    BY <1>1, <1>3, <1>5
  <2>2. x = d * y + e
    <3>1. z * q = (2 * q) * y /\ d * y = (2 * q) * y + y
      BY <2>1, <1>1
    <3>2. PICK a \in Nat : a = (2 * q) * y
      OBVIOUS
    <3> QED BY <3>1, <3>2, <2>1, <1>3
  <2>3. x \div y = d
    BY <2>1, <2>2, DivLemma
  <2>4. d % 2 = 1 /\ d = 2 * q + 1
    BY <2>1
  <2>5. d = 2 * q + (d % 2)
    BY <2>4, Zenon
  <2> QED BY <2>3, <2>5, <1>6, Zenon
<1> QED BY <1>4, <1>5, <1>3

\* The first n bits of byte j, which is x, are x shifted right.
FirstBits(b, j, x) ==
  \A n \in Nat : n <= BYTE => Num(b, j * BYTE, n) = x \div Pow2[BYTE - n]

\* Each bit is what the shift leaves of the byte, modulo 2.
LEMMA ByteBits ==
  ASSUME NEW b, NEW j \in Nat, NEW x \in Nat, x = b[j + 1], x < Pow2[BYTE]
  PROVE  FirstBits(b, j, x)
<1>1. PICK B \in Nat : B = BYTE /\ B >= 1
  BY ByteAssumption
<1>2. PICK f \in Nat : f = j * B
  <2>1. j * B \in Nat
    OBVIOUS
  <2> QED BY <2>1
<1>3. ASSUME NEW n \in Nat, n < B
      PROVE  Bit(b, f + n) = (x \div Pow2[B - 1 - n]) % 2
  <2>1. (f + n) \div B = j /\ (f + n) % B = n
    BY <1>1, <1>2, <1>3, DivLemma
  <2> QED BY <2>1, <1>1, Zenon DEF Bit
<1>4. BitByBit(b, f)
  BY NumLemma, Zenon
<1>5. PICK G : G = {n \in Nat : n <= B => Num(b, f, n) = x \div Pow2[B - n]}
  BY Zenon
<1>6. 0 \in G
  <2>1. 0 \in Nat /\ B - 0 = B
    OBVIOUS
  <2>4. Num(b, f, 0) = 0
    BY <1>4, Zenon DEF BitByBit
  <2>2. PICK q \in Nat : q = Pow2[B] /\ q >= 1
    BY PowType, Zenon
  <2>3. x \div q = 0
    <3>1. x < q
      BY <2>2, <1>1, Zenon
    <3>2. 0 * q + x = x
      BY <2>2
    <3> QED BY <3>1, <3>2, <2>2, DivLemma
  <2> QED BY <2>1, <2>2, <2>3, <2>4, <1>5, Zenon
<1>7. ASSUME NEW n \in Nat, n \in G PROVE n + 1 \in G
  <2>1. n + 1 \in Nat
    OBVIOUS
  <2>2. ASSUME n + 1 <= B PROVE Num(b, f, n + 1) = x \div Pow2[B - (n + 1)]
    <3>1. PICK k \in Nat : k = B - (n + 1) /\ k = B - 1 - n /\ k + 1 = B - n /\ n < B /\ n <= B
      BY <2>2
    <3>2. PICK q \in Nat : q = Pow2[k] /\ q >= 1
      BY PowType, Zenon
    <3>3. Pow2[B - n] = 2 * q
      BY <3>1, <3>2, PowLemma, Zenon
    <3>4. Num(b, f, n) = x \div (2 * q)
      BY <3>1, <3>3, <1>5, <1>7, Zenon
    <3>5. Bit(b, f + n) = (x \div q) % 2
      BY <3>1, <3>2, <1>3, Zenon
    <3>6. Num(b, f, n + 1) = 2 * Num(b, f, n) + Bit(b, f + n)
      BY <1>4, Zenon DEF BitByBit
    <3>7. x \div q = 2 * (x \div (2 * q)) + ((x \div q) % 2)
      BY <3>2, Halving, Zenon
    <3>8. Num(b, f, n + 1) = 2 * (x \div (2 * q)) + ((x \div q) % 2)
      BY <3>4, <3>5, <3>6, Zenon
    <3> QED BY <3>1, <3>2, <3>7, <3>8, Zenon
  <2> QED BY <2>1, <2>2, <1>5, Zenon
<1>8. \A n \in Nat : n \in G
  BY <1>6, <1>7, NumberInduction, Zenon
<1> QED BY <1>1, <1>2, <1>5, <1>8, Zenon DEF FirstBits

\* In whole words, every bit is one of a byte's.
LEMMA BufferBits ==
  ASSUME NEW b \in Buffers, NEW f \in Nat, NEW n \in Nat, f + n <= Len(b) * BYTE
  PROVE  Bits(b, f, n)
<1>1. PICK B \in Nat, L \in Nat : B = BYTE /\ L = Len(b) /\ B >= 1
  <2>1. PICK D : D = 0..(Pow2[BYTE] - 1)
    BY Zenon
  <2>2. b \in Seq(D)
    BY <2>1, BuffersAssumption, Zenon
  <2>3. Len(b) \in Nat
    BY <2>2
  <2> QED BY <2>3, ByteAssumption
<1>2. SUFFICES ASSUME NEW i \in Nat, i < n PROVE Bit(b, f + i) \in {0, 1}
  BY Zenon DEF Bits
<1>3. PICK k \in Nat : k = f + i /\ k < L * B
  <2>1. PICK a \in Nat : a = L * B
    OBVIOUS
  <2>2. f + n <= a
    BY <2>1, <1>1, Zenon
  <2> QED BY <2>1, <2>2, <1>2
<1>4. PICK j \in Nat, r \in Nat : j = k \div B /\ r = k % B
  BY <1>1
<1>5. k = B * j + r /\ r < B
  BY <1>1, <1>4
<1>6. j < L
  <2>1. SUFFICES ASSUME j >= L PROVE FALSE
    OBVIOUS
  <2>2. B * j >= L * B
    BY <2>1
  <2>3. PICK a, c \in Nat : a = B * j /\ c = L * B
    OBVIOUS
  <2> QED BY <2>2, <2>3, <1>3, <1>5
<1>7. PICK x \in Nat : x = b[j + 1]
  <2>1. PICK D : D = 0..(Pow2[BYTE] - 1)
    BY Zenon
  <2>2. b \in Seq(D) /\ j + 1 \in 1..Len(b)
    BY <2>1, <1>1, <1>6, BuffersAssumption
  <2>3. b[j + 1] \in D
    BY <2>2
  <2> QED BY <2>1, <2>3
<1>8. PICK q \in Nat : q = Pow2[B - 1 - r] /\ q >= 1
  <2>1. B - 1 - r \in Nat
    BY <1>5
  <2> QED BY <2>1, PowType, Zenon
<1>9. (x \div q) % 2 \in {0, 1}
  BY <1>8
<1>10. Bit(b, k) = (x \div q) % 2
  BY <1>1, <1>4, <1>7, <1>8, Zenon DEF Bit
<1> QED BY <1>3, <1>9, <1>10, Zenon

\* A byte is the number in its bits.
LEMMA ByteNumber ==
  ASSUME NEW b \in Buffers, NEW j \in Nat, j < Len(b)
  PROVE  b[j + 1] \in Nat /\ Num(b, j * BYTE, BYTE) = b[j + 1]
<1>1. PICK P \in Nat : P = Pow2[BYTE]
  BY ByteAssumption, PowType
<1>2. PICK x \in Nat : x = b[j + 1] /\ x < P
  <2>1. PICK D : D = 0..(P - 1)
    BY Zenon
  <2>2. b \in Seq(D) /\ j + 1 \in 1..Len(b)
    BY <2>1, <1>1, BuffersAssumption
  <2>3. b[j + 1] \in D
    BY <2>2
  <2> QED BY <2>1, <2>3
<1>3. BYTE \in Nat /\ BYTE <= BYTE /\ BYTE - BYTE = 0
  BY ByteAssumption
<1>4. x < Pow2[BYTE]
  BY <1>1, <1>2, Zenon
<1>5. FirstBits(b, j, x)
  BY <1>2, <1>4, ByteBits, Zenon
<1>6. Num(b, j * BYTE, BYTE) = x \div Pow2[BYTE - BYTE]
  BY <1>3, <1>5, Zenon DEF FirstBits
<1>7. x \div 1 = x
  OBVIOUS
<1>8. Pow2[BYTE - BYTE] = 1
  BY <1>3, PowLemma, Zenon
<1> QED BY <1>2, <1>6, <1>7, <1>8, Zenon

\* The two bytes of a word, the first shifted, are the number in its bits;
\* the code reads a word only when a bit of it was asked for.
LEMMA WordNumber ==
  ASSUME buffer \in Buffers, NEW w \in Nat, w * WORD_LENGTH < Len(buffer) * BYTE
  PROVE  /\ (w + 1) * WORD_LENGTH <= Len(buffer) * BYTE
         /\ WordAt(w) = Num(buffer, w * WORD_LENGTH, WORD_LENGTH)
<1>1. PICK B \in Nat, L \in Nat : B = BYTE /\ L = Len(buffer) /\ B >= 1 /\ L % 2 = 0
  <2>1. PICK D : D = 0..(Pow2[BYTE] - 1)
    BY Zenon
  <2>2. buffer \in Seq(D) /\ Len(buffer) % 2 = 0
    BY <2>1, BuffersAssumption, Zenon
  <2>3. Len(buffer) \in Nat
    BY <2>2
  <2> QED BY <2>2, <2>3, ByteAssumption
<1>2. PICK h \in Nat : L = 2 * h
  <2>1. L = 2 * (L \div 2) /\ L \div 2 \in Nat
    BY <1>1
  <2> QED BY <2>1, Zenon
<1>3. WORD_LENGTH = 2 * B
  BY <1>1, Zenon DEF WORD_LENGTH
<1>4. w * (2 * B) < L * B
  BY <1>1, <1>3, Zenon
<1>5. w < h
  <2>1. SUFFICES ASSUME w >= h PROVE FALSE
    OBVIOUS
  <2>2. w * B >= h * B /\ w * (2 * B) = 2 * (w * B) /\ L * B = 2 * (h * B)
    BY <2>1, <1>2
  <2>3. PICK a, c \in Nat : a = w * B /\ c = h * B
    OBVIOUS
  <2> QED BY <2>2, <2>3, <1>4
<1>6. (w + 1) * (2 * B) <= L * B
  <2>1. (w + 1) * B <= h * B /\ (w + 1) * (2 * B) = 2 * ((w + 1) * B) /\ L * B = 2 * (h * B)
    BY <1>2, <1>5
  <2>2. PICK a, c \in Nat : a = (w + 1) * B /\ c = h * B
    OBVIOUS
  <2> QED BY <2>1, <2>2
<1>7. PICK j \in Nat : j = 2 * w /\ j < L /\ j + 1 < L /\ (j + 1) + 1 = 2 * w + 2
  BY <1>2, <1>5
<1>8. PICK f \in Nat : f = w * WORD_LENGTH /\ f = j * B /\ f + B = (j + 1) * B
  <2>1. w * (2 * B) = j * B /\ j * B \in Nat /\ j * B + B = (j + 1) * B
    BY <1>7
  <2> QED BY <2>1, <1>3, Zenon
<1>9. f + (B + B) <= L * B
  <2>1. (w + 1) * (2 * B) = w * (2 * B) + (B + B)
    OBVIOUS
  <2>2. PICK a, c \in Nat : a = w * (2 * B) /\ c = L * B
    OBVIOUS
  <2>3. f = a
    BY <2>2, <1>3, <1>8, Zenon
  <2> QED BY <2>1, <2>2, <2>3, <1>6
<1>10. Bits(buffer, f, B + B)
  <2>1. B + B \in Nat
    OBVIOUS
  <2>2. f + (B + B) <= Len(buffer) * BYTE
    BY <1>1, <1>9, Zenon
  <2> QED BY <2>1, <2>2, BufferBits, Zenon
<1>11. Splits(buffer, f, B, B)
  BY <1>10, NumSplits, Zenon
<1>12. Num(buffer, f, B) = buffer[j + 1]
  BY <1>1, <1>7, <1>8, ByteNumber, Zenon
<1>13. Num(buffer, f + B, B) = buffer[(j + 1) + 1]
  <2>1. j + 1 \in Nat
    OBVIOUS
  <2>2. Num(buffer, (j + 1) * BYTE, BYTE) = buffer[(j + 1) + 1]
    BY <2>1, <1>1, <1>7, ByteNumber, Zenon
  <2> QED BY <2>2, <1>1, <1>8, Zenon
<1>14. Num(buffer, f, B + B) = buffer[2 * w + 1] * Pow2[BYTE] + buffer[2 * w + 2]
  BY <1>1, <1>7, <1>11, <1>12, <1>13, Zenon DEF Splits
<1>15. B + B = 2 * B
  OBVIOUS
<1>16. WordAt(w) = Num(buffer, w * WORD_LENGTH, WORD_LENGTH)
  BY <1>3, <1>8, <1>14, <1>15, Zenon DEF WordAt
<1> QED BY <1>1, <1>3, <1>6, <1>16, Zenon

\* A word shifted right by n, and masked with n bits.
WordParts(w, m, n) ==
  /\ Bits(buffer, w * WORD_LENGTH, m + n)
  /\ WordAt(w) = Num(buffer, w * WORD_LENGTH, WORD_LENGTH)
  /\ WordAt(w) \div Pow2[n] = Num(buffer, w * WORD_LENGTH, m)
  /\ WordAt(w) % Pow2[n] = Num(buffer, w * WORD_LENGTH + m, n)

\* Every word in which a bit was asked for has these parts.
LEMMA WordBits ==
  ASSUME buffer \in Buffers, NEW w \in Nat, w * WORD_LENGTH < Len(buffer) * BYTE,
         NEW m \in Nat, NEW n \in Nat, m + n = WORD_LENGTH
  PROVE  WordParts(w, m, n)
<1>1. PICK W \in Nat : W = WORD_LENGTH /\ W = m + n
  <2>1. m + n \in Nat
    OBVIOUS
  <2> QED BY <2>1, Zenon
<1>2. PICK f \in Nat : f = w * W /\ f + (m + n) = (w + 1) * W
  <2>1. w * W \in Nat /\ w * W + W = (w + 1) * W
    OBVIOUS
  <2> QED BY <2>1, <1>1, Zenon
<1>3. /\ f + (m + n) <= Len(buffer) * BYTE
      /\ WordAt(w) = Num(buffer, f, m + n)
  BY <1>1, <1>2, WordNumber, Zenon
<1>4. m + n \in Nat
  OBVIOUS
<1>5. Bits(buffer, f, m + n)
  BY <1>3, <1>4, BufferBits, Zenon
<1>6. /\ Num(buffer, f, m + n) \div Pow2[n] = Num(buffer, f, m)
      /\ Num(buffer, f, m + n) % Pow2[n] = Num(buffer, f + m, n)
  <2>1. Parts(buffer, f, m, n)
    BY <1>5, ShiftAndMask, Zenon
  <2> QED BY <2>1, Zenon DEF Parts
<1> QED BY <1>1, <1>2, <1>3, <1>5, <1>6, Zenon DEF WordParts

\* A shift left that stays within a double word loses no bit.
LEMMA ShiftLemma ==
  ASSUME NEW v \in Nat, NEW k \in Nat, NEW n \in Nat, v < Pow2[k],
         k + n <= DWORD_LENGTH
  PROVE  ShiftLeft(v, n) = v * Pow2[n]
<1>1. PICK d \in Nat : (k + n) + d = DWORD_LENGTH
  <2>1. PICK B \in Nat : B = BYTE
    BY ByteAssumption
  <2>2. DWORD_LENGTH = 2 * (2 * B)
    BY <2>1, Zenon DEF DWORD_LENGTH, WORD_LENGTH
  <2>3. k + n <= 2 * (2 * B)
    BY <2>2, Zenon
  <2>4. PICK e \in Nat : (k + n) + e = 2 * (2 * B)
    <3>1. 2 * (2 * B) - (k + n) \in Nat /\ (k + n) + (2 * (2 * B) - (k + n)) = 2 * (2 * B)
      BY <2>3
    <3> QED BY <3>1, Zenon
  <2> QED BY <2>2, <2>4, Zenon
<1>2. PICK a \in Nat, q \in Nat, c \in Nat :
        a = Pow2[k] /\ q = Pow2[n] /\ c = Pow2[d] /\ v < a /\ q >= 1 /\ c >= 1
  BY PowType, Zenon
<1>3. Pow2[k + n] = a * q
  BY <1>2, PowSum, Zenon
<1>4. Pow2[DWORD_LENGTH] = (a * q) * c
  <2>1. k + n \in Nat
    OBVIOUS
  <2>2. Pow2[(k + n) + d] = Pow2[k + n] * Pow2[d]
    BY <2>1, PowSum, Zenon
  <2> QED BY <2>2, <1>1, <1>2, <1>3, Zenon
<1>5. PICK x \in Nat, y \in Nat, P \in Nat : x = v * q /\ y = a * q /\ P = y * c
  <2>1. \A i, j \in Nat : i * j \in Nat
    OBVIOUS
  <2> QED BY <2>1, Zenon
<1>6. x < y
  <2>1. v + 1 <= a
    BY <1>2
  <2>2. (v + 1) * q <= a * q /\ (v + 1) * q = v * q + q
    BY <2>1
  <2> QED BY <2>2, <1>2, <1>5
<1>7. y <= P
  <2>1. y * 1 <= y * c
    BY <1>2
  <2> QED BY <2>1, <1>5
<1>8. x % P = x
  <2>1. x < P /\ 0 * P + x = x
    BY <1>6, <1>7
  <2> QED BY <2>1, DivLemma
<1>9. Pow2[DWORD_LENGTH] = P
  BY <1>4, <1>5, Zenon
<1> QED BY <1>2, <1>5, <1>8, <1>9, Zenon DEF ShiftLeft

-----------------------------------------------------------------------------
\* The first of the bits asked for.
FirstBit == startWord * WORD_LENGTH + startBit

\* The arguments are those of a call.
CallArgs ==
  /\ buffer \in Buffers /\ startWord \in Nat
  /\ startBit \in Nat /\ startBit < WORD_LENGTH
  /\ len \in Nat /\ len > 0 /\ len <= DWORD_LENGTH
  /\ FirstBit + len <= Len(buffer) * BYTE

\* In the loop, value is the number in the bits before word wordOffset.
InLoop ==
  /\ lenLeft \in Nat /\ lenLeft <= len /\ wordOffset \in Nat
  /\ wordOffset * WORD_LENGTH + lenLeft = FirstBit + len
  /\ value = Num(buffer, FirstBit, len - lenLeft)

AtStart == value = 0 /\ lenLeft = len /\ wordOffset = startWord

AtEnd ==
  /\ value = Num(buffer, FirstBit, len)
  /\ wordOffset \in Nat
  /\ wordOffset * WORD_LENGTH < FirstBit + len + WORD_LENGTH

ExtractInv ==
  /\ CallArgs
  /\ \/ phase = "start" /\ AtStart
     \/ phase = "loop" /\ InLoop
     \/ phase = "done" /\ AtEnd

\* extractDword is called with such arguments.
LEMMA CallsStart == ExtractInit => ExtractInv
<1> SUFFICES ASSUME ExtractInit PROVE ExtractInv
  OBVIOUS
<1>1. PICK r \in Requests : startWord = r[1] /\ startBit = r[2] /\ len = r[3]
  BY Zenon DEF ExtractInit
<1>2. buffer \in Buffers /\ phase = "start" /\ AtStart
  BY Zenon DEF ExtractInit, AtStart
<1>3. PICK W, D : W = WORD_LENGTH /\ D = DWORD_LENGTH
  BY Zenon
<1>4. r \in Nat \X (0..(W - 1)) \X (1..D) /\ W \in Nat /\ D \in Nat
  <2>1. r \in Nat \X (0..(W - 1)) \X (1..D)
    BY <1>3, RequestsAssumption, Zenon
  <2>2. W \in Nat /\ D \in Nat
    BY <1>3, ByteAssumption DEF WORD_LENGTH, DWORD_LENGTH
  <2> QED BY <2>1, <2>2, Zenon
<1>5. r[1] \in Nat /\ r[2] \in 0..(W - 1) /\ r[3] \in 1..D
  BY <1>4
<1>6. /\ r[2] \in Nat /\ r[2] < W
      /\ r[3] \in Nat /\ r[3] > 0 /\ r[3] <= D
  BY <1>4, <1>5
<1>7. r[1] * WORD_LENGTH + r[2] + r[3] <= Len(buffer) * BYTE
  BY <1>2, RequestsAssumption, Zenon
<1>8. FirstBit + len <= Len(buffer) * BYTE
  BY <1>1, <1>7, Zenon DEF FirstBit
<1>9. CallArgs
  BY <1>1, <1>2, <1>3, <1>5, <1>6, <1>8, Zenon DEF CallArgs
<1> QED BY <1>2, <1>9, Zenon DEF ExtractInv

\* No step changes the arguments.
LEMMA ArgsStay ==
  ASSUME CallArgs, UNCHANGED args
  PROVE  /\ CallArgs' /\ FirstBit' = FirstBit
         /\ buffer' = buffer /\ startWord' = startWord /\ startBit' = startBit /\ len' = len
<1>1. buffer' = buffer /\ startWord' = startWord /\ startBit' = startBit /\ len' = len
  BY DEF args
<1>2. FirstBit' = FirstBit
  BY <1>1, Zenon DEF FirstBit
<1>3. CallArgs'
  BY <1>1, <1>2, Zenon DEF CallArgs
<1> QED BY <1>1, <1>2, <1>3, Zenon

\* The widths are numbers.
LEMMA Widths == WORD_LENGTH \in Nat /\ WORD_LENGTH > 0 /\ DWORD_LENGTH \in Nat
BY ByteAssumption DEF WORD_LENGTH, DWORD_LENGTH

\* The bits asked for begin at a bit of the buffer, in a word of it.
LEMMA StartLemma ==
  ASSUME CallArgs
  PROVE  /\ FirstBit \in Nat /\ Bits(buffer, FirstBit, len)
         /\ startWord * WORD_LENGTH < Len(buffer) * BYTE
         /\ startWord * WORD_LENGTH <= FirstBit
<1>1. PICK W \in Nat, a \in Nat : W = WORD_LENGTH /\ a = startWord * W
  <2>1. \A i, j \in Nat : i * j \in Nat
    OBVIOUS
  <2> QED BY <2>1, Widths, Zenon DEF CallArgs
<1>2. FirstBit = a + startBit /\ startBit \in Nat /\ len \in Nat /\ len > 0
      /\ FirstBit + len <= Len(buffer) * BYTE /\ buffer \in Buffers
  BY <1>1, Zenon DEF FirstBit, CallArgs
<1>3. PICK z : z = Len(buffer) * BYTE
  BY Zenon
<1>4. z \in Nat
  <2>1. PICK D : D = 0..(Pow2[BYTE] - 1)
    BY Zenon
  <2>2. buffer \in Seq(D)
    BY <2>1, <1>2, BuffersAssumption, Zenon
  <2>3. Len(buffer) \in Nat /\ BYTE \in Nat
    BY <2>2, ByteAssumption
  <2>4. \A i, j \in Nat : i * j \in Nat
    OBVIOUS
  <2> QED BY <2>3, <2>4, <1>3, Zenon
<1>5. FirstBit \in Nat /\ a <= FirstBit /\ (FirstBit + len <= z => a < z)
  BY <1>2, <1>4
<1>6. Bits(buffer, FirstBit, len)
  BY <1>2, <1>5, BufferBits, Zenon
<1> QED BY <1>1, <1>2, <1>3, <1>5, <1>6, Zenon

\* The bits of one word, shifted right and masked.
LEMMA OneWordLemma ==
  ASSUME ExtractInv, OneWord
  PROVE  ExtractInv'
<1>1. /\ CallArgs /\ AtStart /\ UNCHANGED args /\ wordOffset' = wordOffset
      /\ phase' = "done" /\ startBit + len <= WORD_LENGTH
      /\ value' = (WordAt(startWord) \div Pow2[WORD_LENGTH - startBit - len]) % Pow2[len]
  <2>1. phase = "start"
    BY Zenon DEF OneWord
  <2>2. "start" # "loop" /\ "start" # "done"
    OBVIOUS
  <2> QED BY <2>1, <2>2, Zenon DEF ExtractInv, OneWord, Mask
<1>2. PICK W \in Nat, s \in Nat, l \in Nat, w \in Nat :
        W = WORD_LENGTH /\ s = startBit /\ l = len /\ w = startWord
  BY <1>1, Widths, Zenon DEF CallArgs
<1>3. PICK m \in Nat, n \in Nat : m = s + l /\ n = W - s - l /\ m + n = W
  BY <1>1, <1>2
<1>4. buffer \in Buffers /\ w * W < Len(buffer) * BYTE
  BY <1>1, <1>2, StartLemma, Zenon DEF CallArgs
<1>5. Bits(buffer, w * W, m + n) /\ WordAt(w) \div Pow2[n] = Num(buffer, w * W, m)
  <2>1. w * WORD_LENGTH < Len(buffer) * BYTE /\ m + n = WORD_LENGTH
    BY <1>2, <1>3, <1>4, Zenon
  <2>2. WordParts(w, m, n)
    BY <2>1, <1>4, WordBits, Zenon
  <2> QED BY <2>2, <1>2, Zenon DEF WordParts
<1>6. PICK f \in Nat : f = w * W
  <2>1. w * W \in Nat
    OBVIOUS
  <2> QED BY <2>1, Zenon
<1>7. Bits(buffer, f, s + l)
  BY <1>3, <1>5, <1>6, BitsWithin, Zenon
<1>8. Parts(buffer, f, s, l)
  BY <1>7, ShiftAndMask, Zenon
<1>9. value' = Num(buffer, f + s, l)
  <2>1. value' = Num(buffer, f, s + l) % Pow2[l]
    BY <1>1, <1>2, <1>3, <1>5, <1>6, Zenon
  <2> QED BY <2>1, <1>8, Zenon DEF Parts
<1>10. f + s = FirstBit
  BY <1>2, <1>6, Zenon DEF FirstBit
<1>11. /\ CallArgs' /\ FirstBit' = FirstBit /\ buffer' = buffer /\ len' = len
  BY <1>1, ArgsStay, Zenon
<1>12. wordOffset \in Nat /\ wordOffset * W < FirstBit + len + W
  <2>1. wordOffset = w /\ FirstBit = f + s /\ len = l
    BY <1>1, <1>2, <1>10, Zenon DEF AtStart
  <2>2. f < f + s + l + W
    <3>1. W > 0
      BY <1>2, Widths, Zenon
    <3> QED BY <3>1
  <2> QED BY <2>1, <2>2, <1>6, Zenon
<1>13. AtEnd'
  BY <1>1, <1>2, <1>9, <1>10, <1>11, <1>12, Zenon DEF AtEnd
<1> QED BY <1>1, <1>11, <1>13, Zenon DEF ExtractInv

\* The bits of the first of several words, masked.
LEMMA FirstWordLemma ==
  ASSUME ExtractInv, FirstWord
  PROVE  ExtractInv'
<1>1. /\ CallArgs /\ AtStart /\ UNCHANGED args /\ wordOffset' = wordOffset + 1
      /\ phase' = "loop" /\ startBit + len > WORD_LENGTH
      /\ value' = WordAt(wordOffset) % Pow2[WORD_LENGTH - startBit]
      /\ lenLeft' = lenLeft - (WORD_LENGTH - startBit)
  <2>1. phase = "start"
    BY Zenon DEF FirstWord
  <2>2. "start" # "loop" /\ "start" # "done"
    OBVIOUS
  <2> QED BY <2>1, <2>2, Zenon DEF ExtractInv, FirstWord, Mask
<1>2. PICK W \in Nat, s \in Nat, l \in Nat, w \in Nat :
        /\ W = WORD_LENGTH /\ s = startBit /\ l = len /\ w = startWord
        /\ s < W /\ s + l > W
  BY <1>1, Widths, Zenon DEF CallArgs
<1>3. PICK n \in Nat, k \in Nat : n = W - s /\ s + n = W /\ k = l - n /\ k <= l /\ l - k = n
  BY <1>2
<1>4. buffer \in Buffers /\ w * W < Len(buffer) * BYTE
  BY <1>1, <1>2, StartLemma, Zenon DEF CallArgs
<1>5. WordAt(w) % Pow2[n] = Num(buffer, w * W + s, n)
  <2>1. w * WORD_LENGTH < Len(buffer) * BYTE /\ s + n = WORD_LENGTH
    BY <1>2, <1>3, <1>4, Zenon
  <2>2. WordParts(w, s, n)
    BY <2>1, <1>4, WordBits, Zenon
  <2> QED BY <2>2, <1>2, Zenon DEF WordParts
<1>6. wordOffset = w /\ lenLeft = l
  BY <1>1, <1>2, Zenon DEF AtStart
<1>7. w * W + s = FirstBit
  BY <1>2, Zenon DEF FirstBit
<1>8. value' = Num(buffer, FirstBit, l - k)
  BY <1>1, <1>2, <1>3, <1>5, <1>6, <1>7, Zenon
<1>9. lenLeft' = k /\ wordOffset' = w + 1
  BY <1>1, <1>2, <1>3, <1>6, Zenon
<1>10. w + 1 \in Nat /\ (w + 1) * W + k = (w * W + s) + l
  <2>1. PICK f \in Nat : f = w * W
    <3>1. w * W \in Nat
      OBVIOUS
    <3> QED BY <3>1, Zenon
  <2>2. (w + 1) * W = f + W
    BY <2>1
  <2>3. (f + W) + k = (f + s) + l
    BY <1>3
  <2> QED BY <2>1, <2>2, <2>3
<1>11. /\ CallArgs' /\ FirstBit' = FirstBit /\ buffer' = buffer /\ len' = len
  BY <1>1, ArgsStay, Zenon
<1>12. InLoop'
  BY <1>2, <1>3, <1>7, <1>8, <1>9, <1>10, <1>11, Zenon DEF InLoop
<1> QED BY <1>1, <1>11, <1>12, Zenon DEF ExtractInv

\* In the loop, the next word holds the next of the bits asked for.
LEMMA LoopLemma ==
  ASSUME CallArgs, InLoop, lenLeft > 0
  PROVE  /\ wordOffset * WORD_LENGTH < Len(buffer) * BYTE
         /\ wordOffset * WORD_LENGTH = FirstBit + (len - lenLeft)
<1>0. PICK z : z = Len(buffer) * BYTE
  BY Zenon
<1>1. PICK f \in Nat, l \in Nat, k \in Nat : f = FirstBit /\ l = len /\ k = lenLeft
  BY StartLemma, Zenon DEF CallArgs, InLoop
<1>2. PICK a \in Nat : a = wordOffset * WORD_LENGTH
  <2>1. \A i, j \in Nat : i * j \in Nat
    OBVIOUS
  <2> QED BY <2>1, Widths, Zenon DEF InLoop
<1>3. a + k = f + l /\ f + l <= z /\ k > 0
  BY <1>0, <1>1, <1>2, Zenon DEF InLoop, CallArgs
<1>4. z \in Nat
  <2>1. PICK D : D = 0..(Pow2[BYTE] - 1)
    BY Zenon
  <2>2. buffer \in Seq(D)
    BY <2>1, BuffersAssumption, Zenon DEF CallArgs
  <2>3. Len(buffer) \in Nat /\ BYTE \in Nat
    BY <2>2, ByteAssumption
  <2>4. \A i, j \in Nat : i * j \in Nat
    OBVIOUS
  <2> QED BY <2>3, <2>4, <1>0, Zenon
<1>5. a < z /\ a = f + (l - k)
  BY <1>3, <1>4
<1> QED BY <1>0, <1>1, <1>2, <1>5, Zenon

\* n more bits are shifted in below those already in value.
ShiftedIn(d, n) == ShiftLeft(value, n) + d = Num(buffer, FirstBit, (len - lenLeft) + n)

\* The shift loses nothing: what is returned fits a double word.
LEMMA ShiftIn ==
  ASSUME CallArgs, InLoop, NEW n \in Nat, n <= lenLeft, NEW d,
         d = Num(buffer, wordOffset * WORD_LENGTH, n), lenLeft > 0
  PROVE  ShiftedIn(d, n)
<1>1. PICK f \in Nat, k \in Nat, r \in Nat :
        /\ f = FirstBit /\ k = len - lenLeft /\ len = (k + n) + r
        /\ k <= len /\ k + n <= len /\ len \in Nat
  <2>1. len \in Nat /\ lenLeft \in Nat /\ lenLeft <= len
    BY Zenon DEF CallArgs, InLoop
  <2>2. PICK i \in Nat, j \in Nat : i = len - lenLeft /\ j = lenLeft - n
    BY <2>1
  <2>3. len = (i + n) + j /\ i <= len /\ i + n <= len
    BY <2>1, <2>2
  <2>4. FirstBit \in Nat
    BY StartLemma, Zenon
  <2> QED BY <2>1, <2>2, <2>3, <2>4, Zenon
<1>2. Bits(buffer, f, k + n)
  <2>1. Bits(buffer, f, (k + n) + r) /\ k + n \in Nat
    BY <1>1, StartLemma
  <2> QED BY <2>1, BitsWithin, Zenon
<1>3. Bits(buffer, f, k)
  BY <1>2, BitsWithin, Zenon
<1>4. PICK v \in Nat : v = value /\ v = Num(buffer, f, k) /\ v < Pow2[k]
  <2>1. k <= k
    OBVIOUS
  <2> QED BY <2>1, <1>1, <1>3, NumType, Zenon DEF InLoop
<1>5. k + n <= DWORD_LENGTH
  <2>1. len <= DWORD_LENGTH
    BY Zenon DEF CallArgs
  <2> QED BY <2>1, <1>1, Widths
<1>6. ShiftLeft(v, n) = v * Pow2[n]
  BY <1>4, <1>5, ShiftLemma, Zenon
<1>7. wordOffset * WORD_LENGTH = f + k
  BY <1>1, LoopLemma, Zenon
<1>8. Splits(buffer, f, k, n)
  BY <1>2, NumSplits, Zenon
<1>9. Num(buffer, f, k + n) = v * Pow2[n] + d
  BY <1>4, <1>7, <1>8, Zenon DEF Splits
<1> QED BY <1>1, <1>4, <1>6, <1>9, Zenon DEF ShiftedIn

\* A whole word is shifted in.
LEMMA FullWordLemma ==
  ASSUME ExtractInv, FullWord
  PROVE  ExtractInv'
<1>1. /\ CallArgs /\ InLoop /\ UNCHANGED args /\ wordOffset' = wordOffset + 1
      /\ phase' = "loop" /\ lenLeft >= WORD_LENGTH
      /\ value' = ShiftLeft(value, WORD_LENGTH) + WordAt(wordOffset)
      /\ lenLeft' = lenLeft - WORD_LENGTH
  <2>1. phase = "loop"
    BY Zenon DEF FullWord
  <2>2. "loop" # "start" /\ "loop" # "done"
    OBVIOUS
  <2>3. phase' = phase
    BY DEF FullWord
  <2> QED BY <2>1, <2>2, <2>3, Zenon DEF ExtractInv, FullWord
<1>2. PICK W \in Nat, l \in Nat, k \in Nat, w \in Nat, f \in Nat :
        /\ W = WORD_LENGTH /\ l = len /\ k = lenLeft /\ w = wordOffset /\ f = FirstBit
        /\ W > 0 /\ k >= W /\ k <= l /\ w * W + k = f + l
  BY <1>1, Widths, StartLemma, Zenon DEF CallArgs, InLoop
<1>3. lenLeft > 0 /\ W <= lenLeft /\ W + 0 = W /\ 0 \in Nat
  <2>1. k > 0 /\ W <= k
    BY <1>2
  <2> QED BY <2>1, <1>2
<1>4. w * WORD_LENGTH < Len(buffer) * BYTE
  BY <1>1, <1>2, <1>3, LoopLemma, Zenon
<1>5. WordAt(w) = Num(buffer, w * W, W)
  <2>1. WordParts(w, W, 0)
    BY <1>1, <1>2, <1>3, <1>4, WordBits, Zenon DEF CallArgs
  <2> QED BY <2>1, <1>2, Zenon DEF WordParts
<1>6. ShiftedIn(WordAt(w), W)
  <2>1. PICK d : d = WordAt(w) /\ d = Num(buffer, wordOffset * WORD_LENGTH, W)
    BY <1>2, <1>5, Zenon
  <2>2. ShiftedIn(d, W)
    BY <2>1, <1>1, <1>3, ShiftIn, Zenon
  <2> QED BY <2>1, <2>2, Zenon
<1>7. value' = Num(buffer, f, (l - k) + W)
  BY <1>1, <1>2, <1>6, Zenon DEF ShiftedIn
<1>8. PICK j \in Nat : j = k - W /\ j <= l /\ (l - k) + W = l - j /\ j + W = k
  BY <1>2
<1>9. w + 1 \in Nat /\ (w + 1) * W + j = f + l
  <2>1. PICK a \in Nat : a = w * W
    <3>1. w * W \in Nat
      OBVIOUS
    <3> QED BY <3>1, Zenon
  <2>2. (w + 1) * W = a + W
    BY <2>1
  <2>3. (a + W) + j = a + k
    BY <1>8
  <2> QED BY <2>1, <2>2, <2>3, <1>2
<1>10. /\ CallArgs' /\ FirstBit' = FirstBit /\ buffer' = buffer /\ len' = len
  BY <1>1, ArgsStay, Zenon
<1>11. lenLeft' = j /\ wordOffset' = w + 1
  BY <1>1, <1>2, <1>8, Zenon
<1>12. InLoop'
  BY <1>2, <1>7, <1>8, <1>9, <1>10, <1>11, Zenon DEF InLoop
<1> QED BY <1>1, <1>10, <1>12, Zenon DEF ExtractInv

\* The bits that are left are the first ones of the next word; when none is
\* left, that word is not read.
LEMMA LastBitsLemma ==
  ASSUME ExtractInv, LastBits
  PROVE  ExtractInv'
<1>1. /\ CallArgs /\ InLoop /\ UNCHANGED args /\ phase' = "done" /\ lenLeft < WORD_LENGTH
      /\ \/ /\ lenLeft > 0 /\ wordOffset' = wordOffset + 1
            /\ value' = ShiftLeft(value, lenLeft)
                          + WordAt(wordOffset) \div Pow2[WORD_LENGTH - lenLeft]
         \/ lenLeft <= 0 /\ value' = value /\ wordOffset' = wordOffset
  <2>1. phase = "loop"
    BY Zenon DEF LastBits
  <2>2. "loop" # "start" /\ "loop" # "done"
    OBVIOUS
  <2>3. CallArgs /\ InLoop
    BY <2>1, <2>2, Zenon DEF ExtractInv
  <2>4. UNCHANGED <<value, wordOffset>> => value' = value /\ wordOffset' = wordOffset
    OBVIOUS
  <2> QED BY <2>3, <2>4, Zenon DEF LastBits
<1>2. PICK W \in Nat, l \in Nat, k \in Nat, w \in Nat, f \in Nat :
        /\ W = WORD_LENGTH /\ l = len /\ k = lenLeft /\ w = wordOffset /\ f = FirstBit
        /\ W > 0 /\ k < W /\ k <= l /\ w * W + k = f + l
  BY <1>1, Widths, StartLemma, Zenon DEF CallArgs, InLoop
<1>3. PICK a \in Nat : a = w * W /\ a + k = f + l /\ (w + 1) * W = a + W
  <2>1. w * W \in Nat /\ (w + 1) * W = w * W + W
    OBVIOUS
  <2> QED BY <2>1, <1>2, Zenon
<1>4. /\ CallArgs' /\ FirstBit' = FirstBit /\ buffer' = buffer /\ len' = len
  BY <1>1, ArgsStay, Zenon
<1>5. CASE lenLeft > 0
  <2>1. /\ wordOffset' = w + 1
        /\ value' = ShiftLeft(value, k) + WordAt(w) \div Pow2[W - k]
    <3>1. ~(lenLeft <= 0)
      BY <1>2, <1>5
    <3> QED BY <3>1, <1>1, <1>2, Zenon
  <2>2. PICK n \in Nat : n = W - k /\ k + n = W /\ k <= k /\ (l - k) + k = l
    BY <1>2
  <2>3. w * WORD_LENGTH < Len(buffer) * BYTE
    BY <1>1, <1>2, <1>5, LoopLemma, Zenon
  <2>4. WordParts(w, k, n)
    BY <2>2, <2>3, <1>1, <1>2, WordBits, Zenon DEF CallArgs
  <2>5. PICK d : /\ d = WordAt(w) \div Pow2[n]
                 /\ d = Num(buffer, wordOffset * WORD_LENGTH, k)
    BY <2>4, <1>2, Zenon DEF WordParts
  <2>6. k <= lenLeft
    BY <2>2, <1>2, Zenon
  <2>7. ShiftedIn(d, k)
    BY <2>5, <2>6, <1>1, <1>5, ShiftIn, Zenon
  <2>8. value' = Num(buffer, f, l)
    <3>1. value' = ShiftLeft(value, k) + d
      BY <2>1, <2>2, <2>5, Zenon
    <3>2. value' = Num(buffer, f, (l - k) + k)
      BY <3>1, <2>7, <1>2, Zenon DEF ShiftedIn
    <3> QED BY <3>2, <2>2, Zenon
  <2>9. w + 1 \in Nat /\ (w + 1) * W < f + l + W
    <3>1. k > 0
      BY <1>2, <1>5, Zenon
    <3>2. a + W < f + l + W
      BY <3>1, <1>3
    <3> QED BY <3>2, <1>3
  <2>10. AtEnd'
    BY <2>1, <2>8, <2>9, <1>2, <1>4, Zenon DEF AtEnd
  <2> QED BY <2>10, <1>1, <1>4, Zenon DEF ExtractInv
<1>6. CASE lenLeft <= 0
  <2>1. wordOffset' = w /\ value' = value
    <3>1. ~(lenLeft > 0)
      BY <1>2, <1>6
    <3> QED BY <3>1, <1>1, <1>2, Zenon
  <2>2. l - k = l /\ a < f + l + W
    BY <1>2, <1>3, <1>6
  <2>3. value' = Num(buffer, f, l)
    BY <2>1, <2>2, <1>1, <1>2, Zenon DEF InLoop
  <2>4. AtEnd'
    BY <2>1, <2>2, <2>3, <1>2, <1>3, <1>4, Zenon DEF AtEnd
  <2> QED BY <2>4, <1>1, <1>4, Zenon DEF ExtractInv
<1>7. lenLeft > 0 \/ lenLeft <= 0
  BY <1>2
<1> QED BY <1>5, <1>6, <1>7, Zenon

\* What value and wordOffset are between two words of extractDword's loop is
\* an invariant of it.
THEOREM ExtractInvariant == ExtractSpec => []ExtractInv
<1>1. ExtractInit => ExtractInv
  BY CallsStart, Zenon
<1>2. ASSUME ExtractInv, [ExtractNext]_extractVars PROVE ExtractInv'
  <2>1. CASE OneWord
    BY <2>1, <1>2, OneWordLemma, Zenon
  <2>2. CASE FirstWord
    BY <2>2, <1>2, FirstWordLemma, Zenon
  <2>3. CASE FullWord
    BY <2>3, <1>2, FullWordLemma, Zenon
  <2>4. CASE LastBits
    BY <2>4, <1>2, LastBitsLemma, Zenon
  <2>5. CASE UNCHANGED extractVars
    <3>1. UNCHANGED args /\ phase' = phase /\ value' = value /\ lenLeft' = lenLeft
          /\ wordOffset' = wordOffset
      BY <2>5 DEF extractVars, args
    <3>2. /\ CallArgs' /\ FirstBit' = FirstBit /\ buffer' = buffer /\ len' = len
          /\ startWord' = startWord
      BY <3>1, <1>2, ArgsStay, Zenon DEF ExtractInv
    <3>3. /\ AtStart => AtStart'
          /\ InLoop => InLoop'
          /\ AtEnd => AtEnd'
      BY <3>1, <3>2, Zenon DEF AtStart, InLoop, AtEnd
    <3> QED BY <3>1, <3>2, <3>3, <1>2, Zenon DEF ExtractInv
  <2> QED BY <2>1, <2>2, <2>3, <2>4, <2>5, <1>2, Zenon DEF ExtractNext
<1> QED BY <1>1, <1>2, PTL DEF ExtractSpec

\* For every width of a byte, every buffer and every request within it,
\* extractDword returns the number in the bits that were asked for.
THEOREM ReturnsBitsAlways == ExtractSpec => []ReturnsTheBits
<1>1. ASSUME ExtractInv PROVE ReturnsTheBits
  <2>1. SUFFICES ASSUME phase = "done" PROVE value = Number(buffer, FirstBit, FirstBit + len)
    BY Zenon DEF ReturnsTheBits, FirstBit
  <2>2. "done" # "start" /\ "done" # "loop"
    OBVIOUS
  <2> QED BY <2>1, <2>2, <1>1, Zenon DEF ExtractInv, AtEnd, Num
<1> QED BY <1>1, ExtractInvariant, PTL

\* ... and reads no word of the buffer that holds none of them.
THEOREM ReadsNoFurtherAlways == ExtractSpec => []ReadsNoFurther
<1>1. ASSUME ExtractInv PROVE ReadsNoFurther
  <2>1. PICK W \in Nat, s \in Nat, l \in Nat, u \in Nat, a \in Nat :
          /\ W = WORD_LENGTH /\ s = startBit /\ l = len /\ u = startWord /\ a = u * W
          /\ W > 0
    <3>1. \A i, j \in Nat : i * j \in Nat
      OBVIOUS
    <3> QED BY <3>1, <1>1, Widths, Zenon DEF ExtractInv, CallArgs
  <2>2. FirstBit = a + s
    BY <2>1, Zenon DEF FirstBit
  <2>3. PICK w \in Nat, c \in Nat : w = wordOffset /\ c = w * W /\ c < (a + s) + l + W
    <3>1. CASE AtStart
      <4>1. wordOffset = u
        BY <3>1, <2>1, Zenon DEF AtStart
      <4>2. a < (a + s) + l + W
        BY <2>1
      <4> QED BY <4>1, <4>2, <2>1, Zenon
    <3>2. CASE InLoop
      <4>1. PICK w \in Nat, c \in Nat, k \in Nat :
              w = wordOffset /\ c = w * W /\ k = lenLeft /\ c + k = (a + s) + l
        <5>1. \A i, j \in Nat : i * j \in Nat
          OBVIOUS
        <5>2. wordOffset \in Nat /\ lenLeft \in Nat
              /\ wordOffset * WORD_LENGTH + lenLeft = FirstBit + len
          BY <3>2, Zenon DEF InLoop
        <5>3. PICK w \in Nat, c \in Nat : w = wordOffset /\ c = w * W
          BY <5>1, <5>2, Zenon
        <5>4. c + lenLeft = (a + s) + l
          BY <5>2, <5>3, <2>1, <2>2, Zenon
        <5> QED BY <5>2, <5>3, <5>4, Zenon
      <4>2. c < (a + s) + l + W
        BY <4>1, <2>1
      <4> QED BY <4>1, <4>2, Zenon
    <3>3. CASE AtEnd
      <4>1. \A i, j \in Nat : i * j \in Nat
        OBVIOUS
      <4> QED BY <4>1, <3>3, <2>1, <2>2, Zenon DEF AtEnd
    <3> QED BY <3>1, <3>2, <3>3, <1>1, Zenon DEF ExtractInv
  <2>4. (w - u) * W = c - a
    BY <2>1, <2>3
  <2>5. c - a < s + l + W
    BY <2>3
  <2> QED BY <2>1, <2>3, <2>4, <2>5, Zenon DEF ReadsNoFurther
<1> QED BY <1>1, ExtractInvariant, PTL
=============================================================================
