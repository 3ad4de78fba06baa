--------------------------- MODULE AnalyserProofs ---------------------------
(***************************************************************************)
(* Any number of applications' messages, hosts and hop ids: every object   *)
(* in the maps of TcpProto satisfies what is proved of one object, hop ids *)
(* are not reused early, answers are counted for requests to their sender, *)
(* reports go forward, and the analyser around it implements it.  The      *)
(* flows of displayStats count their own frames, and its totals are within *)
(* what the flows have counted.                                            *)
(***************************************************************************)
EXTENDS Analyser, DiameterInterfacesProofs

\* The inductive invariant: an object is sound because the hop id a message
\* is given lies in the table's index set.
IInv == TypeOK /\ ObjectsSound

\* The object a message finds is sound, whether it existed or is created.
LEMMA FoundLemma ==
  ASSUME IInv, NEW f \in Frames
  PROVE  /\ f.app \in Apps /\ Node(f) \in Nodes /\ f.flow \in Nodes
         /\ f.time \in Nat
         /\ ObjectInv(f.app, Found(f))
<1>1. f \in FrameShape
  BY FramesAssumption
<1>2. /\ f.app \in Apps /\ Node(f) \in Nodes /\ f.flow \in Nodes
      /\ f.time \in Nat
  BY <1>1 DEF FrameShape, Node, Nodes
<1>3. ObjectInv(f.app, Found(f))
  BY <1>2, NewObjectInv DEF Found, IInv, ObjectsSound
<1> QED BY <1>2, <1>3

\* The hop counters stay in range and the message they number has a hop id of
\* the table.
LEMMA HopLemma ==
  ASSUME IInv, NEW f \in Frames
  PROVE  /\ Message(f) \in PacketShape /\ Message(f).time = f.time
         /\ AdvanceHopids(f) => /\ reqHopid' \in [Apps -> 0..MaxHop]
                                /\ resHopid' \in [Apps -> 0..MaxHop]
<1>1. f \in FrameShape
  BY FramesAssumption
<1>2. PICK q, r, M : /\ q = ReqBase(f.app) /\ r = ResBase(f.app) /\ M = MaxHop
  OBVIOUS
<1>3. /\ f.app \in Apps /\ f.request \in {0, 1} /\ f.cc \in Nat /\ f.reqType \in Nat
      /\ f.resCode \in Int /\ f.time \in Nat
  BY <1>1 DEF FrameShape
<1>4. /\ M \in Nat \ {0} /\ q \in 0..(M - 1) /\ r \in 1..M
  <2>1. reqHopid[f.app] \in 0..MaxHop /\ resHopid[f.app] \in 0..MaxHop
    BY <1>3, Zenon DEF IInv, TypeOK
  <2> QED BY <2>1, <1>2, HopAssumption DEF ReqBase, ResBase
<1>5. HopIdentifier(f) \in Hops
  BY <1>2, <1>3, <1>4, HopAssumption DEF HopIdentifier
<1>6. Message(f) \in PacketShape /\ Message(f).time = f.time
  BY <1>3, <1>5 DEF Message, PacketShape
<1>7. ASSUME AdvanceHopids(f)
      PROVE  /\ reqHopid' \in [Apps -> 0..MaxHop]
             /\ resHopid' \in [Apps -> 0..MaxHop]
  <2>1. q + f.request \in 0..M /\ r - (1 - f.request) \in 0..M
    BY <1>3, <1>4
  <2>2. /\ reqHopid' = [reqHopid EXCEPT ![f.app] = q + f.request]
        /\ resHopid' = [resHopid EXCEPT ![f.app] = r - (1 - f.request)]
    BY <1>2, <1>7 DEF AdvanceHopids
  <2> QED BY <2>1, <2>2, <1>2, ZenonT(30) DEF IInv, TypeOK
<1> QED BY <1>6, <1>7

\* Counting a packet in its flow.
LEMMA TotalLemma ==
  ASSUME IInv, NEW f \in Frames, Total(f)
  PROVE  /\ totals' \in [Nodes -> [pkts : Nat, data : Nat, ipv4 : Nat, ip6 : Nat,
                                   up : Nat, down : Nat]]
         /\ frames' \in 0..MaxFrames
<1>1. f \in FrameShape /\ f.flow \in Nodes
  BY FramesAssumption DEF FrameShape, Nodes
<1>2. PICK R, n : /\ R = [pkts : Nat, data : Nat, ipv4 : Nat, ip6 : Nat,
                          up : Nat, down : Nat]
                  /\ n = f.flow
  BY ZenonT(30)
<1>3. f.len \in Nat
  BY <1>1 DEF FrameShape
<1>4. ASSUME NEW t \in R PROVE Totalled(t, f) \in R
  BY <1>2, <1>3 DEF Totalled
<1>5. totals \in [Nodes -> R] /\ totals' = [totals EXCEPT ![n] = Totalled(totals[n], f)]
  BY <1>2 DEF Total, IInv, TypeOK
<1>6. totals' \in [Nodes -> R]
  BY <1>1, <1>2, <1>4, <1>5, Zenon
<1>7. frames' \in 0..MaxFrames
  BY FramesAssumption DEF Total, IInv, TypeOK
<1> QED BY <1>2, <1>6, <1>7, Zenon

\* A message that leaves a sound object leaves sound maps.
LEMMA DeliverLemma ==
  ASSUME IInv, NEW f \in Frames, NEW j, ObjectInv(f.app, j), Deliver(f, j)
  PROVE  IInv'
<1>1. PICK app, n : app = f.app /\ n = Node(f) /\ app \in Apps /\ n \in Nodes
  BY FoundLemma
<1>2. maps' = [maps EXCEPT ![app] = [maps[app] EXCEPT ![n] = j]]
  BY <1>1 DEF Deliver
<1>3. maps \in [Apps -> [Nodes -> AnyObject \cup {NULL}]]
  BY DEF IInv, TypeOK
<1>4. j \in AnyObject
  BY <1>1 DEF ObjectInv, AnyObject, Apps
<1>5. maps' \in [Apps -> [Nodes -> AnyObject \cup {NULL}]]
  BY <1>1, <1>2, <1>3, <1>4
<1>6. TypeOK'
  BY <1>5, TotalLemma, HopLemma, Zenon DEF Deliver, TypeOK
<1>7. ASSUME NEW a \in Apps, NEW m \in Nodes, maps'[a][m] # NULL
      PROVE  ObjectInv(a, maps'[a][m])
  <2>1. CASE a = app /\ m = n
    BY <2>1, <1>1, <1>2, <1>3
  <2>2. CASE ~(a = app /\ m = n)
    <3>1. maps'[a][m] = maps[a][m]
      BY <2>2, <1>1, <1>2, <1>3
    <3> QED BY <3>1, <1>7 DEF IInv, ObjectsSound
  <2> QED BY <2>1, <2>2
<1> QED BY <1>6, <1>7 DEF IInv, ObjectsSound

\* Every step keeps the invariant.
LEMMA NextIInv == IInv /\ [Next]_vars => IInv'
<1> SUFFICES ASSUME IInv, [Next]_vars PROVE IInv'
  OBVIOUS
<1>1. CASE UNCHANGED vars
  BY <1>1, Zenon DEF vars, IInv, TypeOK, ObjectsSound
<1>2. ASSUME NEW f \in Frames, Pass(f) PROVE IInv'
  BY <1>2, TotalLemma, Zenon DEF Pass, IInv, TypeOK, ObjectsSound
<1>3. ASSUME NEW f \in Frames, Ignore(f) PROVE IInv'
  BY <1>3, FoundLemma, DeliverLemma DEF Ignore
<1>4. ASSUME NEW f \in Frames, Count(f) PROVE IInv'
  <2>1. PICK i, p, j : /\ i = Found(f) /\ p = Message(f) /\ j = InWindow(f.app, i, p)
    OBVIOUS
  <2>2. /\ f.app \in Apps /\ ObjectInv(f.app, i) /\ p \in PacketShape
        /\ checkTime(i, Second(p.time)) = 1
    BY <2>1, <1>4, FoundLemma, HopLemma DEF Count
  <2>3. ObjectInv(f.app, j)
    BY <2>1, <2>2, InWindowLemma
  <2> QED BY <2>1, <2>3, <1>4, DeliverLemma DEF Count
<1>5. ASSUME NEW f \in Frames, Roll(f) PROVE IInv'
  <2>1. PICK i, p, j, k : /\ i = Found(f) /\ p = Message(f)
                          /\ j = RollOver(f.app, i, p) /\ k = Swept(f.app, i, p)
    OBVIOUS
  <2>2. /\ f.app \in Apps /\ ObjectInv(f.app, i) /\ p \in PacketShape
        /\ checkTime(i, Second(p.time)) = 2
    BY <2>1, <1>5, FoundLemma, HopLemma DEF Roll
  <2>3. ObjectInv(f.app, j)
    BY <2>1, <2>2, RollOverLemma
  <2> QED BY <2>1, <2>3, <1>5, DeliverLemma DEF Roll
<1> QED BY <1>1, <1>2, <1>3, <1>4, <1>5 DEF Next

\* The invariant holds in every reachable state.
LEMMA Invariance == Spec => []IInv
<1>1. Init => IInv
  <2> SUFFICES ASSUME Init PROVE IInv
    OBVIOUS
  <2>1. MaxHop \in 0..MaxHop /\ 0 \in 0..MaxHop /\ 0 \in 0..MaxFrames
    BY HopAssumption, FramesAssumption
  <2>2. TypeOK
    BY <2>1 DEF Init, TypeOK, NoTotals
  <2>3. ObjectsSound
    BY DEF Init, ObjectsSound
  <2> QED BY <2>2, <2>3 DEF IInv
<1> QED BY <1>1, NextIInv, PTL DEF Spec

\* However messages interleave, every object of GxMap, GyMap and S6bMap is
\* balanced, aligned and holds nothing stale.
THEOREM EveryObjectSound == Spec => []ObjectsSound
<1>1. IInv => ObjectsSound
  BY DEF IInv
<1> QED BY <1>1, Invariance, PTL

-----------------------------------------------------------------------------
(***************************************************************************)
(* The hop ids that getInterface gives.                                    *)
(***************************************************************************)
\* The id that was given d requests ago, when the counter is x; and d answers
\* ago.
Up(x, d)   == IF x - d >= 1 THEN x - d ELSE x - d + MaxHop
Down(x, d) == IF x + d < MaxHop THEN x + d + 1 ELSE x + d + 1 - MaxHop

\* s are at most MaxHop ids.
HopSeq(s) == s \in Seq(Int) /\ Len(s) <= MaxHop

\* The ids s are the last of those that count up to x, or down to it.
CountsUp(s, x)   == HopSeq(s) /\ \A k \in 1..Len(s) : s[k] = Up(x, Len(s) - k)
CountsDown(s, x) == HopSeq(s) /\ \A k \in 1..Len(s) : s[k] = Down(x, Len(s) - k)

\* The counters determine the ids that were given.
GivenInv ==
  /\ given = [app \in Apps |-> [r \in {0, 1} |-> given[app][r]]]
  /\ \A app \in Apps : /\ CountsUp(given[app][1], reqHopid[app])
                        /\ CountsDown(given[app][0], resHopid[app])

\* The last of the ids t is hop, and the others are the last of s.
Adds(t, s, hop) ==
  /\ HopSeq(t) /\ Len(t) \in Nat /\ Len(s) \in Nat
  /\ \A k \in 1..Len(t) :
       \/ k = Len(t) /\ t[k] = hop
       \/ \E j \in 1..Len(s) : t[k] = s[j] /\ Len(s) - j = Len(t) - k - 1

\* That is what LastHops does.
LEMMA LastHopsLemma ==
  ASSUME NEW s, HopSeq(s), NEW hop \in Int, NEW t, t = LastHops(s, hop)
  PROVE  Adds(t, s, hop)
<1>1. PICK u : u = Append(s, hop)
  BY Zenon
<1>2. s \in Seq(Int) /\ Len(s) \in Nat /\ Len(s) <= MaxHop /\ MaxHop \in Nat \ {0}
  BY HopAssumption DEF HopSeq
<1>3. /\ u \in Seq(Int) /\ Len(u) = Len(s) + 1 /\ u[Len(s) + 1] = hop
      /\ \A k \in 1..Len(s) : u[k] = s[k]
  BY <1>1, <1>2
<1>4. CASE Len(u) > MaxHop
  <2>1. t = Tail(u)
    BY <1>1, <1>4, Zenon DEF LastHops
  <2>2. /\ t \in Seq(Int) /\ Len(t) = Len(s) /\ \A k \in 1..Len(t) : t[k] = u[k + 1]
    BY <2>1, <1>2, <1>3
  <2>3. HopSeq(t) /\ Len(t) \in Nat
    BY <2>2, <1>2, Zenon DEF HopSeq
  <2>4. ASSUME NEW k \in 1..Len(t), k # Len(t)
        PROVE  \E j \in 1..Len(s) : t[k] = s[j] /\ Len(s) - j = Len(t) - k - 1
    <3>1. k + 1 \in 1..Len(s) /\ Len(s) - (k + 1) = Len(t) - k - 1
      BY <2>2, <2>4, <1>2
    <3>2. t[k] = s[k + 1]
      BY <3>1, <2>2, <1>3
    <3> QED BY <3>1, <3>2, Zenon
  <2>5. ASSUME NEW k \in 1..Len(t), k = Len(t) PROVE t[k] = hop
    BY <2>2, <2>5, <1>2, <1>3
  <2> QED BY <2>3, <2>4, <2>5, <1>2, Zenon DEF Adds
<1>5. CASE ~(Len(u) > MaxHop)
  <2>1. t = u /\ HopSeq(t) /\ Len(t) \in Nat
    BY <1>1, <1>2, <1>3, <1>5 DEF LastHops, HopSeq
  <2>2. ASSUME NEW k \in 1..Len(t), k # Len(t)
        PROVE  \E j \in 1..Len(s) : t[k] = s[j] /\ Len(s) - j = Len(t) - k - 1
    <3>1. k \in 1..Len(s) /\ t[k] = s[k] /\ Len(s) - k = Len(t) - k - 1
      BY <2>1, <2>2, <1>2, <1>3
    <3> QED BY <3>1, Zenon
  <2>3. ASSUME NEW k \in 1..Len(t), k = Len(t) PROVE t[k] = hop
    BY <2>1, <2>3, <1>2, <1>3
  <2> QED BY <2>1, <2>2, <2>3, <1>2, Zenon DEF Adds
<1> QED BY <1>4, <1>5, Zenon

\* A counter that wraps names the same ids as before.
LEMMA WrapLemma ==
  ASSUME NEW s
  PROVE  /\ CountsUp(s, MaxHop) => CountsUp(s, 0)
         /\ CountsDown(s, 0) => CountsDown(s, MaxHop)
<1>1. MaxHop \in Nat \ {0}
  BY HopAssumption
<1>2. ASSUME HopSeq(s), NEW k \in 1..Len(s)
      PROVE  /\ Up(MaxHop, Len(s) - k) = Up(0, Len(s) - k)
             /\ Down(0, Len(s) - k) = Down(MaxHop, Len(s) - k)
  <2>1. PICK d : d = Len(s) - k
    BY Zenon
  <2>2. d \in 0..(MaxHop - 1)
    BY <2>1, <1>1, <1>2 DEF HopSeq
  <2>3. Up(MaxHop, d) = Up(0, d) /\ Down(0, d) = Down(MaxHop, d)
    BY <2>2, <1>1 DEF Up, Down
  <2> QED BY <2>1, <2>3, Zenon
<1> QED BY <1>2, Zenon DEF CountsUp, CountsDown

\* One more request, and one more answer.
LEMMA OneHopMore ==
  ASSUME NEW s, NEW x \in Int
  PROVE  /\ CountsUp(s, x) /\ x + 1 \in 1..MaxHop => CountsUp(LastHops(s, x + 1), x + 1)
         /\ CountsDown(s, x) /\ x \in 1..MaxHop => CountsDown(LastHops(s, x), x - 1)
<1>1. MaxHop \in Nat \ {0}
  BY HopAssumption
<1>2. ASSUME CountsUp(s, x), x + 1 \in 1..MaxHop
      PROVE  CountsUp(LastHops(s, x + 1), x + 1)
  <2>1. PICK hop, t : hop = x + 1 /\ t = LastHops(s, hop)
    BY Zenon
  <2>2. HopSeq(s)
    BY <1>2, Zenon DEF CountsUp
  <2>3. /\ HopSeq(t) /\ Len(t) \in Nat /\ Len(s) \in Nat
        /\ \A k \in 1..Len(t) :
             \/ k = Len(t) /\ t[k] = hop
             \/ \E j \in 1..Len(s) : t[k] = s[j] /\ Len(s) - j = Len(t) - k - 1
    <3>1. hop \in Int
      BY <2>1
    <3>2. Adds(t, s, hop)
      BY <3>1, <2>1, <2>2, LastHopsLemma, Zenon
    <3> QED BY <3>2, Zenon DEF Adds
  <2>4. ASSUME NEW k \in 1..Len(t) PROVE t[k] = Up(hop, Len(t) - k)
    <3>1. CASE k = Len(t) /\ t[k] = hop
      BY <3>1, <2>1, <2>3, <1>1, <1>2 DEF Up
    <3>2. ASSUME NEW j \in 1..Len(s), t[k] = s[j], Len(s) - j = Len(t) - k - 1
          PROVE  t[k] = Up(hop, Len(t) - k)
      <4>1. PICK d : d = Len(s) - j
        BY Zenon
      <4>2. d \in Int /\ Len(t) - k = d + 1
        BY <4>1, <3>2, <2>3
      <4>3. s[j] = Up(x, d)
        BY <4>1, <1>2, Zenon DEF CountsUp
      <4>4. Up(x, d) = Up(hop, d + 1)
        BY <4>2, <2>1, <1>1 DEF Up
      <4> QED BY <4>2, <4>3, <4>4, <3>2, Zenon
    <3> QED BY <3>1, <3>2, <2>3, Zenon
  <2> QED BY <2>1, <2>3, <2>4, Zenon DEF CountsUp
<1>3. ASSUME CountsDown(s, x), x \in 1..MaxHop
      PROVE  CountsDown(LastHops(s, x), x - 1)
  <2>1. PICK y, t : y = x - 1 /\ t = LastHops(s, x)
    BY Zenon
  <2>2. HopSeq(s)
    BY <1>3, Zenon DEF CountsDown
  <2>3. /\ HopSeq(t) /\ Len(t) \in Nat /\ Len(s) \in Nat
        /\ \A k \in 1..Len(t) :
             \/ k = Len(t) /\ t[k] = x
             \/ \E j \in 1..Len(s) : t[k] = s[j] /\ Len(s) - j = Len(t) - k - 1
    <3>1. Adds(t, s, x)
      BY <2>1, <2>2, LastHopsLemma, Zenon
    <3> QED BY <3>1, Zenon DEF Adds
  <2>4. ASSUME NEW k \in 1..Len(t) PROVE t[k] = Down(y, Len(t) - k)
    <3>1. CASE k = Len(t) /\ t[k] = x
      BY <3>1, <2>1, <2>3, <1>1, <1>3 DEF Down
    <3>2. ASSUME NEW j \in 1..Len(s), t[k] = s[j], Len(s) - j = Len(t) - k - 1
          PROVE  t[k] = Down(y, Len(t) - k)
      <4>1. PICK d : d = Len(s) - j
        BY Zenon
      <4>2. d \in Int /\ Len(t) - k = d + 1
        BY <4>1, <3>2, <2>3
      <4>3. s[j] = Down(x, d)
        BY <4>1, <1>3, Zenon DEF CountsDown
      <4>4. Down(x, d) = Down(y, d + 1)
        BY <4>2, <2>1, <1>1 DEF Down
      <4> QED BY <4>2, <4>3, <4>4, <3>2, Zenon
    <3> QED BY <3>1, <3>2, <2>3, Zenon
  <2> QED BY <2>1, <2>3, <2>4, Zenon DEF CountsDown
<1> QED BY <1>2, <1>3, Zenon

\* Ids that are counted up, or down, are different.
LEMMA CountsDiffer ==
  ASSUME NEW s, NEW x \in 0..MaxHop, CountsUp(s, x) \/ CountsDown(s, x),
         NEW j \in 1..Len(s), NEW k \in 1..Len(s), s[j] = s[k]
  PROVE  j = k
<1>1. MaxHop \in Nat \ {0} /\ Len(s) \in Nat /\ Len(s) <= MaxHop
  BY HopAssumption DEF CountsUp, CountsDown, HopSeq
<1>2. PICK c, d : c = Len(s) - j /\ d = Len(s) - k
  BY Zenon
<1>3. c \in 0..(MaxHop - 1) /\ d \in 0..(MaxHop - 1)
  BY <1>1, <1>2
<1>4. Up(x, c) = Up(x, d) \/ Down(x, c) = Down(x, d)
  BY <1>2, Zenon DEF CountsUp, CountsDown
<1>5. c = d
  BY <1>1, <1>3, <1>4 DEF Up, Down
<1> QED BY <1>1, <1>2, <1>5

\* Every step keeps what is said of the ids.
LEMMA NextGiven ==
  ASSUME IInv, GivenInv, [Next]_vars
  PROVE  GivenInv'
<1>1. CASE UNCHANGED <<given, reqHopid, resHopid>>
  BY <1>1, Zenon DEF GivenInv
<1>2. ASSUME NEW f \in Frames, NEW j, Deliver(f, j) PROVE GivenInv'
  <2>1. PICK app, r, q, p, hop :
          /\ app = f.app /\ r = f.request /\ q = ReqBase(app) /\ p = ResBase(app)
          /\ hop = HopIdentifier(f)
    BY Zenon
  <2>2. app \in Apps /\ r \in {0, 1}
    <3>1. f \in FrameShape
      BY FramesAssumption
    <3> QED BY <3>1, <2>1 DEF FrameShape
  <2>3. /\ q \in 0..(MaxHop - 1) /\ p \in 1..MaxHop /\ MaxHop \in Nat \ {0}
        /\ hop = IF r = 1 THEN q + 1 ELSE p
    <3>1. reqHopid[app] \in 0..MaxHop /\ resHopid[app] \in 0..MaxHop
      BY <2>2, Zenon DEF IInv, TypeOK
    <3>2. hop = IF r = 1 THEN q + 1 ELSE p
      BY <2>1, Zenon DEF HopIdentifier
    <3> QED BY <3>1, <3>2, <2>1, HopAssumption DEF ReqBase, ResBase
  <2>4. PICK s1, s0 : s1 = given[app][1] /\ s0 = given[app][0]
    BY Zenon
  <2>5. CountsUp(s1, q) /\ CountsDown(s0, p)
    <3>1. CountsUp(s1, reqHopid[app]) /\ CountsDown(s0, resHopid[app])
      BY <2>2, <2>4, Zenon DEF GivenInv
    <3> QED BY <3>1, <2>1, WrapLemma, Zenon DEF ReqBase, ResBase
  <2>6. /\ \A a \in Apps : reqHopid'[a] = IF a = app THEN q + r ELSE reqHopid[a]
        /\ \A a \in Apps : resHopid'[a] = IF a = app THEN p - (1 - r) ELSE resHopid[a]
    <3>1. /\ reqHopid' = [reqHopid EXCEPT ![app] = q + r]
          /\ resHopid' = [resHopid EXCEPT ![app] = p - (1 - r)]
      BY <1>2, <2>1, Zenon DEF Deliver, AdvanceHopids
    <3> QED BY <3>1, Zenon DEF IInv, TypeOK
  <2>7. PICK g : g = given[app] /\ g = [u \in {0, 1} |-> g[u]]
    BY <2>2, Zenon DEF GivenInv
  <2>8. PICK h : h = [g EXCEPT ![r] = LastHops(g[r], hop)] /\ h = [u \in {0, 1} |-> h[u]]
    BY <2>2, <2>7, Zenon
  <2>9. given' = [given EXCEPT ![app] = h]
    BY <1>2, <2>1, <2>7, <2>8, Zenon DEF Deliver
  <2>10. /\ given = [a \in Apps |-> given[a]]
         /\ \A a \in Apps : given[a] = [u \in {0, 1} |-> given[a][u]]
    BY Zenon DEF GivenInv
  <2>11. \A a \in Apps : given'[a] = IF a = app THEN h ELSE given[a]
    BY <2>2, <2>9, <2>10, Zenon
  <2>12. given' = [a \in Apps |-> [u \in {0, 1} |-> given'[a][u]]]
    <3>1. given' = [a \in Apps |-> given'[a]]
      BY <2>9, <2>10, Zenon
    <3>2. \A a \in Apps : given'[a] = [u \in {0, 1} |-> given'[a][u]]
      BY <2>8, <2>10, <2>11, Zenon
    <3> QED BY <3>1, <3>2, Zenon
  <2>13. CountsUp(h[1], q + r) /\ CountsDown(h[0], p - (1 - r))
    <3>1. CASE r = 1
      <4>1. h[1] = LastHops(s1, q + 1) /\ h[0] = s0
        BY <3>1, <2>3, <2>4, <2>7, <2>8
      <4>2. q \in Int /\ q + 1 \in 1..MaxHop /\ q + r = q + 1 /\ p - (1 - r) = p
        BY <3>1, <2>3
      <4> QED BY <4>1, <4>2, <2>5, OneHopMore, Zenon
    <3>2. CASE r = 0
      <4>1. h[0] = LastHops(s0, p) /\ h[1] = s1
        BY <3>2, <2>3, <2>4, <2>7, <2>8
      <4>2. p \in Int /\ q + r = q /\ p - (1 - r) = p - 1
        BY <3>2, <2>3
      <4> QED BY <4>1, <4>2, <2>3, <2>5, OneHopMore, Zenon
    <3> QED BY <3>1, <3>2, <2>2, Zenon
  <2>14. ASSUME NEW a \in Apps
         PROVE  CountsUp(given'[a][1], reqHopid'[a]) /\ CountsDown(given'[a][0], resHopid'[a])
    <3>1. CASE a = app
      BY <3>1, <2>6, <2>11, <2>13, Zenon
    <3>2. CASE a # app
      BY <3>2, <2>6, <2>11, Zenon DEF GivenInv
    <3> QED BY <3>1, <3>2, Zenon
  <2> QED BY <2>12, <2>14, Zenon DEF GivenInv
<1>3. ASSUME NEW f \in Frames, Pass(f) PROVE UNCHANGED <<given, reqHopid, resHopid>>
  BY <1>3, Zenon DEF Pass
<1>4. UNCHANGED vars => UNCHANGED <<given, reqHopid, resHopid>>
  BY Zenon DEF vars
<1> QED BY <1>1, <1>2, <1>3, <1>4, Zenon DEF Next, Ignore, Count, Roll

\* The hop counters of getInterface stay in range and give no id twice among the
\* last MaxHop requests, nor among the last MaxHop answers, whatever order
\* requests and answers come in and however large MaxHop is.
THEOREM HopIdsNotReused == Spec => []HopIdsDiffer
<1>1. Init => GivenInv
  <2> SUFFICES ASSUME Init PROVE GivenInv
    BY Zenon
  <2>1. HopSeq(<<>>) /\ Len(<<>>) = 0
    BY HopAssumption DEF HopSeq
  <2>2. \A x : CountsUp(<<>>, x) /\ CountsDown(<<>>, x)
    BY <2>1 DEF CountsUp, CountsDown
  <2> QED BY <2>2, Zenon DEF Init, GivenInv
<1>2. IInv /\ GivenInv /\ [Next]_vars => GivenInv'
  BY NextGiven, Zenon
<1>3. IInv /\ GivenInv => HopIdsDiffer
  <2> SUFFICES ASSUME IInv, GivenInv PROVE HopIdsDiffer
    BY Zenon
  <2>1. ASSUME NEW app \in Apps, NEW r \in {0, 1}, NEW j \in 1..Len(given[app][r]),
               NEW k \in 1..Len(given[app][r]), given[app][r][j] = given[app][r][k]
        PROVE  j = k
    <3>1. PICK s : s = given[app][r]
      BY Zenon
    <3>2. \E x \in 0..MaxHop : CountsUp(s, x) \/ CountsDown(s, x)
      BY <3>1, Zenon DEF GivenInv, IInv, TypeOK
    <3> QED BY <3>1, <3>2, <2>1, CountsDiffer, Zenon
  <2> QED BY <2>1, Zenon DEF HopIdsDiffer, IInv
<1> QED BY <1>1, <1>2, <1>3, Invariance, PTL DEF Spec

-----------------------------------------------------------------------------
(***************************************************************************)
(* What is counted as answered.                                            *)
(***************************************************************************)
\* The requests of the history stand at the places of the tables.
Filed(q) ==
  /\ DOMAIN q = Apps
  /\ \A app \in Apps : DOMAIN q[app] = Nodes
  /\ \A app \in Apps, n \in Nodes : DOMAIN q[app][n] = TypesOf(app)
  /\ \A app \in Apps, n \in Nodes : \A ty \in TypesOf(app) :
       DOMAIN q[app][n][ty] = Hops

\* What waits in the table of a pair was asked by its first host of its second.
AskedInv ==
  /\ Filed(asked)
  /\ \A app \in Apps, n \in Nodes : maps[app][n] # NULL =>
       \A ty \in TypesOf(app), h \in Hops :
         Known(maps[app][n], ty, h) => asked[app][n][ty][h].hosts = n
  /\ AnsweredByPeer

\* One place of a function changes.
LEMMA ExceptLemma ==
  ASSUME NEW q, NEW x, NEW e, NEW r, r = [q EXCEPT ![x] = e]
  PROVE  /\ DOMAIN r = DOMAIN q
         /\ \A y \in DOMAIN q : r[y] = IF y = x THEN e ELSE q[y]
BY Zenon

\* Histories q and r differ in one place, where r has e.
DifferAt(q, r, app, n, ty, hop, e) ==
  \A a \in Apps, m \in Nodes : \A u \in TypesOf(a), h \in Hops :
    r[a][m][u][h] = IF a = app /\ m = n /\ u = ty /\ h = hop THEN e
                    ELSE q[a][m][u][h]

\* They do not differ but for one pair of hosts.
SameElsewhere(q, r, app, n) ==
  \A a \in Apps, m \in Nodes : ~(a = app /\ m = n) =>
    \A u \in TypesOf(a), h \in Hops : r[a][m][u][h] = q[a][m][u][h]

\* One request is entered in the history.
LEMMA FiledLemma ==
  ASSUME NEW q, Filed(q), NEW app \in Apps, NEW n \in Nodes, NEW ty \in TypesOf(app),
         NEW hop \in Hops, NEW e, NEW r, r = [q EXCEPT ![app][n][ty][hop] = e]
  PROVE  Filed(r) /\ DifferAt(q, r, app, n, ty, hop, e)
<1>1. PICK q1, q2, q3 : q1 = q[app] /\ q2 = q1[n] /\ q3 = q2[ty]
  BY Zenon
<1>2. PICK r1, r2, r3 : /\ r3 = [q3 EXCEPT ![hop] = e] /\ r2 = [q2 EXCEPT ![ty] = r3]
                        /\ r1 = [q1 EXCEPT ![n] = r2]
  BY Zenon
<1>3. r = [q EXCEPT ![app] = r1]
  BY <1>1, <1>2, Zenon
<1>4. /\ DOMAIN q = Apps /\ DOMAIN q1 = Nodes /\ DOMAIN q2 = TypesOf(app)
      /\ DOMAIN q3 = Hops
  BY <1>1, Zenon DEF Filed
<1>5. /\ DOMAIN r = Apps /\ \A a \in Apps : r[a] = IF a = app THEN r1 ELSE q[a]
      /\ DOMAIN r1 = Nodes /\ \A m \in Nodes : r1[m] = IF m = n THEN r2 ELSE q1[m]
      /\ DOMAIN r2 = TypesOf(app)
      /\ \A u \in TypesOf(app) : r2[u] = IF u = ty THEN r3 ELSE q2[u]
      /\ DOMAIN r3 = Hops /\ \A h \in Hops : r3[h] = IF h = hop THEN e ELSE q3[h]
  BY <1>2, <1>3, <1>4, ExceptLemma, Zenon
<1>6. ASSUME NEW a \in Apps, NEW m \in Nodes, NEW u \in TypesOf(a), NEW h \in Hops
      PROVE  /\ r[a][m][u][h] = IF a = app /\ m = n /\ u = ty /\ h = hop THEN e
                                ELSE q[a][m][u][h]
             /\ DOMAIN r[a][m][u] = Hops
  <2>0. DOMAIN q[a][m][u] = Hops
    BY DEF Filed
  <2>1. CASE a # app
    BY <2>0, <2>1, <1>5, Zenon
  <2>2. CASE a = app /\ m # n
    <3>1. r[a][m] = q[a][m]
      BY <2>2, <1>1, <1>5, Zenon
    <3> QED BY <3>1, <2>0, <2>2
  <2>3. CASE a = app /\ m = n /\ u # ty
    <3>1. r[a][m] = r2 /\ r2[u] = q2[u] /\ q2 = q[a][m]
      BY <2>3, <1>1, <1>5, Zenon
    <3> QED BY <3>1, <2>0, <2>3
  <2>4. CASE a = app /\ m = n /\ u = ty
    <3>1. r[a][m] = r2 /\ r2[u] = r3 /\ q3 = q[a][m][u]
      BY <2>4, <1>1, <1>5, Zenon
    <3> QED BY <3>1, <2>4, <1>5, Zenon
  <2> QED BY <2>1, <2>2, <2>3, <2>4, Zenon
<1>7. ASSUME NEW a \in Apps, NEW m \in Nodes
      PROVE  DOMAIN r[a] = Nodes /\ DOMAIN r[a][m] = TypesOf(a)
  <2>0. DOMAIN q[a] = Nodes /\ DOMAIN q[a][m] = TypesOf(a)
    BY Zenon DEF Filed
  <2>1. CASE a # app
    BY <2>0, <2>1, <1>5, Zenon
  <2>2. CASE a = app
    <3>1. r[a] = r1 /\ r1[m] \in {r2, q[a][m]}
      BY <2>2, <1>1, <1>5, Zenon
    <3> QED BY <3>1, <2>0, <2>2, <1>5, Zenon
  <2> QED BY <2>1, <2>2, Zenon
<1>8. \A a \in Apps : DOMAIN r[a] = Nodes
  <2>1. n \in Nodes
    BY Zenon
  <2> QED BY <2>1, <1>7, Zenon
<1>9. Filed(r)
  BY <1>5, <1>6, <1>7, <1>8 DEF Filed
<1>10. DifferAt(q, r, app, n, ty, hop, e)
  BY <1>6 DEF DifferAt
<1> QED BY <1>9, <1>10, Zenon

\* What waits after a packet has waited before, or is the packet.
LEMMA KnownLemma ==
  ASSUME NEW app, NEW i \in ObjectsOf(app), NEW pkt \in PacketShape,
         NEW ty \in TypesOf(app) \cup {NoType}, NEW j, j = Account(i, ty, pkt),
         NEW u \in TypesOf(app), NEW h \in Hops, Known(j, u, h)
  PROVE  \/ Known(i, u, h)
         \/ ty # NoType /\ pkt.request = 1 /\ u = ty /\ h = pkt.hop
<1>1. i.req \in [TypesOf(app) -> [Hops -> Nat \cup {Absent}]] /\ pkt.hop \in Hops
  BY Zenon DEF ObjectsOf, PacketShape
<1>2. ASSUME NEW t, NEW s, j = Update(i, ty, pkt.hop, t, s), ty \in TypesOf(app)
      PROVE  Entry(j, u, h) = IF u = ty /\ h = pkt.hop THEN t ELSE Entry(i, u, h)
  <2>1. j.req = [i.req EXCEPT ![ty] = [i.req[ty] EXCEPT ![pkt.hop] = t]]
    BY <1>2 DEF Update, Object
  <2>2. j.req[u] = IF u = ty THEN [i.req[ty] EXCEPT ![pkt.hop] = t] ELSE i.req[u]
    BY <2>1, <1>1, <1>2, Zenon
  <2>3. i.req[ty] \in [Hops -> Nat \cup {Absent}]
    BY <1>1, <1>2, Zenon
  <2>4. CASE u = ty
    <3>1. j.req[u][h] = IF h = pkt.hop THEN t ELSE i.req[ty][h]
      BY <2>2, <2>3, <2>4, Zenon
    <3> QED BY <3>1, <2>4, Zenon DEF Entry
  <2>5. CASE u # ty
    BY <2>2, <2>5, Zenon DEF Entry
  <2> QED BY <2>4, <2>5, Zenon
<1>3. CASE ty = NoType
  BY <1>3, Zenon DEF Account
<1>4. CASE ty # NoType /\ pkt.request = 1
  <2>1. j = Update(i, ty, pkt.hop, pkt.time, i.stats)
    BY <1>4, Zenon DEF Account, HandleRequest
  <2> QED BY <2>1, <1>2, <1>4, Zenon DEF Known
<1>5. CASE ty # NoType /\ pkt.request # 1
  <2>1. PICK t, s : /\ j = Update(i, ty, pkt.hop, t, s)
                    /\ t \in {0, Absent} \/ t = Entry(i, ty, pkt.hop)
    BY <1>5, Zenon DEF Account, HandleResponse, UnknownResponse, LateResponse, AnsweredRequest
  <2>2. Entry(j, u, h) = IF u = ty /\ h = pkt.hop THEN t ELSE Entry(i, u, h)
    BY <2>1, <1>2, <1>5, Zenon
  <2> QED BY <2>1, <2>2, Zenon DEF Known
<1> QED BY <1>3, <1>4, <1>5, Zenon

\* The requests that wait in the object that a message finds.
LEMMA FoundAsked ==
  ASSUME IInv, AskedInv, NEW f \in Frames, NEW u \in TypesOf(f.app), NEW h \in Hops,
         Known(Found(f), u, h)
  PROVE  asked[f.app][Node(f)][u][h].hosts = Node(f)
<1>1. f.app \in Apps /\ Node(f) \in Nodes
  BY FoundLemma
<1>2. CASE maps[f.app][Node(f)] = NULL
  <2>1. Found(f) = NewInterface(TypesOf(f.app))
    BY <1>1, <1>2, DispatchLemma, Zenon DEF Found
  <2>2. Entry(Found(f), u, h) = Absent
    BY <2>1 DEF NewInterface, Object, Entry
  <2> QED BY <2>2, Zenon DEF Known
<1>3. CASE maps[f.app][Node(f)] # NULL
  BY <1>1, <1>3, Zenon DEF Found, AskedInv
<1> QED BY <1>2, <1>3, Zenon

\* The object j that a message leaves holds what the history says.
LEMMA AskedKept ==
  ASSUME IInv, AskedInv, NEW f \in Frames, NEW j, Deliver(f, j),
         Filed(asked'), AnsweredByPeer',
         SameElsewhere(asked, asked', f.app, Node(f)),
         \A u \in TypesOf(f.app), h \in Hops :
           Known(j, u, h) => asked'[f.app][Node(f)][u][h].hosts = Node(f)
  PROVE  AskedInv'
<1>1. PICK app, n : app = f.app /\ n = Node(f) /\ app \in Apps /\ n \in Nodes
  BY FoundLemma
<1>2. maps' = [maps EXCEPT ![app] = [maps[app] EXCEPT ![n] = j]]
  BY <1>1, Zenon DEF Deliver
<1>3. maps \in [Apps -> [Nodes -> AnyObject \cup {NULL}]]
  BY Zenon DEF IInv, TypeOK
<1>4. ASSUME NEW a \in Apps, NEW m \in Nodes, maps'[a][m] # NULL,
             NEW u \in TypesOf(a), NEW h \in Hops, Known(maps'[a][m], u, h)
      PROVE  asked'[a][m][u][h].hosts = m
  <2>1. CASE a = app /\ m = n
    <3>1. maps'[a][m] = j
      BY <2>1, <1>1, <1>2, <1>3, Zenon
    <3> QED BY <3>1, <2>1, <1>1, <1>4, Zenon
  <2>2. CASE ~(a = app /\ m = n)
    <3>1. maps'[a][m] = maps[a][m]
      BY <2>2, <1>1, <1>2, <1>3, Zenon
    <3>2. asked[a][m][u][h].hosts = m
      BY <3>1, <1>4 DEF AskedInv
    <3>3. asked'[a][m][u][h] = asked[a][m][u][h]
      BY <2>2, <1>1 DEF SameElsewhere
    <3> QED BY <3>2, <3>3, Zenon
  <2> QED BY <2>1, <2>2, Zenon
<1>5. ASSUME NEW a \in Apps, NEW m \in Nodes, NEW u \in TypesOf(a), NEW h \in Hops
      PROVE  maps'[a][m] # NULL /\ Known(maps[a][m], u, h)' => asked'[a][m][u][h].hosts = m
  BY <1>4, Zenon DEF Known, Entry
<1> QED BY <1>5, Zenon DEF AskedInv

\* Zero is not one, and a pair has its two parts.
LEMMA ZeroOne == 0 # 1
OBVIOUS

LEMMA PairLemma ==
  \A q, x, y : q = <<x, y>> => q[1] = x /\ q[2] = y
OBVIOUS

\* A request is entered under its sender and receiver, and an answer is counted
\* for one that waits.
LEMMA RememberLemma ==
  ASSUME IInv, AskedInv, NEW f \in Frames, NEW i, NEW j, Deliver(f, j), Remember(f, i),
         \A u \in TypesOf(f.app), h \in Hops :
           Known(i, u, h) => asked[f.app][Node(f)][u][h].hosts = Node(f),
         \A u \in TypesOf(f.app), h \in Hops : Known(j, u, h) =>
           \/ Known(i, u, h)
           \/ /\ TypeIn(f.app, Message(f)) # NoType /\ f.request = 1
              /\ u = TypeIn(f.app, Message(f)) /\ h = HopIdentifier(f)
  PROVE  AskedInv'
<1>1. PICK app, n, ty, hop, hosts : /\ app = f.app /\ n = Node(f) /\ hosts = <<f.src, f.dst>>
                                    /\ ty = TypeIn(app, Message(f)) /\ hop = HopIdentifier(f)
  BY Zenon
<1>2. app \in Apps /\ n \in Nodes
  BY <1>1, FoundLemma, Zenon
<1>3. hop \in Hops /\ ty \in TypesOf(app) \cup {NoType}
  <2>1. Message(f) \in PacketShape
    BY HopLemma, Zenon
  <2>2. Message(f).hop = hop
    BY <1>1 DEF Message
  <2>3. Message(f).hop \in Hops
    BY <2>1 DEF PacketShape
  <2> QED BY <2>1, <2>2, <2>3, <1>1, <1>2, TypesLemma, Zenon
<1>4. Filed(asked) /\ AnsweredByPeer
  BY Zenon DEF AskedInv
<1>5. CASE ty # NoType /\ f.request = 1
  <2>1. PICK e : e = [wire |-> f.wireHop, hosts |-> hosts]
    BY Zenon
  <2>2. asked' = [asked EXCEPT ![app][n][ty][hop] = e] /\ e.hosts = hosts
    <3>1. asked' = [asked EXCEPT ![app][n][ty][hop] = e]
      BY <2>1, <1>1, <1>5, Zenon DEF Remember
    <3> QED BY <3>1, <2>1
  <2>3. Filed(asked') /\ DifferAt(asked, asked', app, n, ty, hop, e)
    <3>1. ty \in TypesOf(app)
      BY <1>3, <1>5, Zenon
    <3>2. PICK q, t : q = asked /\ t = asked'
      BY Zenon
    <3>3. Filed(t) /\ DifferAt(q, t, app, n, ty, hop, e)
      BY <3>1, <3>2, <2>2, <1>2, <1>3, <1>4, FiledLemma, Zenon
    <3> QED BY <3>2, <3>3, Zenon
  <2>4. n = hosts
    BY <1>1, <1>5, Zenon DEF Node
  <2>5. AnsweredByPeer'
    <3>1. f.request # 0
      BY <1>5
    <3>2. paired' = paired
      BY <3>1, Zenon DEF Remember
    <3> QED BY <3>2, <1>4, Zenon DEF AnsweredByPeer
  <2>6. ASSUME NEW u \in TypesOf(app), NEW h \in Hops, Known(j, u, h)
        PROVE  asked'[app][n][u][h].hosts = n
    <3>1. CASE u = ty /\ h = hop
      <4>1. asked'[app][n][u][h] = e
        BY <3>1, <2>3, <1>2 DEF DifferAt
      <4> QED BY <4>1, <2>2, <2>4, Zenon
    <3>2. CASE ~(u = ty /\ h = hop)
      <4>1. Known(i, u, h)
        BY <3>2, <2>6, <1>1, Zenon
      <4>2. asked'[app][n][u][h] = asked[app][n][u][h]
        BY <3>2, <2>3, <1>2 DEF DifferAt
      <4> QED BY <4>1, <4>2, <1>1, Zenon
    <3> QED BY <3>1, <3>2, Zenon
  <2>7. SameElsewhere(asked, asked', app, n)
    BY <2>3 DEF DifferAt, SameElsewhere
  <2> QED BY <2>3, <2>5, <2>6, <2>7, <1>1, AskedKept, Zenon
<1>6. CASE ~(ty # NoType /\ f.request = 1)
  <2>1. asked' = asked
    BY <1>1, <1>6, Zenon DEF Remember
  <2>2. \A u \in TypesOf(app), h \in Hops :
          Known(j, u, h) => asked'[app][n][u][h].hosts = n
    BY <2>1, <1>1, <1>6, Zenon
  <2>3. AnsweredByPeer'
    <3>1. PICK p : /\ p.req = asked[app][n][ty][hop].hosts /\ p.ans = hosts
                   /\ \/ paired' = paired
                      \/ /\ ty # NoType /\ f.request = 0 /\ Known(i, ty, hop)
                         /\ paired' = paired \cup {p}
      <4>1. PICK o, p : /\ p = [req |-> asked[app][n][ty][hop].hosts, ans |-> hosts, own |-> o]
                          /\ \/ paired' = paired
                             \/ /\ ty # NoType /\ f.request = 0 /\ Known(i, ty, hop)
                                /\ paired' = paired \cup {p}
        BY <1>1, Zenon DEF Remember
      <4> QED BY <4>1
    <3>2. CASE paired' = paired
      BY <3>2, <1>4, Zenon DEF AnsweredByPeer
    <3>3. CASE /\ ty # NoType /\ f.request = 0 /\ Known(i, ty, hop)
               /\ paired' = paired \cup {p}
      <4>1. p.req = n
        BY <3>1, <3>3, <1>1, <1>3, Zenon
      <4>2. n = <<f.dst, f.src>>
        <5>1. Node(f) = <<f.dst, f.src>>
          BY <3>3, ZeroOne, Zenon DEF Node
        <5> QED BY <5>1, <1>1, Zenon
      <4>3. p.ans = <<p.req[2], p.req[1]>>
        <5>1. p.ans = <<f.src, f.dst>>
          BY <3>1, <1>1, Zenon
        <5>2. p.req = <<f.dst, f.src>>
          BY <4>1, <4>2, Zenon
        <5>3. p.req[1] = f.dst /\ p.req[2] = f.src
          BY <5>2, PairLemma, Zenon
        <5> QED BY <5>1, <5>3, Zenon
      <4> QED BY <4>3, <3>3, <1>4, Zenon DEF AnsweredByPeer
    <3> QED BY <3>1, <3>2, <3>3, Zenon
  <2>4. Filed(asked') /\ SameElsewhere(asked, asked', app, n)
    BY <2>1, <1>4, Zenon DEF SameElsewhere
  <2> QED BY <2>2, <2>3, <2>4, <1>1, AskedKept, Zenon
<1> QED BY <1>5, <1>6, Zenon

\* Every step keeps what is said of the requests that wait.
LEMMA NextAsked ==
  ASSUME IInv, AskedInv, [Next]_vars
  PROVE  AskedInv'
<1>1. CASE UNCHANGED <<maps, asked, paired>>
  BY <1>1, Zenon DEF AskedInv, AnsweredByPeer, Known, Entry
<1>2. ASSUME NEW f \in Frames, Ignore(f) PROVE AskedInv'
  <2>1. Deliver(f, Found(f)) /\ UNCHANGED <<asked, paired>>
    BY <1>2, Zenon DEF Ignore
  <2>2. Filed(asked') /\ AnsweredByPeer' /\ SameElsewhere(asked, asked', f.app, Node(f))
    BY <2>1, Zenon DEF AskedInv, AnsweredByPeer, SameElsewhere
  <2>3. PICK j : j = Found(f)
    BY Zenon
  <2>4. \A u \in TypesOf(f.app), h \in Hops :
          Known(j, u, h) => asked'[f.app][Node(f)][u][h].hosts = Node(f)
    BY <2>1, <2>3, FoundAsked, Zenon
  <2> QED BY <2>1, <2>2, <2>3, <2>4, AskedKept, Zenon
<1>3. ASSUME NEW f \in Frames, Count(f) PROVE AskedInv'
  <2>1. PICK app, i, p, j, w, ty :
          /\ app = f.app /\ i = Found(f) /\ p = Message(f) /\ j = InWindow(app, i, p)
          /\ w = Window(i, Second(p.time)) /\ ty = TypeIn(app, p)
    BY Zenon
  <2>2. /\ app \in Apps /\ ObjectInv(app, i) /\ p \in PacketShape /\ Second(p.time) \in Nat
        /\ checkTime(i, Second(p.time)) = 1 /\ Deliver(f, j) /\ Remember(f, i)
    <3>1. /\ app \in Apps /\ ObjectInv(app, i) /\ p \in PacketShape /\ p.time = f.time
          /\ f.time \in Nat
      BY <2>1, FoundLemma, HopLemma, Zenon
    <3> QED BY <3>1, <2>1, <1>3, SecondLemma, Zenon DEF Count
  <2>3. w \in ObjectsOf(app) /\ w.req = i.req
    <3>1. checkTime(i, Second(p.time)) # 0
      BY <2>2
    <3> QED BY <3>1, <2>1, <2>2, WindowLemma, Zenon
  <2>4. j = Account(w, ty, p) /\ ty \in TypesOf(app) \cup {NoType}
    BY <2>1, <2>2, DispatchLemma, TypesLemma, Zenon DEF InWindow
  <2>5. p.hop = HopIdentifier(f) /\ p.request = f.request
    BY <2>1 DEF Message
  <2>6. ASSUME NEW u \in TypesOf(app), NEW h \in Hops, Known(j, u, h)
        PROVE  Known(i, u, h) \/ /\ ty # NoType /\ f.request = 1
                                 /\ u = ty /\ h = HopIdentifier(f)
    <3>1. Known(w, u, h) \/ (ty # NoType /\ p.request = 1 /\ u = ty /\ h = p.hop)
      BY <2>2, <2>3, <2>4, <2>6, KnownLemma
    <3>2. Known(w, u, h) => Known(i, u, h)
      BY <2>3, Zenon DEF Known, Entry
    <3> QED BY <3>1, <3>2, <2>5, Zenon
  <2>7. ASSUME NEW u \in TypesOf(app), NEW h \in Hops, Known(i, u, h)
        PROVE  asked[app][Node(f)][u][h].hosts = Node(f)
    BY <2>1, <2>7, FoundAsked, Zenon
  <2> QED BY <2>1, <2>2, <2>6, <2>7, RememberLemma, Zenon
<1>4. ASSUME NEW f \in Frames, Roll(f) PROVE AskedInv'
  <2>1. PICK app, i, p, j, k, c, ty :
          /\ app = f.app /\ i = Found(f) /\ p = Message(f) /\ j = RollOver(app, i, p)
          /\ k = Swept(app, i, p) /\ c = ClearStats(k) /\ ty = TypeIn(app, p)
    BY Zenon
  <2>2. /\ app \in Apps /\ ObjectInv(app, i) /\ p \in PacketShape
        /\ checkTime(i, Second(p.time)) = 2 /\ Deliver(f, j) /\ Remember(f, k)
    <3>1. /\ app \in Apps /\ ObjectInv(app, i) /\ p \in PacketShape /\ p.time = f.time
      BY <2>1, FoundLemma, HopLemma, Zenon
    <3> QED BY <3>1, <2>1, <1>4, Zenon DEF Roll
  <2>3. k \in ObjectsOf(app) /\ \A u \in TypesOf(app), h \in Hops : Entry(k, u, h) = Absent
    BY <2>1, <2>2, RollOverLemma
  <2>4. c \in ObjectsOf(app) /\ c.req = k.req
    BY <2>1, <2>2, <2>3, ClearLemma
  <2>5. j = Account(c, ty, p) /\ ty \in TypesOf(app) \cup {NoType}
    BY <2>1, <2>2, DispatchLemma, TypesLemma DEF RollOver
  <2>6. p.hop = HopIdentifier(f) /\ p.request = f.request
    BY <2>1 DEF Message
  <2>7. ASSUME NEW u \in TypesOf(app), NEW h \in Hops
        PROVE  ~Known(k, u, h) /\ ~Known(c, u, h)
    BY <2>3, <2>4, Zenon DEF Known, Entry
  <2>8. ASSUME NEW u \in TypesOf(app), NEW h \in Hops, Known(j, u, h)
        PROVE  ty # NoType /\ f.request = 1 /\ u = ty /\ h = HopIdentifier(f)
    <3>1. Known(c, u, h) \/ (ty # NoType /\ p.request = 1 /\ u = ty /\ h = p.hop)
      BY <2>2, <2>4, <2>5, <2>8, KnownLemma
    <3> QED BY <3>1, <2>6, <2>7, Zenon
  <2> QED BY <2>1, <2>2, <2>7, <2>8, RememberLemma, Zenon
<1>5. ASSUME NEW f \in Frames, Pass(f) PROVE UNCHANGED <<maps, asked, paired>>
  BY <1>5, Zenon DEF Pass
<1>6. UNCHANGED vars => UNCHANGED <<maps, asked, paired>>
  BY Zenon DEF vars
<1> QED BY <1>1, <1>2, <1>3, <1>4, <1>5, <1>6, Zenon DEF Next

\* An answer is counted only for a request that its sender was asked by the host
\* it answers, for any hosts that ask each other, any hop ids and any order.
THEOREM AnswersMeetTheirPair == Spec => []AnsweredByPeer
<1>1. Init => AskedInv
  BY DEF Init, AskedInv, Filed, AnsweredByPeer
<1>2. IInv /\ AskedInv /\ [Next]_vars => AskedInv'
  BY NextAsked, Zenon
<1>3. AskedInv => AnsweredByPeer
  BY Zenon DEF AskedInv
<1> QED BY <1>1, <1>2, <1>3, Invariance, PTL DEF Spec

-----------------------------------------------------------------------------
(***************************************************************************)
(* The times of the reports.                                               *)
(***************************************************************************)
\* The latest report of an object is of a time before the end of its window.
ReportsInv ==
  /\ printed = [app \in Apps |-> [n \in Nodes |-> printed[app][n]]]
  /\ \A app \in Apps, n \in Nodes : printed[app][n] # NULL =>
       /\ maps[app][n] # NULL
       /\ printed[app][n].time \in Nat
       /\ printed[app][n].time < maps[app][n].endTime

Advances(app, n) ==
  printed[app][n] # NULL /\ printed'[app][n] # printed[app][n]
    => printed'[app][n].time > printed[app][n].time

\* What stands in the maps is not the null pointer.
LEMMA NotNull ==
  ASSUME NEW app \in Apps, NEW j, ObjectInv(app, j)
  PROVE  j # NULL
<1>1. j \in AnyObject
  BY DEF ObjectInv, AnyObject, Apps
<1> QED BY <1>1, NullAssumption

\* A message that leaves the report as it is and does not move the end of the
\* window back.
LEMMA QuietLemma ==
  ASSUME IInv, ReportsInv, NEW f \in Frames, NEW j, ObjectInv(f.app, j),
         Deliver(f, j), j.endTime >= Found(f).endTime, UNCHANGED printed
  PROVE  ReportsInv'
<1>1. PICK app, n : app = f.app /\ n = Node(f) /\ app \in Apps /\ n \in Nodes
  BY FoundLemma
<1>2. maps' = [maps EXCEPT ![app] = [maps[app] EXCEPT ![n] = j]]
  BY <1>1 DEF Deliver
<1>3. maps \in [Apps -> [Nodes -> AnyObject \cup {NULL}]]
  BY DEF IInv, TypeOK
<1> SUFFICES ASSUME NEW a \in Apps, NEW m \in Nodes, printed[a][m] # NULL
             PROVE  /\ maps'[a][m] # NULL
                    /\ printed[a][m].time < maps'[a][m].endTime
  BY DEF ReportsInv
<1>4. /\ maps[a][m] # NULL /\ printed[a][m].time \in Nat
      /\ printed[a][m].time < maps[a][m].endTime
  BY Zenon DEF ReportsInv
<1>5. CASE a = app /\ m = n
  <2>1. maps'[a][m] = j /\ Found(f) = maps[a][m]
    BY <1>1, <1>2, <1>3, <1>4, <1>5, Zenon DEF Found
  <2>2. Found(f).endTime \in Nat /\ j.endTime \in Nat
    BY FoundLemma DEF ObjectInv, ObjectsOf
  <2>3. j # NULL
    BY <1>1, NotNull
  <2> QED BY <2>1, <2>2, <2>3, <1>4
<1>6. CASE ~(a = app /\ m = n)
  <2>1. maps'[a][m] = maps[a][m]
    BY <1>1, <1>2, <1>3, <1>6
  <2> QED BY <2>1, <1>4
<1> QED BY <1>5, <1>6, Zenon

\* A roll-over prints the start of the new window, which is not before the end
\* of the one in which the last report was printed.
LEMMA RollReports ==
  ASSUME IInv, ReportsInv, NEW f \in Frames, Roll(f)
  PROVE  /\ ReportsInv'
         /\ \A app \in Apps, n \in Nodes : Advances(app, n)
<1>1. PICK app, n, i, p, j, k :
        /\ app = f.app /\ n = Node(f) /\ i = Found(f) /\ p = Message(f)
        /\ j = RollOver(app, i, p) /\ k = Swept(app, i, p)
  OBVIOUS
<1>2. /\ app \in Apps /\ n \in Nodes /\ ObjectInv(app, i) /\ p \in PacketShape
      /\ checkTime(i, Second(p.time)) = 2
  BY <1>1, FoundLemma, HopLemma, Zenon DEF Roll
<1>3. /\ ObjectInv(app, j) /\ j.startTime >= i.endTime
      /\ j.endTime = j.startTime + WindowLen /\ k.startTime = j.startTime
  BY <1>1, <1>2, RollOverLemma
<1>4. /\ j # NULL /\ j.startTime \in Nat /\ i.endTime \in Nat
  BY <1>2, <1>3, NotNull, Zenon DEF ObjectInv, ObjectsOf
<1>5. PICK r : r = Report(k) /\ r.time = j.startTime
  <2>1. Report(k).time = k.startTime
    BY DEF Report
  <2> QED BY <2>1, <1>3
<1>6. maps' = [maps EXCEPT ![app] = [maps[app] EXCEPT ![n] = j]]
  BY <1>1 DEF Roll, Deliver
<1>7. printed' = [printed EXCEPT ![app] = [printed[app] EXCEPT ![n] = r]]
  BY <1>1, <1>5 DEF Roll
<1>8. maps \in [Apps -> [Nodes -> AnyObject \cup {NULL}]]
  BY DEF IInv, TypeOK
<1>9. printed = [a \in Apps |-> [m \in Nodes |-> printed[a][m]]]
  BY DEF ReportsInv
<1>10. printed' = [a \in Apps |-> [m \in Nodes |-> printed'[a][m]]]
  BY <1>2, <1>7, <1>9, Zenon
<1>11. ASSUME NEW a \in Apps, NEW m \in Nodes
       PROVE  /\ Advances(a, m)
              /\ printed'[a][m] # NULL =>
                   /\ maps'[a][m] # NULL /\ printed'[a][m].time \in Nat
                   /\ printed'[a][m].time < maps'[a][m].endTime
  <2>1. CASE a = app /\ m = n
    <3>1. maps'[a][m] = j /\ printed'[a][m] = r
      BY <2>1, <1>2, <1>6, <1>7, <1>8, <1>9
    <3>2. ASSUME printed[a][m] # NULL
          PROVE  /\ i = maps[a][m] /\ printed[a][m].time \in Nat
                 /\ printed[a][m].time < i.endTime
      BY <3>2, <2>1, <1>1, Zenon DEF ReportsInv, Found
    <3>3. Advances(a, m)
      BY <3>1, <3>2, <1>3, <1>4, <1>5 DEF Advances
    <3> QED BY <3>1, <3>3, <1>3, <1>4, <1>5 DEF WindowLen
  <2>2. CASE ~(a = app /\ m = n)
    <3>1. maps'[a][m] = maps[a][m] /\ printed'[a][m] = printed[a][m]
      BY <2>2, <1>2, <1>6, <1>7, <1>8, <1>9, Zenon
    <3> QED BY <3>1, Zenon DEF ReportsInv, Advances
  <2> QED BY <2>1, <2>2, Zenon
<1> QED BY <1>10, <1>11, Zenon DEF ReportsInv

\* Every step keeps the invariant of the reports, and moves them forward.
LEMMA NextReports ==
  ASSUME IInv, ReportsInv, [Next]_vars
  PROVE  /\ ReportsInv'
         /\ \A app \in Apps, n \in Nodes : Advances(app, n)
<1>1. CASE UNCHANGED vars
  BY <1>1, Zenon DEF vars, ReportsInv, Advances
<1>2. ASSUME NEW f \in Frames, Pass(f)
      PROVE  ReportsInv' /\ UNCHANGED printed
  BY <1>2 DEF Pass, ReportsInv
<1>3. ASSUME NEW f \in Frames, Ignore(f)
      PROVE  ReportsInv' /\ UNCHANGED printed
  <2>1. ObjectInv(f.app, Found(f)) /\ Found(f).endTime >= Found(f).endTime
    BY FoundLemma DEF ObjectInv, ObjectsOf
  <2> QED BY <2>1, <1>3, QuietLemma DEF Ignore
<1>4. ASSUME NEW f \in Frames, Count(f)
      PROVE  ReportsInv' /\ UNCHANGED printed
  <2>1. PICK i, p, j : /\ i = Found(f) /\ p = Message(f) /\ j = InWindow(f.app, i, p)
    OBVIOUS
  <2>2. /\ f.app \in Apps /\ ObjectInv(f.app, i) /\ p \in PacketShape
        /\ checkTime(i, Second(p.time)) = 1
    BY <2>1, <1>4, FoundLemma, HopLemma DEF Count
  <2>3. ObjectInv(f.app, j) /\ j.endTime >= i.endTime
    BY <2>1, <2>2, InWindowLemma, Zenon
  <2> QED BY <2>1, <2>3, <1>4, QuietLemma DEF Count
<1>5. ASSUME UNCHANGED printed
      PROVE  \A app \in Apps, n \in Nodes : Advances(app, n)
  BY <1>5 DEF Advances
<1> QED BY <1>1, <1>2, <1>3, <1>4, <1>5, RollReports DEF Next

\* The invariant of the reports holds in every reachable state.
LEMMA ReportsInvariance == Spec => []ReportsInv
<1>1. Init => ReportsInv
  BY DEF Init, ReportsInv
<1>2. IInv /\ ReportsInv /\ [Next]_vars => ReportsInv'
  BY NextReports
<1> QED BY <1>1, <1>2, Invariance, PTL DEF Spec

\* The reports of one node pair carry later and later times, for any messages
\* in any order.
THEOREM ReportsGoForward == Spec => ReportsAdvance
<1> DEFINE Forward ==
      \A app \in Apps, n \in Nodes :
        printed[app][n] # NULL /\ printed'[app][n] # printed[app][n]
          => printed'[app][n].time > printed[app][n].time
<1>1. IInv /\ ReportsInv /\ [Next]_vars => [Forward]_vars
  BY NextReports DEF Advances
<1> QED BY <1>1, ReportsInvariance, Invariance, PTL DEF Spec, ReportsAdvance

\* The m_Packet holds a pair of addresses, its own or an earlier frame's.
KeyInv == ppkt # NULL => ppkt.key \in Nodes

\* What a frame that ParsePkt does not return from at once leaves in ppkt.
LEMMA FilledLemma ==
  ASSUME KeyInv, NEW c \in Captures, NEW old \in D!Reused,
         NEW pkt, pkt = D!Filled(old, Seen(c))
  PROVE  /\ pkt.key \in Nodes
         /\ pkt.len = IF c.len > 0 THEN c.len ELSE 0
         /\ c.l3 \in {"ip4", "ip6"} => pkt.ipv \in {4, 6}
         /\ c.l3 = "ip4" => pkt.key = <<c.msg.src, c.msg.dst>>
         /\ c.proto = "tcp" /\ c.payload => pkt.pay_load = frame + 1
<1>1. old.key \in Nodes
  BY DEF D!Reused, KeyInv, Nodes, D!Keys
<1>2. Seen(c).key \in Nodes /\ Seen(c).key = <<c.msg.src, c.msg.dst>>
  BY CapturesAssumption, Zenon DEF Seen, D!FrameShape, D!Keys, Nodes
<1>3. /\ Seen(c).l3 = c.l3 /\ Seen(c).len = c.len /\ Seen(c).proto = c.proto
      /\ Seen(c).payload = c.payload
  BY DEF Seen
<1> QED BY <1>1, <1>2, <1>3, Zenon DEF D!Filled

\* What protocolTCP gets is a frame of TcpProto.
LEMMA HandedLemma ==
  ASSUME KeyInv, NEW c \in Captures, D!File(Seen(c))
  PROVE  Handed(c) \in Frames
<1>1. PICK old \in D!Reused : ppkt' = D!Filled(old, Seen(c))
  BY Zenon DEF D!File
<1>2. c.l3 \in {"ip4", "ip6"}
  BY Zenon DEF D!File, D!HasHeaders, Seen
<1>3. /\ ppkt'.key \in Nodes /\ ppkt'.ipv \in {4, 6}
      /\ ppkt'.len = IF c.len > 0 THEN c.len ELSE 0
  BY <1>1, <1>2, FilledLemma
<1>4. Handed(c) \in MayBecome(c)
  BY <1>3 DEF Handed, MayBecome
<1> QED BY <1>4, CapturesAssumption

\* Every step of the composition is a step of TcpProto or leaves it alone.
LEMMA StepLemma ==
  ASSUME KeyInv, [AnalyserNext]_<<vars, displayVars>>
  PROVE  KeyInv' /\ [Next]_vars
<1>1. CASE UNCHANGED <<vars, displayVars>>
  BY <1>1, Zenon DEF vars, displayVars, KeyInv
<1>2. ASSUME NEW c \in Captures, ppkt' = ppkt
      PROVE  KeyInv'
  BY <1>2 DEF KeyInv
<1>3. ASSUME NEW c \in Captures,
             \E old \in D!Reused : ppkt' = D!Filled(old, Seen(c))
      PROVE  KeyInv'
  BY <1>3, FilledLemma DEF KeyInv
<1>4. ASSUME NEW c \in Captures, GivenUp(c)
      PROVE  KeyInv' /\ [Next]_vars
  <2>1. UNCHANGED vars
    BY <1>4 DEF GivenUp
  <2>2. CASE D!Skip(Seen(c))
    BY <2>1, <2>2, <1>2 DEF D!Skip
  <2>3. CASE D!GiveUp(Seen(c))
    BY <2>1, <2>3, <1>3 DEF D!GiveUp
  <2>4. CASE D!NoDashboard(Seen(c))
    BY <2>1, <2>4, <1>3 DEF D!NoDashboard
  <2> QED BY <1>4, <2>2, <2>3, <2>4 DEF GivenUp
<1>5. ASSUME NEW c \in Captures, D!File(Seen(c))
      PROVE  KeyInv'
  BY <1>3, <1>5, Zenon DEF D!File
<1>6. ASSUME NEW c \in Captures, ToUdp(c)
      PROVE  KeyInv' /\ [Next]_vars
  BY <1>5, <1>6 DEF ToUdp
<1>7. ASSUME NEW c \in Captures, ToTcp(c)
      PROVE  KeyInv' /\ [Next]_vars
  BY <1>5, <1>7, HandedLemma DEF ToTcp, Next
<1> QED BY <1>1, <1>4, <1>6, <1>7 DEF AnalyserNext

\* In every behaviour m_Packet names two hosts.
LEMMA KeyInvariance == AnalyserSpec => []KeyInv
<1>1. AnalyserInit => KeyInv
  BY DEF AnalyserInit, D!Init, KeyInv
<1> QED BY <1>1, StepLemma, PTL DEF AnalyserSpec

\* Whatever frames displayStats drops and whatever flow it finds for the
\* others, protocolTCP behaves as TcpProto says.
THEOREM AnalyserImplementsTcp == AnalyserSpec => Spec
<1>1. AnalyserInit => Init
  BY DEF AnalyserInit
<1> QED BY <1>1, StepLemma, KeyInvariance, PTL DEF AnalyserSpec, Spec

\* In the whole analyser every interface object is sound, for any captures.
THEOREM AnalyserObjectsSound == AnalyserSpec => []ObjectsSound
BY AnalyserImplementsTcp, EveryObjectSound, PTL

\* In the whole analyser the reports of a node pair carry later and later
\* times.
THEOREM AnalyserReportsForward == AnalyserSpec => ReportsAdvance
BY AnalyserImplementsTcp, ReportsGoForward, PTL

-----------------------------------------------------------------------------
(***************************************************************************)
(* The histories of displayStats.                                          *)
(***************************************************************************)
\* A step that files nothing.
LEMMA NothingFiled ==
  ASSUME NEW c, GivenUp(c)
  PROVE  UNCHANGED <<own, sixes, parsed>>
BY DEF GivenUp, D!Skip, D!GiveUp, D!NoDashboard

\* protocolTCP parses the payload of the frame at hand, for any captures.
THEOREM PayloadsAreOwn == AnalyserSpec => []PayloadIsOwn
<1>1. AnalyserInit => PayloadIsOwn
  BY DEF AnalyserInit, D!Init, PayloadIsOwn, D!PayloadIsOwn
<1>2. KeyInv /\ PayloadIsOwn /\ [AnalyserNext]_<<vars, displayVars>> => PayloadIsOwn'
  <2> SUFFICES ASSUME KeyInv, PayloadIsOwn, [AnalyserNext]_<<vars, displayVars>>
               PROVE  PayloadIsOwn'
    OBVIOUS
  <2>1. ASSUME parsed' = parsed PROVE PayloadIsOwn'
    BY <2>1 DEF PayloadIsOwn, D!PayloadIsOwn
  <2>2. ASSUME NEW c \in Captures, D!File(Seen(c)) PROVE PayloadIsOwn'
    <3>1. PICK old \in D!Reused :
            \/ parsed' = parsed
            \/ /\ c.proto = "tcp"
               /\ parsed' = <<frame + 1, D!Filled(old, Seen(c)).pay_load>>
      BY <2>2, Zenon DEF D!File, Seen
    <3>2. c.payload
      BY <2>2, Zenon DEF D!File, D!HasPayload, Seen
    <3>3. c.proto = "tcp" => D!Filled(old, Seen(c)).pay_load = frame + 1
      BY <3>2, FilledLemma
    <3> QED BY <3>1, <3>3, <2>1 DEF PayloadIsOwn, D!PayloadIsOwn
  <2> QED BY <2>1, <2>2, NothingFiled DEF AnalyserNext, ToUdp, ToTcp, displayVars
<1> QED BY <1>1, <1>2, KeyInvariance, PTL DEF AnalyserSpec

-----------------------------------------------------------------------------
(***************************************************************************)
(* The first frame.                                                        *)
(***************************************************************************)
\* Before the interval is open there is no interface object; from then on its
\* start bounds them.
BoundInv ==
  /\ curIntStarttime \in Nat /\ curIntEndtime \in Nat
  /\ curIntEndtime = 0 =>
       \A app \in Apps, n \in Nodes : maps[app][n] = NULL /\ printed[app][n] = NULL
  /\ FirstFrameBounds

\* Alignment keeps the order of seconds.
LEMMA AlignedLemma ==
  ASSUME NEW s \in Nat, NEW t \in Nat, s <= t
  PROVE  /\ Aligned(s) \in Nat /\ Aligned(s) <= s /\ Aligned(s) <= Aligned(t)
BY DEF Aligned, WindowLen

\* What is aligned is a number, and a number is at least itself.
LEMMA AlignedNumber ==
  /\ \A s \in Nat : Aligned(s) \in Nat
  /\ \A x \in Nat : x >= x
BY DEF Aligned, WindowLen

\* The window after checkTime is the old one, or is not before the packet's.
LEMMA WindowStart ==
  ASSUME NEW i, NEW s \in Nat
  PROVE  /\ \/ Window(i, s).startTime = i.startTime
            \/ Window(i, s).startTime \in Nat /\ Window(i, s).startTime >= Aligned(s)
         /\ checkTime(i, s) = 2 => Window(i, s).startTime = Aligned(s)
<1>1. Aligned(s) \in Nat /\ Aligned(s) <= s
  BY AlignedLemma
<1> QED BY <1>1 DEF Window, OpenAt, Object

\* The report of a window that closes, and the next window, start where the
\* window of the packet starts.
LEMMA RolledStart ==
  ASSUME NEW app \in Apps, NEW i, ObjectInv(app, i), NEW p \in PacketShape,
         checkTime(i, Second(p.time)) = 2
  PROVE  /\ RollOver(app, i, p).startTime = Window(i, Second(p.time)).startTime
         /\ Swept(app, i, p).startTime = RollOver(app, i, p).startTime
BY RollOverLemma

\* What a message leaves of windows and reports: the old ones, or later ones
\* than the message's own window.
LEMMA MessageBounds ==
  ASSUME IInv, ReportsInv, NEW f \in Frames, NEW a \in Apps, NEW m \in Nodes,
         NEW b \in Nat, b <= Aligned(Second(f.time)),
         Pass(f) \/ Ignore(f) \/ Count(f) \/ Roll(f),
         maps[a][m] # NULL /\ maps[a][m].startTime # 0 => maps[a][m].startTime >= b,
         printed[a][m] # NULL => printed[a][m].time >= b
  PROVE  /\ maps'[a][m] # NULL /\ maps'[a][m].startTime # 0 =>
              maps'[a][m].startTime >= b
         /\ printed'[a][m] # NULL => printed'[a][m].time >= b
<1>1. PICK app, n, i, p, s :
        /\ app = f.app /\ n = Node(f) /\ i = Found(f) /\ p = Message(f)
        /\ s = Second(p.time)
  BY ZenonT(30)
<1>2. /\ app \in Apps /\ n \in Nodes /\ ObjectInv(app, i) /\ p \in PacketShape
      /\ s = Second(f.time) /\ s \in Nat /\ Aligned(s) \in Nat
  <2>1. app \in Apps /\ n \in Nodes /\ ObjectInv(app, i)
    BY <1>1, FoundLemma, Zenon
  <2>2. p \in PacketShape
    BY <1>1, HopLemma, Zenon
  <2>3. f.time \in Nat /\ p.time = f.time
    <3>1. f \in FrameShape
      BY FramesAssumption, Zenon
    <3> QED BY <3>1, <1>1, Zenon DEF FrameShape, Message
  <2>4. s = Second(f.time) /\ s \in Nat
    BY <2>3, <1>1, SecondLemma, Zenon
  <2>5. Aligned(s) \in Nat
    BY <2>4, AlignedNumber, Zenon
  <2> QED BY <2>1, <2>2, <2>4, <2>5, Zenon
<1>3. i.startTime # 0 => maps[app][n] # NULL /\ i = maps[app][n]
  <2>1. NewObject(app) = NewInterface(TypesOf(app))
    BY <1>2, DispatchLemma, ZenonT(30)
  <2>2. NewObject(app).startTime = 0
    BY <2>1 DEF NewInterface, Object
  <2> QED BY <2>2, <1>1, ZenonT(30) DEF Found
<1>4. maps \in [Apps -> [Nodes -> AnyObject \cup {NULL}]]
  BY ZenonT(30) DEF IInv, TypeOK
<1>5. ASSUME NEW j, Deliver(f, j),
             \/ j.startTime = i.startTime
             \/ j.startTime \in Nat /\ j.startTime >= Aligned(s)
      PROVE  maps'[a][m] # NULL /\ maps'[a][m].startTime # 0 =>
               maps'[a][m].startTime >= b
  <2>1. maps' = [maps EXCEPT ![app] = [maps[app] EXCEPT ![n] = j]]
    BY <1>1, <1>5, ZenonT(30) DEF Deliver
  <2>2. CASE a = app /\ m = n
    <3>1. maps'[a][m] = j
      BY <2>1, <2>2, <1>2, <1>4, ZenonT(30)
    <3> QED BY <3>1, <2>2, <1>2, <1>3, <1>5
  <2>3. CASE ~(a = app /\ m = n)
    <3>1. maps'[a][m] = maps[a][m]
      BY <2>1, <2>3, <1>2, <1>4
    <3> QED BY <3>1
  <2> QED BY <2>2, <2>3
<1>6. CASE Pass(f)
  BY <1>6, Zenon DEF Pass
<1>7. CASE Ignore(f)
  <2>1. Deliver(f, i) /\ UNCHANGED printed
    BY <1>1, <1>7, ZenonT(30) DEF Ignore
  <2> QED BY <2>1, <1>5, ZenonT(30)
<1>8. CASE Count(f)
  <2>1. PICK j : j = InWindow(app, i, p)
    BY ZenonT(30)
  <2>2. /\ Deliver(f, j) /\ UNCHANGED printed /\ checkTime(i, s) = 1
    BY <2>1, <1>1, <1>2, <1>8, ZenonT(30) DEF Count
  <2>3. j.startTime = Window(i, s).startTime
    <3>1. checkTime(i, Second(p.time)) = 1
      BY <2>2, <1>1, ZenonT(30)
    <3>2. j.startTime = Window(i, Second(p.time)).startTime
      BY <3>1, <2>1, <1>2, InWindowLemma, ZenonT(30)
    <3> QED BY <3>2, <1>1, Zenon
  <2> QED BY <2>2, <2>3, <1>2, <1>5, WindowStart, ZenonT(30)
<1>9. CASE Roll(f)
  <2>1. PICK j, k : j = RollOver(app, i, p) /\ k = Swept(app, i, p)
    BY ZenonT(30)
  <2>2. /\ Deliver(f, j) /\ checkTime(i, s) = 2
        /\ printed' = [printed EXCEPT ![app] = [printed[app] EXCEPT ![n] = Report(k)]]
    BY <2>1, <1>1, <1>2, <1>9, ZenonT(30) DEF Roll
  <2>3. j.startTime = Window(i, s).startTime /\ k.startTime = j.startTime
    <3>1. /\ checkTime(i, Second(p.time)) = 2
          /\ app \in Apps /\ ObjectInv(app, i) /\ p \in PacketShape
      BY <2>2, <1>1, <1>2, ZenonT(30)
    <3>2. /\ j.startTime = Window(i, Second(p.time)).startTime
          /\ k.startTime = j.startTime
      BY <3>1, <2>1, RolledStart, ZenonT(30)
    <3> QED BY <3>2, <1>1, ZenonT(30)
  <2>4. j.startTime = Aligned(s) /\ Report(k).time = Aligned(s)
    BY <2>2, <2>3, <1>2, WindowStart, Zenon DEF Report
  <2>5. printed = [x \in Apps |-> [y \in Nodes |-> printed[x][y]]]
    BY DEF ReportsInv
  <2>6. printed'[a][m] = IF a = app /\ m = n THEN Report(k) ELSE printed[a][m]
    BY <2>2, <2>5, <1>2, ZenonT(30)
  <2>7. printed'[a][m] # NULL => printed'[a][m].time >= b
    <3>1. Aligned(s) >= b
      BY <1>2
    <3> QED BY <3>1, <2>4, <2>6, ZenonT(30)
  <2>8. j.startTime \in Nat /\ j.startTime >= Aligned(s)
    BY <2>4, <1>2, AlignedNumber, ZenonT(30)
  <2> QED BY <2>2, <2>7, <2>8, <1>5, ZenonT(30)
<1> QED BY <1>6, <1>7, <1>8, <1>9, Zenon

\* Every step keeps the bound.
LEMMA NextBound ==
  ASSUME IInv, ReportsInv, KeyInv, BoundInv, [AnalyserNext]_<<vars, displayVars>>
  PROVE  BoundInv'
<1>1. ASSUME UNCHANGED <<maps, printed, curIntStarttime, curIntEndtime>>
      PROVE  BoundInv'
  BY <1>1, Zenon DEF BoundInv, FirstFrameBounds
<1>2. ASSUME NEW c \in Captures
      PROVE  Seen(c).time = Second(c.msg.time) /\ Second(c.msg.time) \in Nat
  <2>1. c.msg.time \in Nat
    BY CapturesAssumption, Zenon DEF FrameShape
  <2> QED BY <2>1, SecondLemma, Zenon DEF Seen
<1>3. ASSUME NEW c \in Captures, D!OpenInterval(Seen(c)), ~D!TooOld(Seen(c))
      PROVE  /\ curIntStarttime' \in Nat /\ curIntEndtime' \in Nat \ {0}
             /\ curIntStarttime' <= Second(c.msg.time)
             /\ curIntEndtime # 0 => curIntStarttime' = curIntStarttime
  <2>1. PICK t \in Nat : t = Seen(c).time /\ t = Second(c.msg.time)
    BY <1>2, Zenon
  <2>2. PICK a, b \in Nat : a = curIntStarttime /\ b = curIntEndtime
    BY Zenon DEF BoundInv
  <2>3. PICK x, y : x = curIntStarttime' /\ y = curIntEndtime'
    BY Zenon
  <2>4. /\ ~(a > t)
        /\ IF b = 0 THEN x = t /\ y = t + 60 ELSE x = a /\ y = b
    BY <2>1, <2>2, <2>3, <1>3, Zenon DEF D!OpenInterval, D!TooOld, D!TIMEINT
  <2>5. x \in Nat /\ y \in Nat \ {0} /\ x <= t /\ (b # 0 => x = a)
    BY <2>4
  <2> QED BY <2>1, <2>2, <2>3, <2>5, Zenon
<1>4. ASSUME NEW c \in Captures, D!OpenInterval(Seen(c)), ~D!TooOld(Seen(c)),
             UNCHANGED <<maps, printed>>
      PROVE  BoundInv'
  BY <1>3, <1>4, Zenon DEF BoundInv, FirstFrameBounds
<1>5. ASSUME NEW c \in Captures, GivenUp(c) PROVE BoundInv'
  <2>1. UNCHANGED <<maps, printed>>
    BY <1>5 DEF GivenUp, vars
  <2>2. \/ UNCHANGED <<curIntStarttime, curIntEndtime>>
        \/ D!OpenInterval(Seen(c)) /\ ~D!TooOld(Seen(c))
    BY <1>5 DEF GivenUp, D!Skip, D!GiveUp, D!NoDashboard
  <2> QED BY <2>1, <2>2, <1>1, <1>4
<1>6. ASSUME NEW c \in Captures, ToUdp(c) PROVE BoundInv'
  BY <1>4, <1>6, ZenonT(30) DEF ToUdp, D!File, vars
<1>7. ASSUME NEW c \in Captures, ToTcp(c) PROVE BoundInv'
  <2>1. PICK f \in Frames : /\ f = Handed(c)
                            /\ Pass(f) \/ Ignore(f) \/ Count(f) \/ Roll(f)
    BY <1>7, HandedLemma DEF ToTcp
  <2>2. f.time = c.msg.time
    BY <2>1, CapturesAssumption, Zenon DEF Handed, AsRead, FrameShape
  <2>3. PICK b : b = Aligned(curIntStarttime')
    OBVIOUS
  <2>4. /\ curIntStarttime' \in Nat /\ curIntEndtime' \in Nat \ {0}
        /\ curIntStarttime' <= Second(c.msg.time)
        /\ curIntEndtime # 0 => curIntStarttime' = curIntStarttime
    BY <1>3, <1>7, Zenon DEF ToTcp, D!File
  <2>5. b \in Nat /\ b <= Aligned(Second(f.time))
    BY <2>2, <2>3, <2>4, <1>2, AlignedLemma, Zenon
  <2>6. ASSUME NEW a \in Apps, NEW m \in Nodes
        PROVE  /\ maps'[a][m] # NULL /\ maps'[a][m].startTime # 0 =>
                    maps'[a][m].startTime >= b
               /\ printed'[a][m] # NULL => printed'[a][m].time >= b
    <3>1. /\ maps[a][m] # NULL /\ maps[a][m].startTime # 0 =>
               maps[a][m].startTime >= b
          /\ printed[a][m] # NULL => printed[a][m].time >= b
      BY <2>3, <2>4, Zenon DEF BoundInv, FirstFrameBounds
    <3> QED BY <3>1, <2>1, <2>5, MessageBounds, Zenon
  <2> QED BY <2>3, <2>4, <2>6, ZenonT(30) DEF BoundInv, FirstFrameBounds
<1>8. CASE UNCHANGED <<vars, displayVars>>
  BY <1>1, <1>8, Zenon DEF vars, displayVars
<1> QED BY <1>5, <1>6, <1>7, <1>8, Zenon DEF AnalyserNext

\* The first frame that displayStats accepts bounds all windows and reports,
\* for any captures in any order.
THEOREM FirstFrameIsBound == AnalyserSpec => []FirstFrameBounds
<1>1. AnalyserInit => BoundInv
  BY DEF AnalyserInit, Init, D!Init, BoundInv, FirstFrameBounds
<1>2. IInv /\ ReportsInv /\ KeyInv /\ BoundInv /\ [AnalyserNext]_<<vars, displayVars>>
        => BoundInv'
  BY NextBound
<1>3. AnalyserSpec => []BoundInv
  BY <1>1, <1>2, AnalyserImplementsTcp, Invariance, ReportsInvariance,
     KeyInvariance, PTL DEF AnalyserSpec
<1>4. BoundInv => FirstFrameBounds
  BY DEF BoundInv
<1> QED BY <1>3, <1>4, PTL

-----------------------------------------------------------------------------
(***************************************************************************)
(* Sums over finite sets.                                                  *)
(***************************************************************************)
\* A set of numbers that is not empty has a least one.
LEMMA LeastNumber ==
  ASSUME NEW T \in SUBSET Nat, T # {}
  PROVE  \E x \in T : \A y \in T : x <= y
<1>1. PICK R : R = {ss \in Nat \X Nat : ss[1] < ss[2]}
  BY Zenon
<1>2. IsWellFoundedOn(R, Nat)
  BY <1>1, NatLessThanWellFounded DEF OpToRel
<1>3. PICK x \in T : \A y \in T : ~(<<y, x>> \in R)
  BY <1>2, WFMin, Zenon
<1>4. \A y \in T : y \in Nat /\ x \in Nat /\ ~(y < x)
  BY <1>1, <1>3, Zenon
<1> QED BY <1>4

\* What holds of a finite set when it holds of the set without any one of its
\* elements holds of all finite sets.
LEMMA SubsetInduction ==
  ASSUME NEW S, IsFiniteSet(S), NEW Good,
         \A s \in SUBSET S : (\A x \in s : s \ {x} \in Good) => s \in Good
  PROVE  \A s \in SUBSET S : s \in Good
<1>1. PICK F, R : F = {s \in SUBSET S : s \notin Good} /\ R = StrictSubsetOrdering(S)
  BY Zenon
<1>2. SUFFICES ASSUME F # {} PROVE FALSE
  BY <1>1, Zenon
<1>3. F \subseteq FiniteSubsetsOf(S)
  BY <1>1, FS_Subset, Zenon DEF FiniteSubsetsOf
<1>4. IsWellFoundedOn(R, FiniteSubsetsOf(S))
  BY <1>1, FS_StrictSubsetOrderingWellFounded, Zenon
<1>5. PICK m \in F : \A n \in F : ~(<<n, m>> \in R)
  BY <1>2, <1>3, <1>4, WFMin, Zenon
<1>6. ASSUME NEW x \in m PROVE m \ {x} \in Good
  <2>1. m \in SUBSET S /\ m \ {x} \in SUBSET S /\ m \ {x} \subseteq m /\ m \ {x} # m
    BY <1>1, Zenon
  <2>2. <<m \ {x}, m>> \in R
    BY <2>1, <1>1 DEF StrictSubsetOrdering
  <2> QED BY <2>1, <2>2, <1>1, <1>5, Zenon
<1> QED BY <1>1, <1>6, Zenon

\* The element that the fold over s begins with.
Pick(s) == CHOOSE x \in s : TRUE

\* ... is one of s.
LEMMA PickLemma == \A s : s # {} => Pick(s) \in s
BY Zenon DEF Pick

\* it has the sum of w over s, from what it has for less.
SumAt(it, w, s) == it[s] = IF s = {} THEN 0 ELSE w[Pick(s)] + it[s \ {Pick(s)}]

\* it has the sums of w over the subsets of S.
Sums(it, w, S) == \A s \in SUBSET S : SumAt(it, w, s)

\* it solves the recursion of the fold.
Solves(it, w, S) ==
  it = [s \in SUBSET S |-> IF s = {} THEN 0 ELSE w[Pick(s)] + it[s \ {Pick(s)}]]

\* The recursion of the fold has a solution: were there a least size for
\* which it has none, the one for the size before could be extended.
LEMMA SumsExist ==
  ASSUME NEW S, IsFiniteSet(S), NEW w
  PROVE  \E it : Solves(it, w, S)
<1>1. PICK T : T = {n \in Nat : ~ \E f : \A s \in SUBSET S : Cardinality(s) <= n => SumAt(f, w, s)}
  BY Zenon
<1>2. ASSUME NEW s \in SUBSET S
      PROVE  /\ IsFiniteSet(s) /\ Cardinality(s) \in Nat /\ Cardinality(s) <= Cardinality(S)
             /\ s # {} => /\ s \ {Pick(s)} \in SUBSET S
                          /\ Cardinality(s \ {Pick(s)}) = Cardinality(s) - 1
             /\ Cardinality(s) = 0 => s = {}
  <2>1. IsFiniteSet(s) /\ Cardinality(s) <= Cardinality(S)
    BY FS_Subset
  <2>2. Cardinality(s) \in Nat /\ (Cardinality(s) = 0 => s = {})
    BY <2>1, FS_CardinalityType, FS_EmptySet, Zenon
  <2>3. s # {} => Cardinality(s \ {Pick(s)}) = Cardinality(s) - 1
    BY <2>1, PickLemma, FS_RemoveElement
  <2> QED BY <2>1, <2>2, <2>3, Zenon
<1>3. T = {}
  <2>1. SUFFICES ASSUME T # {} PROVE FALSE
    BY Zenon
  <2>2. PICK n \in T : \A m \in T : n <= m
    BY <2>1, <1>1, LeastNumber, Zenon
  <2>3. n \in Nat /\ ~ \E f : \A s \in SUBSET S : Cardinality(s) <= n => SumAt(f, w, s)
    BY <1>1, Zenon
  <2>4. CASE n = 0
    <3>1. PICK f : f = [s \in SUBSET S |-> 0]
      BY Zenon
    <3>2. ASSUME NEW s \in SUBSET S, Cardinality(s) <= n PROVE SumAt(f, w, s)
      <4>1. PICK k \in Nat : k = Cardinality(s) /\ k <= 0
        BY <3>2, <2>4, <1>2, Zenon
      <4>2. k = 0
        BY <4>1
      <4>3. s = {}
        BY <4>1, <4>2, <1>2, Zenon
      <4> QED BY <4>3, <3>1, Zenon DEF SumAt
    <3> QED BY <3>2, <2>3, Zenon
  <2>5. CASE n # 0
    <3>1. n - 1 \in Nat /\ ~(n <= n - 1)
      BY <2>3, <2>5
    <3>2. PICK f : \A s \in SUBSET S : Cardinality(s) <= n - 1 => SumAt(f, w, s)
      BY <3>1, <2>2, <1>1, Zenon
    <3>3. PICK g : g = [s \in SUBSET S |->
                          IF s = {} THEN 0 ELSE w[Pick(s)] + f[s \ {Pick(s)}]]
      BY Zenon
    <3>4. ASSUME NEW s \in SUBSET S, Cardinality(s) <= n - 1 PROVE g[s] = f[s]
      BY <3>2, <3>3, <3>4, Zenon DEF SumAt
    <3>5. ASSUME NEW s \in SUBSET S, Cardinality(s) <= n PROVE SumAt(g, w, s)
      <4>1. CASE s = {}
        BY <4>1, <3>3, Zenon DEF SumAt
      <4>2. CASE s # {}
        <5>1. s \ {Pick(s)} \in SUBSET S
          BY <4>2, <1>2, Zenon
        <5>2. Cardinality(s \ {Pick(s)}) <= n - 1
          BY <4>2, <3>5, <2>3, <1>2
        <5>3. g[s \ {Pick(s)}] = f[s \ {Pick(s)}]
          BY <5>1, <5>2, <3>4, Zenon
        <5> QED BY <5>3, <4>2, <3>3, Zenon DEF SumAt
      <4> QED BY <4>1, <4>2, Zenon
    <3> QED BY <3>5, <2>3, Zenon
  <2> QED BY <2>4, <2>5, Zenon
<1>4. PICK f : \A s \in SUBSET S : Cardinality(s) <= Cardinality(S) => SumAt(f, w, s)
  <2>1. Cardinality(S) \in Nat
    BY FS_CardinalityType, Zenon
  <2> QED BY <2>1, <1>1, <1>3, Zenon
<1>5. PICK g : g = [s \in SUBSET S |-> f[s]]
  BY Zenon
<1>6. ASSUME NEW s \in SUBSET S
      PROVE  g[s] = IF s = {} THEN 0 ELSE w[Pick(s)] + g[s \ {Pick(s)}]
  <2>1. f[s] = IF s = {} THEN 0 ELSE w[Pick(s)] + f[s \ {Pick(s)}]
    BY <1>2, <1>4, Zenon DEF SumAt
  <2>2. s \ {Pick(s)} \in SUBSET S
    BY Zenon
  <2>3. g[s] = f[s] /\ g[s \ {Pick(s)}] = f[s \ {Pick(s)}]
    BY <2>2, <1>5, Zenon
  <2> QED BY <2>1, <2>3, Zenon
<1>7. g = [s \in SUBSET S |-> IF s = {} THEN 0 ELSE w[Pick(s)] + g[s \ {Pick(s)}]]
  BY <1>5, <1>6, Zenon
<1> QED BY <1>7, Zenon DEF Solves

\* What is summed are numbers.
Numbers(w, S) == \A x \in S : w[x] \in Nat

\* Sums of numbers are numbers.
LEMMA SumsType ==
  ASSUME NEW S, IsFiniteSet(S), NEW w, Numbers(w, S), NEW it, Sums(it, w, S)
  PROVE  \A s \in SUBSET S : it[s] \in Nat
<1>1. \A s \in SUBSET S : it[s] = IF s = {} THEN 0 ELSE w[Pick(s)] + it[s \ {Pick(s)}]
  BY Zenon DEF Sums, SumAt
<1>2. PICK G : G = {s \in SUBSET S : it[s] \in Nat}
  BY Zenon
<1>3. ASSUME NEW s \in SUBSET S, \A x \in s : s \ {x} \in G PROVE s \in G
  <2>1. CASE s = {}
    <3>1. it[s] = 0
      BY <2>1, <1>1, Zenon
    <3> QED BY <3>1, <1>2
  <2>2. CASE s # {}
    <3>1. PICK y \in s : y = Pick(s)
      BY <2>2, PickLemma, Zenon
    <3>2. PICK a, b \in Nat : a = w[y] /\ b = it[s \ {y}]
      BY <3>1, <1>2, <1>3, Zenon DEF Numbers
    <3>3. it[s] = a + b
      BY <3>1, <3>2, <2>2, <1>1, Zenon
    <3>4. a + b \in Nat
      OBVIOUS
    <3> QED BY <3>3, <3>4, <1>2, Zenon
  <2> QED BY <2>1, <2>2, Zenon
<1>4. \A s \in SUBSET S : s \in G
  BY <1>3, SubsetInduction, Zenon
<1> QED BY <1>2, <1>4, Zenon

\* The sum of w over a set is any summand and the sum of the others.
AnyFirst(it, w, S) == \A s \in SUBSET S : \A x \in s : it[s] = w[x] + it[s \ {x}]

\* The fold may begin with any element.
LEMMA SumsLemma ==
  ASSUME NEW S, IsFiniteSet(S), NEW w, Numbers(w, S), NEW it, Sums(it, w, S)
  PROVE  AnyFirst(it, w, S)
<1>1. \A s \in SUBSET S : it[s] = IF s = {} THEN 0 ELSE w[Pick(s)] + it[s \ {Pick(s)}]
  BY Zenon DEF Sums, SumAt
<1>2. PICK G : G = {s \in SUBSET S : \A x \in s : it[s] = w[x] + it[s \ {x}]}
  BY Zenon
<1>3. ASSUME NEW s \in SUBSET S, \A x \in s : s \ {x} \in G PROVE s \in G
  <2>1. ASSUME NEW x \in s PROVE it[s] = w[x] + it[s \ {x}]
    <3>1. PICK y \in s : y = Pick(s)
      BY PickLemma, Zenon
    <3>2. it[s] = w[y] + it[s \ {y}]
      BY <3>1, <1>1, Zenon
    <3>3. CASE x = y
      BY <3>2, <3>3, Zenon
    <3>4. CASE x # y
      <4>1. PICK r : r = (s \ {x}) \ {y} /\ r = (s \ {y}) \ {x}
        <5>1. (s \ {x}) \ {y} = (s \ {y}) \ {x}
          BY Zenon
        <5> QED BY <5>1, Zenon
      <4>2. it[s \ {y}] = w[x] + it[r] /\ it[s \ {x}] = w[y] + it[r]
        <5>1. x \in s \ {y} /\ y \in s \ {x}
          BY <3>4, Zenon
        <5> QED BY <5>1, <4>1, <1>2, <1>3, Zenon
      <4>3. r \in SUBSET S /\ x \in S /\ y \in S
        BY <4>1, Zenon
      <4>4. PICK a, b, c \in Nat : a = w[x] /\ b = w[y] /\ c = it[r]
        BY <4>3, SumsType, Zenon DEF Numbers
      <4>5. a + (b + c) = b + (a + c)
        OBVIOUS
      <4> QED BY <3>2, <4>2, <4>4, <4>5, Zenon
    <3> QED BY <3>3, <3>4, Zenon
  <2> QED BY <2>1, <1>2, Zenon
<1>4. \A s \in SUBSET S : s \in G
  BY <1>3, SubsetInduction, Zenon
<1> QED BY <1>2, <1>4, Zenon DEF AnyFirst

\* The sum over a set depends only on what is summed over it.
LEMMA SumsAgree ==
  ASSUME NEW S, NEW w, NEW it, Sums(it, w, S), NEW U, NEW v, NEW jt, Sums(jt, v, U),
         NEW A \in SUBSET S, A \in SUBSET U, IsFiniteSet(A), \A x \in A : v[x] = w[x]
  PROVE  it[A] = jt[A]
<1>1. \A s \in SUBSET A : /\ it[s] = IF s = {} THEN 0 ELSE w[Pick(s)] + it[s \ {Pick(s)}]
                          /\ jt[s] = IF s = {} THEN 0 ELSE v[Pick(s)] + jt[s \ {Pick(s)}]
  <2>1. \A s \in SUBSET A : s \in SUBSET S /\ s \in SUBSET U
    BY Zenon
  <2> QED BY <2>1, Zenon DEF Sums, SumAt
<1>2. PICK G : G = {s \in SUBSET A : it[s] = jt[s]}
  BY Zenon
<1>3. ASSUME NEW s \in SUBSET A, \A x \in s : s \ {x} \in G PROVE s \in G
  <2>1. CASE s = {}
    BY <2>1, <1>1, <1>2, Zenon
  <2>2. CASE s # {}
    <3>1. PICK y \in s : y = Pick(s)
      BY <2>2, PickLemma, Zenon
    <3>2. it[s \ {y}] = jt[s \ {y}] /\ v[y] = w[y]
      BY <1>2, <1>3, <3>1, Zenon
    <3>3. it[s] = w[y] + it[s \ {y}] /\ jt[s] = v[y] + jt[s \ {y}]
      BY <3>1, <2>2, <1>1, Zenon
    <3> QED BY <3>2, <3>3, <1>2, Zenon
  <2> QED BY <2>1, <2>2, Zenon
<1>4. \A s \in SUBSET A : s \in G
  BY <1>3, SubsetInduction, Zenon
<1> QED BY <1>2, <1>4, Zenon

\* The summand k, which may be new in v, is the only one that grows, by d.
OneMore(w, v, S, k, d) ==
  /\ \A x \in S : x # k => v[x] = w[x]
  /\ k \in S => v[k] = w[k] + d
  /\ k \notin S => v[k] = d

\* One summand, which may be new, grows by d: so does the sum.
LEMMA SumGrows ==
  ASSUME NEW S, IsFiniteSet(S), NEW w, Numbers(w, S), NEW it, Sums(it, w, S),
         NEW k, NEW U, U = S \cup {k}, NEW v, NEW jt, Sums(jt, v, U), NEW d \in Nat,
         OneMore(w, v, S, k, d)
  PROVE  it[S] \in Nat /\ jt[U] = it[S] + d
<1>0. /\ \A x \in S : x # k => v[x] = w[x]
      /\ k \in S => v[k] = w[k] + d
      /\ k \notin S => v[k] = d
  BY Zenon DEF OneMore
<1>1. PICK A : A = S \ {k} /\ A = U \ {k}
  BY Zenon
<1>2. IsFiniteSet(A) /\ IsFiniteSet(U) /\ A \in SUBSET S /\ A \in SUBSET U
  <2>1. IsFiniteSet(A)
    BY <1>1, FS_RemoveElement
  <2>2. IsFiniteSet(U)
    BY FS_AddElement
  <2> QED BY <2>1, <2>2, <1>1, Zenon
<1>3. it[A] = jt[A]
  <2>1. \A x \in A : v[x] = w[x]
    BY <1>0, <1>1, Zenon
  <2> QED BY <2>1, <1>2, SumsAgree
<1>4. PICK a \in Nat : a = it[A] /\ it[S] \in Nat
  BY <1>2, SumsType, Zenon
<1>5. CASE k \in S
  <2>1. PICK b \in Nat : b = w[k]
    BY <1>5, Zenon DEF Numbers
  <2>2. it[S] = b + a
    <3>1. AnyFirst(it, w, S)
      BY SumsLemma, Zenon
    <3>2. it[S] = w[k] + it[S \ {k}]
      BY <3>1, <1>5, Zenon DEF AnyFirst
    <3> QED BY <3>2, <2>1, <1>1, <1>4, Zenon
  <2>3. Numbers(v, U)
    <3>1. b + d \in Nat
      OBVIOUS
    <3> QED BY <3>1, <2>1, <1>0, <1>5, Zenon DEF Numbers
  <2>4. jt[U] = (b + d) + a
    <3>1. AnyFirst(jt, v, U)
      BY <2>3, <1>2, SumsLemma, Zenon
    <3>2. jt[U] = v[k] + jt[U \ {k}]
      BY <3>1, Zenon DEF AnyFirst
    <3> QED BY <3>2, <2>1, <1>0, <1>1, <1>3, <1>4, <1>5, Zenon
  <2>5. (b + d) + a = (b + a) + d
    OBVIOUS
  <2> QED BY <2>2, <2>4, <2>5, <1>4, Zenon
<1>6. CASE k \notin S
  <2>1. A = S
    BY <1>1, <1>6, Zenon
  <2>2. Numbers(v, U)
    BY <1>0, <1>6, Zenon DEF Numbers
  <2>3. jt[U] = d + a
    <3>1. AnyFirst(jt, v, U)
      BY <2>2, <1>2, SumsLemma, Zenon
    <3>2. jt[U] = v[k] + jt[U \ {k}]
      BY <3>1, Zenon DEF AnyFirst
    <3> QED BY <3>2, <1>0, <1>1, <1>3, <1>4, <1>6, Zenon
  <2>4. d + a = a + d
    OBVIOUS
  <2> QED BY <2>1, <2>3, <2>4, <1>4, Zenon
<1> QED BY <1>5, <1>6, Zenon

-----------------------------------------------------------------------------
(***************************************************************************)
(* The totals of displayStats.                                             *)
(***************************************************************************)
\* The dashboards of displayStats: a flow, or none, for each key.
Dashboards == [{"tcp", "udp"} -> [D!Keys -> D!FlowShape \cup {NULL}]]

\* The flows of the dashboards db, and what each has counted.
FlowsOf(db) == {x \in {"tcp", "udp"} \X D!Keys : db[x[1]][x[2]] # NULL}
PktsOf(db)  == [x \in FlowsOf(db) |-> db[x[1]][x[2]].pkts]
DataOf(db)  == [x \in FlowsOf(db) |-> db[x[1]][x[2]].data]
SixOf(db)   == [x \in FlowsOf(db) |-> db[x[1]][x[2]].v6]

\* The sums over sets of flows.
ArePktSums(it, db) ==
  it = [s \in SUBSET FlowsOf(db) |->
          IF s = {} THEN 0 ELSE db[Pick(s)[1]][Pick(s)[2]].pkts + it[s \ {Pick(s)}]]
PktSums(db) == CHOOSE it : ArePktSums(it, db)

AreDataSums(it, db) ==
  it = [s \in SUBSET FlowsOf(db) |->
          IF s = {} THEN 0 ELSE db[Pick(s)[1]][Pick(s)[2]].data + it[s \ {Pick(s)}]]
DataSums(db) == CHOOSE it : AreDataSums(it, db)

AreSixSums(it, db) ==
  it = [s \in SUBSET FlowsOf(db) |->
          IF s = {} THEN 0 ELSE db[Pick(s)[1]][Pick(s)[2]].v6 + it[s \ {Pick(s)}]]
SixSums(db) == CHOOSE it : AreSixSums(it, db)

\* What the flows have counted, before a step and after it.
LEMMA FlowSums ==
  /\ D!Flows = FlowsOf(dashboard) /\ D!Flows' = FlowsOf(dashboard')
  /\ D!FlowPkts = PktSums(dashboard)[FlowsOf(dashboard)]
  /\ D!FlowData = DataSums(dashboard)[FlowsOf(dashboard)]
  /\ D!FlowSixes = SixSums(dashboard)[FlowsOf(dashboard)]
  /\ D!FlowPkts' = PktSums(dashboard')[FlowsOf(dashboard')]
  /\ D!FlowData' = DataSums(dashboard')[FlowsOf(dashboard')]
<1>1. D!Flows = FlowsOf(dashboard) /\ D!Flows' = FlowsOf(dashboard')
  BY Zenon DEF D!Flows, FlowsOf
<1>2. /\ D!FlowPkts = PktSums(dashboard)[FlowsOf(dashboard)]
      /\ D!FlowPkts' = PktSums(dashboard')[FlowsOf(dashboard')]
  BY Zenon DEF D!FlowPkts, D!MapThenSumSet, D!MapThenFoldSet, D!FlowOf, Pick, PktSums, ArePktSums,
               D!Flows, FlowsOf
<1>3. /\ D!FlowData = DataSums(dashboard)[FlowsOf(dashboard)]
      /\ D!FlowData' = DataSums(dashboard')[FlowsOf(dashboard')]
  BY Zenon DEF D!FlowData, D!MapThenSumSet, D!MapThenFoldSet, D!FlowOf, Pick, DataSums, AreDataSums,
               D!Flows, FlowsOf
<1>4. D!FlowSixes = SixSums(dashboard)[FlowsOf(dashboard)]
  BY Zenon DEF D!FlowSixes, D!MapThenSumSet, D!MapThenFoldSet, D!FlowOf, Pick, SixSums, AreSixSums,
               D!Flows, FlowsOf
<1> QED BY <1>1, <1>2, <1>3, <1>4, Zenon

\* The sums are sums.
LEMMA FlowSumsLemma ==
  ASSUME NEW db, IsFiniteSet(FlowsOf(db))
  PROVE  /\ Sums(PktSums(db), PktsOf(db), FlowsOf(db))
         /\ Sums(DataSums(db), DataOf(db), FlowsOf(db))
         /\ Sums(SixSums(db), SixOf(db), FlowsOf(db))
<1>1. PICK F, u, v, w : F = FlowsOf(db) /\ u = PktsOf(db) /\ v = DataOf(db) /\ w = SixOf(db)
  BY Zenon
<1>2. ASSUME NEW s \in SUBSET F, s # {}
      PROVE  /\ u[Pick(s)] = db[Pick(s)[1]][Pick(s)[2]].pkts
             /\ v[Pick(s)] = db[Pick(s)[1]][Pick(s)[2]].data
             /\ w[Pick(s)] = db[Pick(s)[1]][Pick(s)[2]].v6
  <2>1. Pick(s) \in FlowsOf(db)
    BY <1>1, <1>2, PickLemma, Zenon
  <2> QED BY <2>1, <1>1, Zenon DEF PktsOf, DataOf, SixOf
<1>3. Sums(PktSums(db), u, F)
  <2>1. PICK it : Solves(it, u, F)
    BY <1>1, SumsExist, Zenon
  <2>2. ArePktSums(it, db)
    BY <2>1, <1>1, <1>2, Zenon DEF Solves, ArePktSums
  <2>3. PICK jt : jt = PktSums(db) /\ ArePktSums(jt, db)
    BY <2>2, Zenon DEF PktSums
  <2>4. \A s \in SUBSET F : jt[s] = IF s = {} THEN 0 ELSE u[Pick(s)] + jt[s \ {Pick(s)}]
    BY <2>3, <1>1, <1>2, Zenon DEF ArePktSums
  <2> QED BY <2>3, <2>4, Zenon DEF Sums, SumAt
<1>4. Sums(DataSums(db), v, F)
  <2>1. PICK it : Solves(it, v, F)
    BY <1>1, SumsExist, Zenon
  <2>2. AreDataSums(it, db)
    BY <2>1, <1>1, <1>2, Zenon DEF Solves, AreDataSums
  <2>3. PICK jt : jt = DataSums(db) /\ AreDataSums(jt, db)
    BY <2>2, Zenon DEF DataSums
  <2>4. \A s \in SUBSET F : jt[s] = IF s = {} THEN 0 ELSE v[Pick(s)] + jt[s \ {Pick(s)}]
    BY <2>3, <1>1, <1>2, Zenon DEF AreDataSums
  <2> QED BY <2>3, <2>4, Zenon DEF Sums, SumAt
<1>5. Sums(SixSums(db), w, F)
  <2>1. PICK it : Solves(it, w, F)
    BY <1>1, SumsExist, Zenon
  <2>2. AreSixSums(it, db)
    BY <2>1, <1>1, <1>2, Zenon DEF Solves, AreSixSums
  <2>3. PICK jt : jt = SixSums(db) /\ AreSixSums(jt, db)
    BY <2>2, Zenon DEF SixSums
  <2>4. \A s \in SUBSET F : jt[s] = IF s = {} THEN 0 ELSE w[Pick(s)] + jt[s \ {Pick(s)}]
    BY <2>3, <1>1, <1>2, Zenon DEF AreSixSums
  <2> QED BY <2>3, <2>4, Zenon DEF Sums, SumAt
<1> QED BY <1>1, <1>3, <1>4, <1>5, Zenon

\* The flow k of type t, which may be new, has counted one packet of d bytes,
\* and e as IPv6: fl.
CountsOne(db, t, k, fl, d, e) ==
  /\ db[t][k] = NULL => fl.pkts = 1 /\ fl.data = d /\ fl.v6 = e
  /\ db[t][k] # NULL => /\ fl.pkts = db[t][k].pkts + 1 /\ fl.data = db[t][k].data + d
                         /\ fl.v6 = db[t][k].v6 + e

\* And so have all flows of eb together, compared with those of db.
SumsGrew(db, eb, d, e) ==
  /\ PktSums(db)[FlowsOf(db)] \in Nat /\ DataSums(db)[FlowsOf(db)] \in Nat
  /\ SixSums(db)[FlowsOf(db)] \in Nat
  /\ PktSums(eb)[FlowsOf(eb)] = PktSums(db)[FlowsOf(db)] + 1
  /\ DataSums(eb)[FlowsOf(eb)] = DataSums(db)[FlowsOf(db)] + d
  /\ SixSums(eb)[FlowsOf(eb)] = SixSums(db)[FlowsOf(db)] + e

\* One flow, which may be new, counts one packet of d bytes: the sums count it once.
LEMMA FlowGrows ==
  ASSUME NEW db \in Dashboards, IsFiniteSet(FlowsOf(db)), NEW t \in {"tcp", "udp"},
         NEW k \in D!Keys, NEW fl \in D!FlowShape, NEW eb, eb = [db EXCEPT ![t][k] = fl],
         NEW d \in Nat, NEW e \in Nat, CountsOne(db, t, k, fl, d, e)
  PROVE  eb \in Dashboards /\ IsFiniteSet(FlowsOf(eb)) /\ SumsGrew(db, eb, d, e)
<1>1. eb \in Dashboards
  BY Zenon DEF Dashboards
<1>2. PICK S, U, x0 : S = FlowsOf(db) /\ U = FlowsOf(eb) /\ x0 = <<t, k>>
  BY Zenon
<1>3. ASSUME NEW x \in {"tcp", "udp"} \X D!Keys
      PROVE  eb[x[1]][x[2]] = IF x = x0 THEN fl ELSE db[x[1]][x[2]]
  <2>1. PICK a \in {"tcp", "udp"}, b \in D!Keys : x = <<a, b>>
    OBVIOUS
  <2>2. eb[a][b] = IF a = t /\ b = k THEN fl ELSE db[a][b]
    BY Zenon DEF Dashboards
  <2>3. x = x0 <=> a = t /\ b = k
    BY <2>1, <1>2, Zenon
  <2>4. x[1] = a /\ x[2] = b
    BY <2>1, Zenon
  <2> QED BY <2>2, <2>3, <2>4, Zenon
<1>4. x0 \in {"tcp", "udp"} \X D!Keys /\ x0[1] = t /\ x0[2] = k /\ fl # NULL
  BY <1>2, FlowsAssumption, Zenon
<1>5. U = S \cup {x0}
  BY <1>2, <1>3, <1>4, Zenon DEF FlowsOf
<1>6. IsFiniteSet(U)
  <2>1. IsFiniteSet(S)
    BY <1>2, Zenon
  <2> QED BY <2>1, <1>5, FS_AddElement
<1>7. /\ Sums(PktSums(db), PktsOf(db), S) /\ Sums(DataSums(db), DataOf(db), S)
      /\ Sums(PktSums(eb), PktsOf(eb), U) /\ Sums(DataSums(eb), DataOf(eb), U)
      /\ Sums(SixSums(db), SixOf(db), S) /\ Sums(SixSums(eb), SixOf(eb), U)
  BY <1>2, <1>6, FlowSumsLemma, Zenon
<1>8. /\ \A x \in S : /\ PktsOf(db)[x] = db[x[1]][x[2]].pkts
                      /\ DataOf(db)[x] = db[x[1]][x[2]].data
                      /\ SixOf(db)[x] = db[x[1]][x[2]].v6
      /\ \A x \in U : /\ PktsOf(eb)[x] = eb[x[1]][x[2]].pkts
                      /\ DataOf(eb)[x] = eb[x[1]][x[2]].data
                      /\ SixOf(eb)[x] = eb[x[1]][x[2]].v6
  BY <1>2, Zenon DEF PktsOf, DataOf, SixOf
<1>9. ASSUME NEW x \in S
      PROVE  x \in {"tcp", "udp"} \X D!Keys /\ db[x[1]][x[2]] \in D!FlowShape
  <2>1. x \in {"tcp", "udp"} \X D!Keys /\ db[x[1]][x[2]] # NULL
    BY <1>2, Zenon DEF FlowsOf
  <2>2. x[1] \in {"tcp", "udp"} /\ x[2] \in D!Keys
    BY <2>1, Zenon
  <2> QED BY <2>1, <2>2, Zenon DEF Dashboards
<1>10. Numbers(PktsOf(db), S) /\ Numbers(DataOf(db), S) /\ Numbers(SixOf(db), S)
  BY <1>8, <1>9, Zenon DEF Numbers, D!FlowShape
<1>11. \A x \in S : x # x0 =>
         /\ PktsOf(eb)[x] = PktsOf(db)[x] /\ DataOf(eb)[x] = DataOf(db)[x]
         /\ SixOf(eb)[x] = SixOf(db)[x]
  <2>1. ASSUME NEW x \in S, x # x0
        PROVE  /\ PktsOf(eb)[x] = PktsOf(db)[x] /\ DataOf(eb)[x] = DataOf(db)[x]
               /\ SixOf(eb)[x] = SixOf(db)[x]
    <3>1. x \in U /\ eb[x[1]][x[2]] = db[x[1]][x[2]]
      BY <2>1, <1>3, <1>5, <1>9, Zenon
    <3>2. PktsOf(eb)[x] = PktsOf(db)[x]
      <4>1. PktsOf(db)[x] = db[x[1]][x[2]].pkts
        BY <1>8, Zenon
      <4>2. PktsOf(eb)[x] = eb[x[1]][x[2]].pkts
        BY <3>1, <1>8, Zenon
      <4> QED BY <4>1, <4>2, <3>1, Zenon
    <3>3. DataOf(eb)[x] = DataOf(db)[x]
      <4>1. DataOf(db)[x] = db[x[1]][x[2]].data
        BY <1>8, Zenon
      <4>2. DataOf(eb)[x] = eb[x[1]][x[2]].data
        BY <3>1, <1>8, Zenon
      <4> QED BY <4>1, <4>2, <3>1, Zenon
    <3>4. SixOf(eb)[x] = SixOf(db)[x]
      <4>1. SixOf(db)[x] = db[x[1]][x[2]].v6
        BY <1>8, Zenon
      <4>2. SixOf(eb)[x] = eb[x[1]][x[2]].v6
        BY <3>1, <1>8, Zenon
      <4> QED BY <4>1, <4>2, <3>1, Zenon
    <3> QED BY <3>2, <3>3, <3>4, Zenon
  <2> QED BY <2>1, Zenon
<1>12. PktsOf(eb)[x0] = fl.pkts /\ DataOf(eb)[x0] = fl.data /\ SixOf(eb)[x0] = fl.v6
  <2>1. x0 \in U /\ eb[x0[1]][x0[2]] = fl
    BY <1>3, <1>4, <1>5, Zenon
  <2> QED BY <2>1, <1>8, Zenon
<1>13. x0 \in S <=> db[t][k] # NULL
  BY <1>2, <1>4, Zenon DEF FlowsOf
<1>14. /\ x0 \in S => /\ PktsOf(eb)[x0] = PktsOf(db)[x0] + 1
                      /\ DataOf(eb)[x0] = DataOf(db)[x0] + d
                      /\ SixOf(eb)[x0] = SixOf(db)[x0] + e
       /\ x0 \notin S => PktsOf(eb)[x0] = 1 /\ DataOf(eb)[x0] = d /\ SixOf(eb)[x0] = e
  BY <1>4, <1>8, <1>12, <1>13, Zenon DEF CountsOne
<1>15. PktSums(db)[S] \in Nat /\ PktSums(eb)[U] = PktSums(db)[S] + 1
  <2>1. PICK w, v, it, jt : /\ w = PktsOf(db) /\ v = PktsOf(eb)
                            /\ it = PktSums(db) /\ jt = PktSums(eb)
    BY Zenon
  <2>2. /\ IsFiniteSet(S) /\ Numbers(w, S) /\ Sums(it, w, S) /\ Sums(jt, v, U)
        /\ OneMore(w, v, S, x0, 1)
    BY <2>1, <1>2, <1>7, <1>10, <1>11, <1>14, Zenon DEF OneMore
  <2>3. 1 \in Nat
    OBVIOUS
  <2>4. it[S] \in Nat /\ jt[U] = it[S] + 1
    BY <2>2, <2>3, <1>5, SumGrows
  <2> QED BY <2>1, <2>4, Zenon
<1>16. DataSums(db)[S] \in Nat /\ DataSums(eb)[U] = DataSums(db)[S] + d
  <2>1. PICK w, v, it, jt : /\ w = DataOf(db) /\ v = DataOf(eb)
                            /\ it = DataSums(db) /\ jt = DataSums(eb)
    BY Zenon
  <2>2. /\ IsFiniteSet(S) /\ Numbers(w, S) /\ Sums(it, w, S) /\ Sums(jt, v, U)
        /\ OneMore(w, v, S, x0, d)
    BY <2>1, <1>2, <1>7, <1>10, <1>11, <1>14, Zenon DEF OneMore
  <2>3. it[S] \in Nat /\ jt[U] = it[S] + d
    BY <2>2, <1>5, SumGrows
  <2> QED BY <2>1, <2>3, Zenon
<1>17. SixSums(db)[S] \in Nat /\ SixSums(eb)[U] = SixSums(db)[S] + e
  <2>1. PICK w, v, it, jt : /\ w = SixOf(db) /\ v = SixOf(eb)
                            /\ it = SixSums(db) /\ jt = SixSums(eb)
    BY Zenon
  <2>2. /\ IsFiniteSet(S) /\ Numbers(w, S) /\ Sums(it, w, S) /\ Sums(jt, v, U)
        /\ OneMore(w, v, S, x0, e)
    BY <2>1, <1>2, <1>7, <1>10, <1>11, <1>14, Zenon DEF OneMore
  <2>3. it[S] \in Nat /\ jt[U] = it[S] + e
    BY <2>2, <1>5, SumGrows
  <2> QED BY <2>1, <2>3, Zenon
<1> QED BY <1>1, <1>2, <1>6, <1>15, <1>16, <1>17, Zenon DEF SumsGrew

\* What m_Packet holds once a frame has been parsed into it.
MPackets == [key : D!Keys, ipv : {4, 6}, len : Nat, pay_load : Nat]

\* The inductive invariant of the totals: beside the types, the flows are
\* finitely many, so that there is a sum.
TotalsInv ==
  /\ ppkt # NULL => ppkt \in MPackets
  /\ curIntStarttime \in Nat /\ curIntEndtime \in Nat /\ frame \in Nat
  /\ dashboard \in Dashboards /\ IsFiniteSet(FlowsOf(dashboard))
  /\ totalpkts \in Nat /\ totalpkts <= PktSums(dashboard)[FlowsOf(dashboard)]
  /\ totaldatalen \in Nat /\ totaldatalen <= DataSums(dashboard)[FlowsOf(dashboard)]

\* The m_Packet that a frame fills, whatever was in it before.
LEMMA PacketType ==
  ASSUME TotalsInv, NEW c \in Captures, NEW old \in D!Reused,
         NEW pkt, pkt = D!Filled(old, Seen(c))
  PROVE  pkt \in MPackets
<1>1. old.key \in D!Keys /\ old.pay_load \in Nat
  <2>1. ppkt # NULL => ppkt.key \in D!Keys /\ ppkt.pay_load \in Nat
    BY Zenon DEF TotalsInv, MPackets
  <2> QED BY <2>1 DEF D!Reused
<1>2. Seen(c).key \in D!Keys /\ Seen(c).len \in Int
  BY CapturesAssumption, Zenon DEF D!FrameShape
<1>3. PICK e, z : /\ e = (IF Seen(c).len > 0 THEN Seen(c).len ELSE 0)
                  /\ z = (IF ~Seen(c).payload THEN old.pay_load
                          ELSE IF Seen(c).proto = "tcp" THEN frame + 1
                          ELSE IF Seen(c).proto = "udp" THEN 0 ELSE old.pay_load)
  BY Zenon
<1>4. e \in Nat
  BY <1>2, <1>3
<1>5. z \in Nat
  <2>1. frame + 1 \in Nat /\ 0 \in Nat
    BY DEF TotalsInv
  <2> QED BY <2>1, <1>1, <1>3, Zenon
<1>6. PICK y, v : /\ y = (IF Seen(c).l3 = "ip4" THEN Seen(c).key ELSE old.key)
                  /\ v = (IF Seen(c).l3 = "ip4" THEN 4 ELSE 6)
  BY Zenon
<1>7. y \in D!Keys /\ v \in {4, 6}
  BY <1>1, <1>2, <1>6, Zenon
<1>8. pkt = [key |-> y, ipv |-> v, len |-> e, pay_load |-> z]
  BY <1>3, <1>6, Zenon DEF D!Filled
<1> QED BY <1>4, <1>5, <1>7, <1>8 DEF MPackets

\* The interval is one of seconds.
LEMMA IntervalType ==
  ASSUME TotalsInv, NEW c \in Captures,
         D!OpenInterval(Seen(c)) \/ UNCHANGED <<curIntStarttime, curIntEndtime>>
  PROVE  curIntStarttime' \in Nat /\ curIntEndtime' \in Nat
<1>1. PICK t \in Nat : t = Seen(c).time
  BY CapturesAssumption, Zenon DEF D!FrameShape
<1>2. \/ curIntStarttime' = t /\ curIntEndtime' = t + 60
      \/ curIntStarttime' = curIntStarttime /\ curIntEndtime' = curIntEndtime
  BY <1>1, Zenon DEF D!OpenInterval, D!TIMEINT
<1>3. t + 60 \in Nat
  OBVIOUS
<1> QED BY <1>2, <1>3, Zenon DEF TotalsInv

\* A frame that is not filed leaves the flows and the totals alone.
LEMMA GivenUpTotals ==
  ASSUME TotalsInv, NEW c \in Captures, GivenUp(c)
  PROVE  TotalsInv'
<1>1. D!Skip(Seen(c)) \/ D!GiveUp(Seen(c)) \/ D!NoDashboard(Seen(c))
  BY Zenon DEF GivenUp
<1>2. /\ UNCHANGED <<dashboard, totalpkts, totaldatalen>>
      /\ frame' = frame + 1
      /\ ppkt' = ppkt \/ \E old \in D!Reused : ppkt' = D!Filled(old, Seen(c))
      /\ D!OpenInterval(Seen(c)) \/ UNCHANGED <<curIntStarttime, curIntEndtime>>
  BY <1>1, Zenon DEF D!Skip, D!GiveUp, D!NoDashboard, D!Take
<1>3. ppkt' # NULL => ppkt' \in MPackets
  BY <1>2, PacketType, Zenon DEF TotalsInv
<1>4. curIntStarttime' \in Nat /\ curIntEndtime' \in Nat
  BY <1>2, IntervalType, Zenon
<1>5. frame' \in Nat
  BY <1>2 DEF TotalsInv
<1> QED BY <1>2, <1>3, <1>4, <1>5, Zenon DEF TotalsInv

\* What a packet counts as IPv4 and as IPv6, and what a flow, which may not
\* exist yet, has counted as IPv4.
Four(pkt) == IF pkt.ipv = 4 THEN 1 ELSE 0
Six(pkt)  == IF pkt.ipv = 6 THEN 1 ELSE 0
Fours(db, t, k) == IF db[t][k] = NULL THEN 0 ELSE db[t][k].v4

\* The flow found for a key of a table, or a new one.
FlowAt(db, t, k) == IF db[t][k] = NULL THEN D!NewFlow ELSE db[t][k]

\* fl is that flow with pkt counted in it.
CountsPacket(db, t, k, fl, pkt) ==
  /\ fl \in D!FlowShape /\ pkt.len \in Nat
  /\ CountsOne(db, t, k, fl, pkt.len, Six(pkt))
  /\ fl.v4 = Fours(db, t, k) + Four(pkt)

\* Four numbers make a flow.
LEMMA FlowRecord ==
  \A a, b, e, g \in Nat : [pkts |-> a, data |-> b, v4 |-> e, v6 |-> g] \in D!FlowShape
BY DEF D!FlowShape

\* The counters of the object of a flow, found or created, with one packet more.
LEMMA CountedLemma ==
  ASSUME NEW db \in Dashboards, NEW t \in {"tcp", "udp"}, NEW k \in D!Keys,
         NEW pkt \in MPackets, NEW flow,
         flow = FlowAt(db, t, k),
         NEW fl, fl = D!Counted(flow, pkt)
  PROVE  CountsPacket(db, t, k, fl, pkt)
<1>1. /\ flow.pkts \in Nat /\ flow.data \in Nat /\ flow.v4 \in Nat /\ flow.v6 \in Nat
      /\ db[t][k] = NULL => flow.pkts = 0 /\ flow.data = 0 /\ flow.v6 = 0
      /\ flow.v4 = Fours(db, t, k)
  <2>1. CASE db[t][k] = NULL
    BY <2>1 DEF FlowAt, D!NewFlow, Fours
  <2>2. CASE db[t][k] # NULL
    <3>1. flow = db[t][k]
      BY <2>2, Zenon DEF FlowAt
    <3> QED BY <3>1, <2>2, Zenon DEF Dashboards, D!FlowShape, Fours
  <2> QED BY <2>1, <2>2, Zenon
<1>2. PICK d \in Nat : d = pkt.len
  BY Zenon DEF MPackets
<1>3. PICK a, b, e, g, x, y : /\ a = flow.pkts + 1 /\ b = flow.data + d
                              /\ e = (IF pkt.ipv = 4 THEN flow.v4 + 1 ELSE flow.v4)
                              /\ g = (IF pkt.ipv = 6 THEN flow.v6 + 1 ELSE flow.v6)
                              /\ x = Four(pkt) /\ y = Six(pkt)
  BY Zenon
<1>4. fl = [pkts |-> a, data |-> b, v4 |-> e, v6 |-> g]
  BY <1>2, <1>3, Zenon DEF D!Counted
<1>5. /\ a \in Nat /\ b \in Nat /\ e \in Nat /\ g \in Nat
      /\ db[t][k] = NULL => a = 1 /\ b = d /\ g = y
      /\ e = flow.v4 + x /\ g = flow.v6 + y
  <2>1. PICK m, n, u, v \in Nat :
          m = flow.pkts /\ n = flow.data /\ u = flow.v4 /\ v = flow.v6
    BY <1>1, Zenon
  <2>2. /\ a = m + 1 /\ b = n + d
        /\ (e = u + 1 /\ x = 1) \/ (e = u /\ x = 0)
        /\ (g = v + 1 /\ y = 1) \/ (g = v /\ y = 0)
    <3>1. (e = u + 1 /\ x = 1) \/ (e = u /\ x = 0)
      BY <2>1, <1>3, Zenon DEF Four
    <3>2. (g = v + 1 /\ y = 1) \/ (g = v /\ y = 0)
      BY <2>1, <1>3, Zenon DEF Six
    <3> QED BY <3>1, <3>2, <2>1, <1>3, Zenon
  <2>3. a \in Nat /\ b \in Nat /\ e \in Nat /\ g \in Nat /\ e = u + x /\ g = v + y
    BY <2>2
  <2>4. m = 0 /\ n = 0 /\ v = 0 => a = 1 /\ b = d /\ g = y
    BY <2>2
  <2>5. db[t][k] = NULL => m = 0 /\ n = 0 /\ v = 0
    BY <2>1, <1>1, Zenon
  <2> QED BY <2>1, <2>3, <2>4, <2>5, Zenon
<1>6. fl \in D!FlowShape
  <2>1. a \in Nat /\ b \in Nat /\ e \in Nat /\ g \in Nat
    BY <1>5, Zenon
  <2>2. [pkts |-> a, data |-> b, v4 |-> e, v6 |-> g] \in D!FlowShape
    BY <2>1, FlowRecord
  <2> QED BY <2>2, <1>4, Zenon
<1>7. fl.pkts = a /\ fl.data = b /\ fl.v4 = e /\ fl.v6 = g
  BY <1>4
<1>8. db[t][k] # NULL => /\ a = db[t][k].pkts + 1 /\ b = db[t][k].data + d
                         /\ g = db[t][k].v6 + y
  BY <1>3, <1>5, Zenon DEF FlowAt
<1>9. CountsOne(db, t, k, fl, d, y)
  BY <1>5, <1>7, <1>8, Zenon DEF CountsOne
<1> QED BY <1>1, <1>2, <1>3, <1>5, <1>6, <1>7, <1>9, Zenon DEF CountsPacket

\* The dashboards eb are db with the packet pkt of type t filed, in the flow fl.
FiledIn(db, eb, t, pkt, fl) ==
  /\ pkt \in MPackets /\ t \in {"tcp", "udp"} /\ pkt.key \in D!Keys /\ pkt.len \in Nat
  /\ db \in Dashboards /\ eb \in Dashboards /\ IsFiniteSet(FlowsOf(eb))
  /\ eb = [db EXCEPT ![t][pkt.key] = fl] /\ fl # NULL
  /\ SumsGrew(db, eb, pkt.len, Six(pkt))
  /\ fl.v4 = Fours(db, t, pkt.key) + Four(pkt)

\* A frame that is filed is counted by one flow.
LEMMA FiledFlow ==
  ASSUME TotalsInv, NEW c \in Captures, D!File(Seen(c))
  PROVE  \E fl : FiledIn(dashboard, dashboard', Seen(c).proto, ppkt', fl)
<1>1. PICK old \in D!Reused :
        /\ ppkt' = D!Filled(old, Seen(c))
        /\ dashboard' = [dashboard EXCEPT ![Seen(c).proto][ppkt'.key] =
                           D!Counted(D!getProtoBase(Seen(c).proto, ppkt'.key), ppkt')]
  BY Zenon DEF D!File
<1>2. ppkt' \in MPackets
  BY <1>1, PacketType, Zenon
<1>3. PICK pkt, db, eb, t, k, flow, fl :
        /\ pkt = ppkt' /\ db = dashboard /\ eb = dashboard' /\ t = Seen(c).proto
        /\ k = pkt.key /\ flow = D!getProtoBase(t, k) /\ fl = D!Counted(flow, pkt)
  BY Zenon
<1>4. /\ pkt \in MPackets /\ k \in D!Keys /\ t \in {"tcp", "udp"}
      /\ db \in Dashboards /\ IsFiniteSet(FlowsOf(db))
      /\ eb = [db EXCEPT ![t][k] = fl]
      /\ flow = (IF db[t][k] = NULL THEN D!NewFlow ELSE db[t][k])
  <2>1. pkt \in MPackets /\ k \in D!Keys
    BY <1>2, <1>3, Zenon DEF MPackets
  <2>2. t \in {"tcp", "udp"}
    BY <1>3, Zenon DEF D!File, D!HasPayload
  <2>3. db \in Dashboards /\ IsFiniteSet(FlowsOf(db))
    BY <1>3, Zenon DEF TotalsInv
  <2>4. eb = [db EXCEPT ![t][k] = fl]
    BY <1>1, <1>3, Zenon
  <2>5. flow = (IF db[t][k] = NULL THEN D!NewFlow ELSE db[t][k])
    BY <1>3, Zenon DEF D!getProtoBase
  <2> QED BY <2>1, <2>2, <2>3, <2>4, <2>5, Zenon
<1>5. PICK d \in Nat : /\ d = pkt.len /\ fl \in D!FlowShape
                       /\ CountsOne(db, t, k, fl, d, Six(pkt))
                       /\ fl.v4 = Fours(db, t, k) + Four(pkt)
  <2>1. flow = FlowAt(db, t, k)
    BY <1>4, Zenon DEF FlowAt
  <2>2. fl = D!Counted(flow, pkt)
    BY <1>3, Zenon
  <2>3. db \in Dashboards /\ t \in {"tcp", "udp"} /\ k \in D!Keys /\ pkt \in MPackets
    BY <1>4, Zenon
  <2>4. CountsPacket(db, t, k, fl, pkt)
    BY <2>1, <2>2, <2>3, CountedLemma, Zenon
  <2> QED BY <2>4, Zenon DEF CountsPacket
<1>6. eb \in Dashboards /\ IsFiniteSet(FlowsOf(eb)) /\ SumsGrew(db, eb, d, Six(pkt))
  <2>1. Six(pkt) \in Nat
    BY DEF Six
  <2> QED BY <2>1, <1>4, <1>5, FlowGrows, Zenon
<1>7. fl # NULL
  BY <1>5, FlowsAssumption, Zenon
<1>8. FiledIn(db, eb, t, pkt, fl)
  BY <1>3, <1>4, <1>5, <1>6, <1>7, Zenon DEF FiledIn
<1> QED BY <1>3, <1>8, Zenon

\* ... and at most once by the totals.
LEMMA FiledTotals ==
  ASSUME TotalsInv, NEW c \in Captures, D!File(Seen(c))
  PROVE  TotalsInv'
<1>1. PICK minusOne : D!Totalled(ppkt', minusOne)
  BY Zenon DEF D!File
<1>2. PICK fl : FiledIn(dashboard, dashboard', Seen(c).proto, ppkt', fl)
  BY FiledFlow, Zenon
<1>3. PICK pkt, db, eb : pkt = ppkt' /\ db = dashboard /\ eb = dashboard'
  BY Zenon
<1>5. PICK d \in Nat : d = pkt.len /\ pkt \in MPackets
  BY <1>2, <1>3, Zenon DEF FiledIn
<1>6. /\ eb \in Dashboards /\ IsFiniteSet(FlowsOf(eb))
      /\ PktSums(db)[FlowsOf(db)] \in Nat /\ DataSums(db)[FlowsOf(db)] \in Nat
      /\ PktSums(eb)[FlowsOf(eb)] = PktSums(db)[FlowsOf(db)] + 1
      /\ DataSums(eb)[FlowsOf(eb)] = DataSums(db)[FlowsOf(db)] + d
  BY <1>2, <1>3, <1>5, Zenon DEF FiledIn, SumsGrew
<1>7. /\ totalpkts' \in Nat /\ totalpkts' <= PktSums(eb)[FlowsOf(eb)]
      /\ totaldatalen' \in Nat /\ totaldatalen' <= DataSums(eb)[FlowsOf(eb)]
  <2>1. PICK a, b \in Nat : a = PktSums(db)[FlowsOf(db)] /\ b = DataSums(db)[FlowsOf(db)]
    BY <1>6, Zenon
  <2>2. PICK u, v \in Nat : u = totalpkts /\ v = totaldatalen /\ u <= a /\ v <= b
    BY <2>1, <1>3, Zenon DEF TotalsInv
  <2>3. \/ totalpkts' = u /\ totaldatalen' = v
        \/ totalpkts' = u + 1 /\ totaldatalen' = v + d
    BY <2>2, <1>1, <1>3, <1>5, Zenon DEF D!Totalled
  <2>4. PICK x, y : x = totalpkts' /\ y = totaldatalen'
    BY Zenon
  <2>5. x \in Nat /\ x <= a + 1 /\ y \in Nat /\ y <= b + d
    BY <2>2, <2>3, <2>4
  <2> QED BY <2>1, <2>4, <2>5, <1>6, Zenon
<1>8. curIntStarttime' \in Nat /\ curIntEndtime' \in Nat
  <2>1. D!OpenInterval(Seen(c))
    BY Zenon DEF D!File
  <2> QED BY <2>1, IntervalType, Zenon
<1>9. frame' \in Nat
  <2>1. frame' = frame + 1 /\ frame \in Nat
    BY Zenon DEF D!File, D!Take, TotalsInv
  <2> QED BY <2>1
<1> QED BY <1>3, <1>5, <1>6, <1>7, <1>8, <1>9, Zenon DEF TotalsInv

\* There is no flow at first.
LEMMA NoFlows ==
  ASSUME NEW db, db = [p \in {"tcp", "udp"} |-> [k \in D!Keys |-> NULL]]
  PROVE  FlowsOf(db) = {}
<1>1. ASSUME NEW x \in {"tcp", "udp"} \X D!Keys PROVE db[x[1]][x[2]] = NULL
  <2>1. x[1] \in {"tcp", "udp"} /\ x[2] \in D!Keys
    BY Zenon
  <2> QED BY <2>1, Zenon
<1> QED BY <1>1, Zenon DEF FlowsOf

\* The invariant of the totals holds in every reachable state.
LEMMA TotalsInvariance == AnalyserSpec => []TotalsInv
<1>1. AnalyserInit => TotalsInv
  <2> SUFFICES ASSUME D!Init PROVE TotalsInv
    BY Zenon DEF AnalyserInit
  <2>1. dashboard = [p \in {"tcp", "udp"} |-> [k \in D!Keys |-> NULL]]
    BY Zenon DEF D!Init
  <2>2. dashboard \in Dashboards
    BY <2>1, Zenon DEF Dashboards
  <2>3. FlowsOf(dashboard) = {}
    BY <2>1, NoFlows, Zenon
  <2>4. IsFiniteSet(FlowsOf(dashboard))
    BY <2>3, FS_EmptySet, Zenon
  <2>5. PktSums(dashboard)[FlowsOf(dashboard)] = 0 /\ DataSums(dashboard)[FlowsOf(dashboard)] = 0
    BY <2>3, <2>4, FlowSumsLemma, Zenon DEF Sums, SumAt
  <2>6. 0 \in Nat /\ 0 <= 0
    OBVIOUS
  <2> QED BY <2>2, <2>4, <2>5, <2>6, Zenon DEF D!Init, TotalsInv
<1>2. TotalsInv /\ [AnalyserNext]_<<vars, displayVars>> => TotalsInv'
  <2> SUFFICES ASSUME TotalsInv, [AnalyserNext]_<<vars, displayVars>> PROVE TotalsInv'
    BY Zenon
  <2>1. CASE UNCHANGED <<vars, displayVars>>
    BY <2>1, Zenon DEF displayVars, TotalsInv
  <2> QED BY <2>1, GivenUpTotals, FiledTotals, Zenon DEF AnalyserNext, ToUdp, ToTcp
<1> QED BY <1>1, <1>2, PTL DEF AnalyserSpec

\* The totals that displayStats prints never exceed what the flows have counted,
\* for any captures, any number of flows and any value protocolTCP::addPkt returns.
THEOREM TotalsStayWithinFlows == AnalyserSpec => []TotalsWithinFlows
<1>1. TotalsInv => TotalsWithinFlows
  <2> SUFFICES ASSUME TotalsInv PROVE TotalsWithinFlows
    BY Zenon
  <2>1. ASSUME NEW x \in D!Flows PROVE D!FlowOf(x) \in D!FlowShape
    <3>1. x[1] \in {"tcp", "udp"} /\ x[2] \in D!Keys /\ dashboard[x[1]][x[2]] # NULL
      BY Zenon DEF D!Flows
    <3> QED BY <3>1, Zenon DEF TotalsInv, Dashboards, D!FlowOf
  <2>2. D!TypeOK
    BY <2>1, Zenon DEF TotalsInv, MPackets, D!TypeOK
  <2> QED BY <2>2, FlowSums, Zenon DEF TotalsInv, TotalsWithinFlows, D!TotalsWithinFlows
<1> QED BY <1>1, TotalsInvariance, PTL

-----------------------------------------------------------------------------
(***************************************************************************)
(* What the flows count.                                                   *)
(***************************************************************************)
\* The histories are what the flows have counted.
OwnInv ==
  /\ own = [t \in {"tcp", "udp"} |-> [k \in D!Keys |-> Fours(dashboard, t, k)]]
  /\ sixes = SixSums(dashboard)[FlowsOf(dashboard)]

\* What a flow has counted is a number.
LEMMA FoursType ==
  ASSUME NEW db \in Dashboards, NEW t \in {"tcp", "udp"}, NEW k \in D!Keys
  PROVE  Fours(db, t, k) \in Nat
<1>1. db[t][k] # NULL => db[t][k].v4 \in Nat
  BY Zenon DEF Dashboards, D!FlowShape
<1>2. 0 \in Nat
  OBVIOUS
<1> QED BY <1>1, <1>2, Zenon DEF Fours

\* A frame that is filed is counted by the flow of its addresses when it is an
\* IPv4 frame, and by some flow as IPv6 otherwise.
LEMMA FiledOwn ==
  ASSUME TotalsInv, OwnInv, NEW c \in Captures, D!File(Seen(c))
  PROVE  OwnInv'
<1>1. PICK old \in D!Reused : ppkt' = D!Filled(old, Seen(c))
  BY Zenon DEF D!File
<1>2. PICK fl : FiledIn(dashboard, dashboard', Seen(c).proto, ppkt', fl)
  BY FiledFlow, Zenon
<1>3. PICK pkt, db, eb, t, k :
        /\ pkt = ppkt' /\ db = dashboard /\ eb = dashboard' /\ t = Seen(c).proto
        /\ k = pkt.key
  BY Zenon
<1>4. /\ t \in {"tcp", "udp"} /\ k \in D!Keys /\ db \in Dashboards
      /\ eb = [db EXCEPT ![t][k] = fl] /\ fl # NULL
      /\ fl.v4 = Fours(db, t, k) + Four(pkt)
      /\ SixSums(db)[FlowsOf(db)] \in Nat
      /\ SixSums(eb)[FlowsOf(eb)] = SixSums(db)[FlowsOf(db)] + Six(pkt)
  BY <1>2, <1>3, Zenon DEF FiledIn, SumsGrew
<1>5. ASSUME NEW u \in {"tcp", "udp"}, NEW m \in D!Keys
      PROVE  Fours(eb, u, m) = IF u = t /\ m = k THEN fl.v4 ELSE Fours(db, u, m)
  <2>1. eb[u][m] = IF u = t /\ m = k THEN fl ELSE db[u][m]
    BY <1>4, Zenon DEF Dashboards
  <2>2. CASE u = t /\ m = k
    <3>1. Fours(eb, u, m) = fl.v4
      BY <2>1, <2>2, <1>4, Zenon DEF Fours
    <3> QED BY <3>1, <2>2, Zenon
  <2>3. CASE ~(u = t /\ m = k)
    <3>1. Fours(eb, u, m) = Fours(db, u, m)
      BY <2>1, <2>3, Zenon DEF Fours
    <3> QED BY <3>1, <2>3, Zenon
  <2> QED BY <2>2, <2>3, Zenon
<1>6. own = [u \in {"tcp", "udp"} |-> [m \in D!Keys |-> Fours(db, u, m)]]
  BY <1>3, Zenon DEF OwnInv
<1>7. CASE Seen(c).l3 = "ip4"
  <2>1. k = Seen(c).key /\ pkt.ipv = 4
    BY <1>1, <1>3, <1>7, Zenon DEF D!Filled
  <2>2. own' = [own EXCEPT ![t][k] = own[t][k] + 1] /\ sixes' = sixes
    BY <2>1, <1>3, <1>7, Zenon DEF D!File
  <2>3. Four(pkt) = 1 /\ Six(pkt) = 0
    BY <2>1 DEF Four, Six
  <2>4. ASSUME NEW u \in {"tcp", "udp"}, NEW m \in D!Keys
        PROVE  own'[u][m] = Fours(eb, u, m)
    <3>1. own'[u][m] = IF u = t /\ m = k THEN own[t][k] + 1 ELSE own[u][m]
      BY <2>2, <1>4, <1>6, Zenon
    <3>2. own[u][m] = Fours(db, u, m) /\ own[t][k] = Fours(db, t, k)
      BY <1>4, <1>6, Zenon
    <3> QED BY <3>1, <3>2, <2>3, <1>4, <1>5, Zenon
  <2>5. own' = [u \in {"tcp", "udp"} |-> [m \in D!Keys |-> own'[u][m]]]
    BY <2>2, <1>4, <1>6, Zenon
  <2>6. own' = [u \in {"tcp", "udp"} |-> [m \in D!Keys |-> Fours(eb, u, m)]]
    BY <2>4, <2>5, Zenon
  <2>7. sixes' = SixSums(eb)[FlowsOf(eb)]
    <3>1. PICK x \in Nat : x = SixSums(db)[FlowsOf(db)] /\ x = sixes
      BY <1>3, <1>4, Zenon DEF OwnInv
    <3>2. x + 0 = x
      OBVIOUS
    <3> QED BY <3>1, <3>2, <2>2, <2>3, <1>4, Zenon
  <2> QED BY <2>6, <2>7, <1>3, Zenon DEF OwnInv
<1>8. CASE Seen(c).l3 # "ip4"
  <2>1. pkt.ipv = 6
    BY <1>1, <1>3, <1>8, Zenon DEF D!Filled
  <2>2. own' = own /\ sixes' = sixes + 1
    BY <1>8, Zenon DEF D!File
  <2>3. Four(pkt) = 0 /\ Six(pkt) = 1
    BY <2>1 DEF Four, Six
  <2>4. fl.v4 = Fours(db, t, k)
    <3>1. PICK x \in Nat : x = Fours(db, t, k)
      BY <1>4, FoursType, Zenon
    <3>2. x + 0 = x
      OBVIOUS
    <3> QED BY <3>1, <3>2, <2>3, <1>4, Zenon
  <2>5. own' = [u \in {"tcp", "udp"} |-> [m \in D!Keys |-> Fours(eb, u, m)]]
    BY <2>2, <2>4, <1>5, <1>6, Zenon
  <2>6. sixes' = SixSums(eb)[FlowsOf(eb)]
    BY <2>2, <2>3, <1>3, <1>4, Zenon DEF OwnInv
  <2> QED BY <2>5, <2>6, <1>3, Zenon DEF OwnInv
<1> QED BY <1>7, <1>8, Zenon

\* Every IPv4 frame that is filed is counted by the flow of its own addresses
\* and by no other, and every IPv6 frame once, for any captures in any order.
THEOREM FlowsCountTheirOwn == AnalyserSpec => []FlowsCountOwn
<1>1. AnalyserInit => OwnInv
  <2> SUFFICES ASSUME D!Init PROVE OwnInv
    BY Zenon DEF AnalyserInit
  <2>1. /\ dashboard = [p \in {"tcp", "udp"} |-> [k \in D!Keys |-> NULL]]
        /\ own = [p \in {"tcp", "udp"} |-> [k \in D!Keys |-> 0]] /\ sixes = 0
    BY Zenon DEF D!Init
  <2>2. \A t \in {"tcp", "udp"}, k \in D!Keys : Fours(dashboard, t, k) = 0
    BY <2>1, Zenon DEF Fours
  <2>3. SixSums(dashboard)[FlowsOf(dashboard)] = 0
    <3>1. FlowsOf(dashboard) = {}
      BY <2>1, NoFlows, Zenon
    <3>2. IsFiniteSet(FlowsOf(dashboard))
      BY <3>1, FS_EmptySet, Zenon
    <3> QED BY <3>1, <3>2, FlowSumsLemma, Zenon DEF Sums, SumAt
  <2> QED BY <2>1, <2>2, <2>3, Zenon DEF OwnInv
<1>2. TotalsInv /\ OwnInv /\ [AnalyserNext]_<<vars, displayVars>> => OwnInv'
  <2> SUFFICES ASSUME TotalsInv, OwnInv, [AnalyserNext]_<<vars, displayVars>> PROVE OwnInv'
    BY Zenon
  <2>1. ASSUME UNCHANGED <<dashboard, own, sixes>> PROVE OwnInv'
    BY <2>1, Zenon DEF OwnInv
  <2>2. ASSUME NEW c, GivenUp(c) PROVE UNCHANGED <<dashboard, own, sixes>>
    BY <2>2, Zenon DEF GivenUp, D!Skip, D!GiveUp, D!NoDashboard
  <2>3. CASE UNCHANGED <<vars, displayVars>>
    BY <2>1, <2>3, Zenon DEF displayVars
  <2> QED BY <2>1, <2>2, <2>3, FiledOwn, Zenon DEF AnalyserNext, ToUdp, ToTcp
<1>3. TotalsInv /\ OwnInv => FlowsCountOwn
  <2> SUFFICES ASSUME OwnInv PROVE FlowsCountOwn
    BY Zenon
  <2>1. ASSUME NEW t \in {"tcp", "udp"}, NEW k \in D!Keys
        PROVE  own[t][k] = IF dashboard[t][k] = NULL THEN 0 ELSE dashboard[t][k].v4
    BY Zenon DEF OwnInv, Fours
  <2>2. sixes = D!FlowSixes
    BY FlowSums, Zenon DEF OwnInv
  <2> QED BY <2>1, <2>2, Zenon DEF FlowsCountOwn, D!FlowsCountOwn
<1> QED BY <1>1, <1>2, <1>3, TotalsInvariance, PTL DEF AnalyserSpec
=============================================================================
