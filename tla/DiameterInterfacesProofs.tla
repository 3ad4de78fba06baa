---------------------- MODULE DiameterInterfacesProofs ----------------------
(***************************************************************************)
(* Lemmas about one interface object: each operation keeps ObjectInv.      *)
(***************************************************************************)
EXTENDS DiameterInterfaces, FiniteSetTheorems, TLAPS

\* The message types of every class are integers other than NoType, and a
\* packet is of one of them or of none.
LEMMA TypesLemma ==
  ASSUME NEW app \in Apps, NEW pkt \in PacketShape
  PROVE  /\ TypesOf(app) \subseteq Nat
         /\ NoType \notin TypesOf(app)
         /\ TypeIn(app, pkt) \in TypesOf(app) \cup {NoType}
BY DEF Apps, TypesOf, TypeIn, GxTypes, GyTypes, S6bTypes, GxType, GyType,
       S6bType, NoType, INITIAL, UPDATE, TERMINATE, EVENT, AA, TERM

\* The virtual functions of the three classes all come down to the shared
\* operations of Interface.
LEMMA DispatchLemma ==
  ASSUME NEW app \in Apps, NEW i, NEW pkt
  PROVE  /\ NewObject(app) = NewInterface(TypesOf(app))
         /\ AddPkt(app, i, pkt) = Account(i, TypeIn(app, pkt), pkt)
         /\ PrintStats(app, i) = Sweep(i)
         /\ ClearStatsOf(app, i) = ClearStats(i)
BY DEF Apps, NewObject, NewGxInterface, NewGyInterface, NewS6bInterface,
       TypesOf, AddPkt, GxAddPkt, GyAddPkt, S6bAddPkt, TypeIn, PrintStats,
       GxPrintStats, GyPrintStats, S6bPrintStats, ClearStatsOf, GxClearStats,
       GyClearStats, S6bClearStats

\* Truncation to seconds.
LEMMA SecondLemma ==
  ASSUME NEW t \in Nat
  PROVE  /\ Second(t) \in Nat
         /\ Second(t) * Ms <= t
         /\ t < (Second(t) + 1) * Ms
BY DEF Second, Ms

\* A new object satisfies the invariant.
LEMMA NewObjectInv ==
  ASSUME NEW app \in Apps
  PROVE  ObjectInv(app, NewObject(app))
<1> DEFINE i == NewObject(app)
<1>1. i = NewInterface(TypesOf(app))
  BY DispatchLemma
<1>2. i \in ObjectsOf(app)
  BY <1>1 DEF ObjectsOf, NewInterface, Object, ZeroStats
<1>3. StatsBalanced(app, i)
  BY <1>1 DEF StatsBalanced, NewInterface, Object, ZeroStats, Counters
<1>4. WindowAligned(app, i)
  BY <1>1 DEF WindowAligned, NewInterface, Object, WindowLen
<1>5. PendingInWindow(app, i)
  BY <1>1 DEF PendingInWindow, NewInterface, Object, Known, Entry
<1> QED BY <1>2, <1>3, <1>4, <1>5 DEF ObjectInv

\* What checkTime does to an object that accepts the packet: only the window
\* moves; it is WindowLen long and aligned, contains the packet's second,
\* and starts where it did or at or after the old end.
LEMMA WindowLemma ==
  ASSUME NEW app \in Apps, NEW i, ObjectInv(app, i), NEW s \in Nat,
         checkTime(i, s) # 0
  PROVE  LET w == Window(i, s) IN
         /\ w \in ObjectsOf(app)
         /\ w.req = i.req /\ w.stats = i.stats
         /\ w.startTime % WindowLen = 0
         /\ w.endTime = w.startTime + WindowLen
         /\ w.startTime <= s /\ s <= w.endTime
         /\ w.startTime = i.startTime \/ w.startTime >= i.endTime
         /\ w.endTime >= i.endTime
         /\ checkTime(i, s) = 2 => w.endTime >= i.endTime + WindowLen
         /\ checkTime(i, s) = 1 => w.startTime <= i.startTime + WindowLen
         /\ (checkTime(i, s) = 1 /\ w.startTime # i.startTime)
               => (i.startTime = 0 /\ w.startTime <= WindowLen)
<1> DEFINE w == Window(i, s)
<1>1. /\ i \in ObjectsOf(app)
      /\ i.startTime \in Nat /\ i.endTime \in Nat
      /\ i.startTime % WindowLen = 0
  BY DEF ObjectInv, ObjectsOf, WindowAligned
<1>2. \/ i.endTime = i.startTime + WindowLen
      \/ i.endTime = 0 /\ i.startTime = 0
  BY DispatchLemma DEF ObjectInv, WindowAligned, NewInterface, Object
<1>3. ASSUME NEW b \in Nat
      PROVE  /\ OpenAt(i, b) \in ObjectsOf(app)
             /\ OpenAt(i, b).req = i.req /\ OpenAt(i, b).stats = i.stats
             /\ OpenAt(i, b).startTime = b
             /\ OpenAt(i, b).endTime = b + WindowLen
  <2>1. OpenAt(i, b) = [startTime |-> b, endTime |-> b + WindowLen,
                        req |-> i.req, stats |-> i.stats]
    BY <1>1 DEF OpenAt, Object, ObjectsOf
  <2>2. b + WindowLen \in Nat
    BY DEF WindowLen
  <2> QED BY <2>1, <2>2, <1>1 DEF ObjectsOf
<1>4. /\ Aligned(s) \in Nat
      /\ Aligned(s) % WindowLen = 0
      /\ Aligned(s) <= s /\ s < Aligned(s) + WindowLen
  BY DEF Aligned, WindowLen
<1>5. CASE checkTime(i, s) = 2
  <2>1. s > i.endTime /\ w = OpenAt(i, Aligned(s))
    BY <1>5 DEF checkTime, Window
  <2>2. Aligned(s) >= i.endTime
    BY <2>1, <1>1, <1>2, <1>4 DEF WindowLen
  <2> QED BY <2>1, <2>2, <1>1, <1>2, <1>3, <1>4, <1>5 DEF WindowLen
<1>6. CASE checkTime(i, s) = 1
  <2>1. i.startTime <= s /\ s <= i.endTime
    BY <1>6, <1>1 DEF checkTime
  <2>2. CASE s = i.endTime /\ i.startTime = 0
    <3>1. w = OpenAt(i, s)
      BY <2>2, <1>6 DEF Window
    <3> QED BY <3>1, <2>1, <2>2, <1>1, <1>2, <1>3, <1>6 DEF WindowLen
  <2>3. CASE ~(s = i.endTime /\ i.startTime = 0)
    <3>1. w = i
      BY <2>3, <1>6 DEF Window
    <3> QED BY <3>1, <2>1, <2>3, <1>1, <1>2, <1>6 DEF WindowLen
  <2> QED BY <2>2, <2>3
<1> QED BY <1>5, <1>6 DEF checkTime

-----------------------------------------------------------------------------
\* Incrementing a set of counters for one type.
LEMMA BumpLemma ==
  ASSUME NEW app, NEW s \in [Counters -> [TypesOf(app) -> Nat]],
         NEW ty \in TypesOf(app), NEW cs, NEW b, b = Bump(s, ty, cs)
  PROVE  /\ b \in [Counters -> [TypesOf(app) -> Nat]]
         /\ \A c \in Counters, u \in TypesOf(app) :
              b[c][u] = IF c \in cs /\ u = ty THEN s[c][u] + 1 ELSE s[c][u]
BY DEF Bump

\* One entry and the counters change; the window and the other entries stay.
LEMMA UpdateLemma ==
  ASSUME NEW app, NEW i \in ObjectsOf(app), NEW ty \in TypesOf(app),
         NEW hop \in Hops, NEW t \in Nat \cup {Absent},
         NEW s \in [Counters -> [TypesOf(app) -> Nat]],
         NEW j, j = Update(i, ty, hop, t, s)
  PROVE  /\ j \in ObjectsOf(app)
         /\ j.startTime = i.startTime /\ j.endTime = i.endTime
         /\ j.stats = s
         /\ \A u \in TypesOf(app), h \in Hops :
              Entry(j, u, h) = IF u = ty /\ h = hop THEN t ELSE Entry(i, u, h)
<1> DEFINE R == [i.req EXCEPT ![ty] = [@ EXCEPT ![hop] = t]]
<1>1. i.req \in [TypesOf(app) -> [Hops -> Nat \cup {Absent}]]
  BY DEF ObjectsOf
<1>2. R \in [TypesOf(app) -> [Hops -> Nat \cup {Absent}]]
  BY <1>1
<1>3. /\ j.startTime = i.startTime /\ j.endTime = i.endTime
      /\ j.req = R /\ j.stats = s
  BY DEF Update, Object
<1>4. j \in ObjectsOf(app)
  BY <1>2 DEF Update, Object, ObjectsOf
<1>5. ASSUME NEW u \in TypesOf(app), NEW h \in Hops
      PROVE  Entry(j, u, h) = IF u = ty /\ h = hop THEN t ELSE Entry(i, u, h)
  BY <1>1, <1>3 DEF Entry
<1> QED BY <1>3, <1>4, <1>5

\* Adding a packet keeps the counters balanced and changes at most the entry
\* of the packet's type and hop id, which becomes the packet's time, 0 or
\* absent.
LEMMA AccountLemma ==
  ASSUME NEW app \in Apps, NEW i \in ObjectsOf(app), StatsBalanced(app, i),
         NEW pkt \in PacketShape, NEW ty \in TypesOf(app) \cup {NoType},
         NEW j, j = Account(i, ty, pkt)
  PROVE  /\ j \in ObjectsOf(app)
         /\ StatsBalanced(app, j)
         /\ j.startTime = i.startTime /\ j.endTime = i.endTime
         /\ \A u \in TypesOf(app), h \in Hops :
              /\ ~(u = ty /\ h = pkt.hop) => Entry(j, u, h) = Entry(i, u, h)
              /\ \/ Entry(j, u, h) = Entry(i, u, h)
                 \/ Entry(j, u, h) \in {0, Absent, pkt.time}
<1>1. /\ pkt.hop \in Hops /\ pkt.time \in Nat
      /\ i.stats \in [Counters -> [TypesOf(app) -> Nat]]
      /\ \A u \in TypesOf(app), h \in Hops : Entry(i, u, h) \in Nat \cup {Absent}
  BY DEF PacketShape, ObjectsOf, Entry
<1>2. CASE ty = NoType
  BY <1>2 DEF Account
<1>3. CASE ty # NoType /\ pkt.request = 1
  <2>1. j = Update(i, ty, pkt.hop, pkt.time, i.stats)
    BY <1>3 DEF Account, HandleRequest
  <2>2. ty \in TypesOf(app)
    BY <1>3
  <2>3. /\ j \in ObjectsOf(app)
        /\ j.startTime = i.startTime /\ j.endTime = i.endTime
        /\ j.stats = i.stats
        /\ \A u \in TypesOf(app), h \in Hops :
             Entry(j, u, h) = IF u = ty /\ h = pkt.hop
                                THEN pkt.time ELSE Entry(i, u, h)
    BY <2>1, <2>2, <1>1, UpdateLemma
  <2>4. StatsBalanced(app, j)
    BY <2>3 DEF StatsBalanced
  <2> QED BY <2>3, <2>4
<1>4. CASE ty # NoType /\ pkt.request # 1
  <2>0. ty \in TypesOf(app) /\ Entry(i, ty, pkt.hop) \in Nat \cup {Absent}
    BY <1>4, <1>1
  <2>1. j = HandleResponse(i, ty, pkt)
    BY <1>4 DEF Account
  <2>2. CASE ~Known(i, ty, pkt.hop)
    <3>1. PICK s : s = Bump(i.stats, ty, {"unKnwRes"})
      OBVIOUS
    <3>2. j = Update(i, ty, pkt.hop, 0, s)
      BY <3>1, <2>1, <2>2 DEF HandleResponse, UnknownResponse
    <3>3. /\ s \in [Counters -> [TypesOf(app) -> Nat]]
          /\ \A c \in Counters \ {"unKnwRes"} : s[c] = i.stats[c]
      BY <3>1, <2>0, <1>1, BumpLemma DEF Bump
    <3>4. j.stats = s
      BY <3>2 DEF Update, Object
    <3>5. StatsBalanced(app, j)
      BY <3>3, <3>4, ZenonT(30) DEF StatsBalanced, Counters
    <3> QED BY <3>2, <3>3, <3>5, <2>0, <1>1, UpdateLemma, SMTT(30)
  <2>3. CASE Known(i, ty, pkt.hop) /\ ~InRange(pkt.time - Entry(i, ty, pkt.hop))
    <3>1. PICK s, cs : /\ cs = {"attempts", "timeoutCount"}
                       /\ s = Bump(i.stats, ty, cs)
      BY ZenonT(30)
    <3>2. j = Update(i, ty, pkt.hop, Entry(i, ty, pkt.hop), s)
      BY <3>1, <2>1, <2>3 DEF HandleResponse, LateResponse
    <3>3. /\ s \in [Counters -> [TypesOf(app) -> Nat]]
          /\ \A c \in Counters, u \in TypesOf(app) :
               s[c][u] = IF c \in cs /\ u = ty
                           THEN i.stats[c][u] + 1 ELSE i.stats[c][u]
      BY <3>1, <2>0, <1>1, BumpLemma
    <3>4. j.stats = s
      BY <3>2 DEF Update, Object
    <3>5. StatsBalanced(app, j)
      BY <3>1, <3>3, <3>4, <1>1 DEF StatsBalanced, Counters
    <3>6. PICK e : e = Entry(i, ty, pkt.hop)
      OBVIOUS
    <3>7. e \in Nat \cup {Absent} /\ j = Update(i, ty, pkt.hop, e, s)
      BY <3>2, <3>6, <2>0
    <3>8. /\ j \in ObjectsOf(app)
          /\ j.startTime = i.startTime /\ j.endTime = i.endTime
          /\ \A u \in TypesOf(app), h \in Hops :
               Entry(j, u, h) = IF u = ty /\ h = pkt.hop
                                  THEN e ELSE Entry(i, u, h)
      BY <3>3, <3>7, <2>0, <1>1, UpdateLemma
    <3> QED BY <3>5, <3>6, <3>8
  <2>4. CASE Known(i, ty, pkt.hop) /\ InRange(pkt.time - Entry(i, ty, pkt.hop))
    <3>1. PICK RTT, o, cs, b, l, s :
            /\ RTT = pkt.time - Entry(i, ty, pkt.hop)
            /\ o = IF IsSuccess(pkt.resCode) THEN "succCount" ELSE "failCount"
            /\ cs = {"attempts", "latencySize", o}
            /\ b = Bump(i.stats, ty, cs)
            /\ l = [b["latency"] EXCEPT ![ty] = @ + RTT]
            /\ s = [b EXCEPT !["latency"] = l]
      BY ZenonT(30)
    <3>2. j = Update(i, ty, pkt.hop, Absent, s)
      BY <3>1, <2>1, <2>4 DEF HandleResponse, AnsweredRequest
    <3>3. /\ b \in [Counters -> [TypesOf(app) -> Nat]]
          /\ \A c \in Counters, u \in TypesOf(app) :
               b[c][u] = IF c \in cs /\ u = ty
                           THEN i.stats[c][u] + 1 ELSE i.stats[c][u]
      BY <3>1, <2>0, <1>1, BumpLemma
    <3>4. RTT \in Nat
      BY <3>1, <2>4, <2>0, <1>1 DEF InRange, Known, Absent, MaxRTT, Ms
    <3>5. "latency" \in Counters /\ l \in [TypesOf(app) -> Nat]
      <4>1. "latency" \in Counters
        BY DEF Counters
      <4>2. b["latency"] \in [TypesOf(app) -> Nat]
        BY <4>1, <3>3
      <4>3. l = [b["latency"] EXCEPT ![ty] = b["latency"][ty] + RTT]
        BY <3>1
      <4> QED BY <4>1, <4>2, <4>3, <3>4, <2>0
    <3>6. /\ s \in [Counters -> [TypesOf(app) -> Nat]]
          /\ \A c \in Counters \ {"latency"} : s[c] = b[c]
      BY <3>1, <3>3, <3>5, ZenonT(30)
    <3>7. j.stats = s
      BY <3>2 DEF Update, Object
    <3>8. StatsBalanced(app, j)
      <4>1. o = "succCount" \/ o = "failCount"
        BY <3>1
      <4>2. ASSUME NEW c \in {"attempts", "succCount", "failCount",
                              "timeoutCount", "latencySize"},
                   NEW u \in TypesOf(app)
            PROVE  /\ i.stats[c][u] \in Nat
                   /\ j.stats[c][u] =
                        IF c \in cs /\ u = ty
                          THEN i.stats[c][u] + 1 ELSE i.stats[c][u]
        <5>1. c \in Counters /\ c # "latency"
          BY DEF Counters
        <5> QED BY <5>1, <3>3, <3>6, <3>7, <1>1
      <4>3. cs = {"attempts", "latencySize", o}
        BY <3>1
      <4> QED BY <4>1, <4>2, <4>3 DEF StatsBalanced
    <3>9. PICK e : e = Absent
      OBVIOUS
    <3>10. /\ e \in Nat \cup {Absent} /\ j = Update(i, ty, pkt.hop, e, s)
           /\ s \in [Counters -> [TypesOf(app) -> Nat]]
           /\ pkt.hop \in Hops /\ ty \in TypesOf(app)
      BY <3>2, <3>6, <3>9, <2>0, <1>1
    <3>11. /\ j \in ObjectsOf(app)
           /\ j.startTime = i.startTime /\ j.endTime = i.endTime
           /\ \A u \in TypesOf(app), h \in Hops :
                Entry(j, u, h) = IF u = ty /\ h = pkt.hop
                                   THEN e ELSE Entry(i, u, h)
      BY <3>10, UpdateLemma
    <3> QED BY <3>8, <3>9, <3>11
  <2> QED BY <2>2, <2>3, <2>4
<1> QED BY <1>2, <1>3, <1>4

-----------------------------------------------------------------------------
\* The sweep of printStats erases the expired entries, keeps the others and
\* keeps the counters balanced.
LEMMA SweepLemma ==
  ASSUME NEW app \in Apps, NEW i \in ObjectsOf(app), StatsBalanced(app, i),
         NEW j, j = Sweep(i)
  PROVE  /\ j \in ObjectsOf(app)
         /\ StatsBalanced(app, j)
         /\ j.startTime = i.startTime /\ j.endTime = i.endTime
         /\ \A u \in TypesOf(app), h \in Hops :
              Entry(j, u, h) = IF h \in Expired(i, u) THEN Absent
                                                     ELSE Entry(i, u, h)
         /\ \A u \in TypesOf(app) : Cardinality(Expired(i, u)) \in Nat
         /\ \A u \in TypesOf(app) :
              j.stats["attempts"][u] = i.stats["attempts"][u]
                                         + Cardinality(Expired(i, u))
<1>1. /\ i.req \in [TypesOf(app) -> [Hops -> Nat \cup {Absent}]]
      /\ i.stats \in [Counters -> [TypesOf(app) -> Nat]]
      /\ i.startTime \in Nat /\ i.endTime \in Nat
      /\ DOMAIN i.req = TypesOf(app)
  BY DEF ObjectsOf
<1>2. PICK R, s :
        /\ R = [ty \in TypesOf(app) |-> [h \in Hops |->
                  IF h \in Expired(i, ty) THEN Absent ELSE Entry(i, ty, h)]]
        /\ s = SweptStats(i)
  BY ZenonT(30)
<1>3. j = [startTime |-> i.startTime, endTime |-> i.endTime,
           req |-> R, stats |-> s]
  BY <1>1, <1>2 DEF Sweep, Object
<1>4. ASSUME NEW u \in TypesOf(app)
      PROVE  Cardinality(Expired(i, u)) \in Nat
  <2>1. Expired(i, u) \subseteq Hops
    BY DEF Expired
  <2> QED BY <2>1, HopsFinite, FS_Subset, FS_CardinalityType
<1>5. R \in [TypesOf(app) -> [Hops -> Nat \cup {Absent}]]
  BY <1>1, <1>2 DEF Entry
<1>6. ASSUME NEW c \in Counters, NEW u \in TypesOf(app)
      PROVE  /\ i.stats[c][u] \in Nat
             /\ s[c][u] = IF c \in {"attempts", "timeoutCount"}
                            THEN i.stats[c][u] + Cardinality(Expired(i, u))
                            ELSE i.stats[c][u]
  BY <1>1, <1>2 DEF SweptStats
<1>7. s \in [Counters -> [TypesOf(app) -> Nat]]
  <2>1. ASSUME NEW c \in Counters PROVE s[c] \in [TypesOf(app) -> Nat]
    <3>1. CASE c \in {"attempts", "timeoutCount"}
      <4>1. s[c] = [ty \in TypesOf(app) |->
                      i.stats[c][ty] + Cardinality(Expired(i, ty))]
        BY <3>1, <1>1, <1>2 DEF SweptStats
      <4> QED BY <4>1, <1>4, <1>1
    <3>2. CASE c \notin {"attempts", "timeoutCount"}
      <4>1. s[c] = i.stats[c]
        BY <3>2, <1>2 DEF SweptStats
      <4> QED BY <4>1, <1>1
    <3> QED BY <3>1, <3>2
  <2>2. s = [c \in Counters |-> s[c]]
    BY <1>2 DEF SweptStats
  <2> QED BY <2>1, <2>2
<1>8. j \in ObjectsOf(app)
  BY <1>1, <1>3, <1>5, <1>7 DEF ObjectsOf
<1>9. ASSUME NEW u \in TypesOf(app), NEW h \in Hops
      PROVE  Entry(j, u, h) = IF h \in Expired(i, u) THEN Absent
                                                    ELSE Entry(i, u, h)
  <2>1. Entry(j, u, h) = R[u][h]
    BY <1>3 DEF Entry
  <2> QED BY <2>1, <1>2
<1>10. ASSUME NEW u \in TypesOf(app)
       PROVE  /\ j.stats["attempts"][u] = i.stats["attempts"][u]
                                             + Cardinality(Expired(i, u))
              /\ j.stats["timeoutCount"][u] = i.stats["timeoutCount"][u]
                                                 + Cardinality(Expired(i, u))
              /\ j.stats["succCount"][u] = i.stats["succCount"][u]
              /\ j.stats["failCount"][u] = i.stats["failCount"][u]
              /\ j.stats["latencySize"][u] = i.stats["latencySize"][u]
              /\ \A c \in Counters : i.stats[c][u] \in Nat
  BY <1>3, <1>6 DEF Counters
<1>11. StatsBalanced(app, j)
  BY <1>4, <1>10 DEF StatsBalanced, Counters
<1> QED BY <1>3, <1>4, <1>8, <1>9, <1>10, <1>11

\* clearStats zeroes the counters and touches nothing else.
LEMMA ClearLemma ==
  ASSUME NEW app \in Apps, NEW i \in ObjectsOf(app), NEW j, j = ClearStats(i)
  PROVE  /\ j \in ObjectsOf(app)
         /\ StatsBalanced(app, j)
         /\ j.startTime = i.startTime /\ j.endTime = i.endTime
         /\ j.req = i.req
         /\ \A u \in TypesOf(app) : j.stats["attempts"][u] = 0
<1>1. DOMAIN i.req = TypesOf(app)
  BY DEF ObjectsOf
<1>2. j = [startTime |-> i.startTime, endTime |-> i.endTime, req |-> i.req,
           stats |-> [c \in Counters |-> [ty \in TypesOf(app) |-> 0]]]
  BY <1>1 DEF ClearStats, Object, ZeroStats
<1>3. j \in ObjectsOf(app)
  BY <1>2 DEF ObjectsOf
<1>4. StatsBalanced(app, j)
  BY <1>2 DEF StatsBalanced, Counters
<1> QED BY <1>2, <1>3, <1>4 DEF Counters

-----------------------------------------------------------------------------
\* A packet in the window (case 1): the invariant is kept.
LEMMA InWindowLemma ==
  ASSUME NEW app \in Apps, NEW i, ObjectInv(app, i), NEW pkt \in PacketShape,
         checkTime(i, Second(pkt.time)) = 1,
         NEW j, j = InWindow(app, i, pkt)
  PROVE  /\ ObjectInv(app, j)
         /\ j.startTime = i.startTime \/ j.startTime >= i.endTime
         /\ j.endTime >= i.endTime
         /\ j.startTime = Window(i, Second(pkt.time)).startTime
<1>1. PICK s, w, ty : /\ s = Second(pkt.time) /\ w = Window(i, s)
                      /\ ty = TypeIn(app, pkt)
  OBVIOUS
<1>2. /\ pkt.time \in Nat /\ s \in Nat
      /\ s * Ms <= pkt.time /\ pkt.time < (s + 1) * Ms
  BY <1>1, SecondLemma DEF PacketShape
<1>3. /\ w \in ObjectsOf(app) /\ w.req = i.req /\ w.stats = i.stats
      /\ w.startTime % WindowLen = 0
      /\ w.endTime = w.startTime + WindowLen
      /\ w.startTime <= s /\ s <= w.endTime
      /\ w.startTime = i.startTime \/ w.startTime >= i.endTime
      /\ w.endTime >= i.endTime
      /\ w.startTime # i.startTime => w.startTime <= WindowLen
  BY <1>1, <1>2, WindowLemma
<1>4. /\ i \in ObjectsOf(app) /\ StatsBalanced(app, w)
      /\ PendingInWindow(app, i)
  BY <1>3 DEF ObjectInv, StatsBalanced
<1>5. j = Account(w, ty, pkt) /\ ty \in TypesOf(app) \cup {NoType}
  BY <1>1, DispatchLemma, TypesLemma DEF InWindow
<1>6. /\ j \in ObjectsOf(app)
      /\ StatsBalanced(app, j)
      /\ j.startTime = w.startTime /\ j.endTime = w.endTime
      /\ \A u \in TypesOf(app), h \in Hops :
           \/ Entry(j, u, h) = Entry(w, u, h)
           \/ Entry(j, u, h) \in {0, Absent, pkt.time}
  BY <1>3, <1>4, <1>5, AccountLemma
<1>7. WindowAligned(app, j)
  BY <1>3, <1>6 DEF WindowAligned
<1>8. PendingInWindow(app, j)
  <2> SUFFICES ASSUME NEW u \in TypesOf(app), NEW h \in Hops, Known(j, u, h)
               PROVE  /\ Entry(j, u, h) >= (j.startTime - WindowLen) * Ms
                      /\ Second(Entry(j, u, h)) <= j.endTime
    BY DEF PendingInWindow
  <2>1. /\ i.startTime \in Nat /\ i.endTime \in Nat
        /\ w.startTime \in Nat /\ w.endTime \in Nat
    BY <1>3, <1>4 DEF ObjectsOf
  <2>2. CASE Entry(j, u, h) = pkt.time
    BY <2>1, <2>2, <1>1, <1>2, <1>3, <1>6 DEF Ms, WindowLen
  <2>3. CASE Entry(j, u, h) = Entry(w, u, h)
    <3>1. PICK e : e = Entry(i, u, h)
      OBVIOUS
    <3>2. Entry(j, u, h) = e /\ Known(i, u, h)
      BY <3>1, <2>3, <1>3 DEF Entry, Known
    <3>3. e \in Nat
      BY <3>1, <3>2, <1>4 DEF ObjectsOf, Entry, Known
    <3>4. e >= (i.startTime - WindowLen) * Ms /\ Second(e) <= i.endTime
      BY <3>1, <3>2, <1>4 DEF PendingInWindow
    <3>5. Second(e) \in Nat
      BY <3>3, SecondLemma
    <3>6. e >= (w.startTime - WindowLen) * Ms
      BY <3>3, <3>4, <2>1, <1>3 DEF Ms, WindowLen
    <3> QED BY <3>2, <3>4, <3>5, <3>6, <2>1, <1>3, <1>6
  <2> QED BY <2>2, <2>3, <1>6 DEF Known
<1> QED BY <1>1, <1>3, <1>6, <1>7, <1>8 DEF ObjectInv

\* A packet past the window (case 2): the sweep of printStats leaves nothing
\* waiting, because every waiting request is at least five seconds older than
\* the end of the new window; and the invariant is kept.
LEMMA RollOverLemma ==
  ASSUME NEW app \in Apps, NEW i, ObjectInv(app, i), NEW pkt \in PacketShape,
         checkTime(i, Second(pkt.time)) = 2,
         NEW j, j = RollOver(app, i, pkt), NEW k, k = Swept(app, i, pkt)
  PROVE  /\ ObjectInv(app, j)
         /\ j.startTime >= i.endTime
         /\ j.endTime = j.startTime + WindowLen /\ k.startTime = j.startTime
         /\ j.startTime = Window(i, Second(pkt.time)).startTime
         /\ k \in ObjectsOf(app) /\ StatsBalanced(app, k)
         /\ \A u \in TypesOf(app), h \in Hops : Entry(k, u, h) = Absent
         /\ \A u \in TypesOf(app), h \in Hops :
              Entry(j, u, h) # Absent => u = TypeIn(app, pkt) /\ h = pkt.hop
<1>1. PICK s, w, ty, c : /\ s = Second(pkt.time) /\ w = Window(i, s)
                         /\ ty = TypeIn(app, pkt) /\ c = ClearStats(k)
  OBVIOUS
<1>2. /\ pkt.time \in Nat /\ s \in Nat
      /\ s * Ms <= pkt.time /\ pkt.time < (s + 1) * Ms
  BY <1>1, SecondLemma, SMTT(30) DEF PacketShape
<1>3. /\ w \in ObjectsOf(app) /\ w.req = i.req /\ w.stats = i.stats
      /\ w.startTime % WindowLen = 0
      /\ w.endTime = w.startTime + WindowLen
      /\ w.startTime <= s /\ s <= w.endTime
      /\ w.startTime = i.startTime \/ w.startTime >= i.endTime
      /\ w.endTime >= i.endTime + WindowLen
  BY <1>1, <1>2, WindowLemma
<1>4. /\ i \in ObjectsOf(app) /\ StatsBalanced(app, w)
      /\ PendingInWindow(app, i)
  BY <1>3 DEF ObjectInv, StatsBalanced
<1>5. /\ k = Sweep(w) /\ j = Account(c, ty, pkt)
      /\ ty \in TypesOf(app) \cup {NoType}
  BY <1>1, DispatchLemma, TypesLemma DEF RollOver, Swept
<1>6. /\ i.startTime \in Nat /\ i.endTime \in Nat
      /\ w.startTime \in Nat /\ w.endTime \in Nat
      /\ i.startTime <= i.endTime
  <2>1. /\ i.startTime \in Nat /\ i.endTime \in Nat
        /\ w.startTime \in Nat /\ w.endTime \in Nat
    BY <1>3, <1>4 DEF ObjectsOf
  <2>2. \/ i.endTime = i.startTime + WindowLen
        \/ i.endTime = 0 /\ i.startTime = 0
    BY DispatchLemma, SMTT(30) DEF ObjectInv, WindowAligned, NewInterface, Object
  <2> QED BY <2>1, <2>2 DEF WindowLen
<1>7. /\ k \in ObjectsOf(app) /\ StatsBalanced(app, k)
      /\ k.startTime = w.startTime /\ k.endTime = w.endTime
      /\ \A u \in TypesOf(app), h \in Hops :
           Entry(k, u, h) = IF h \in Expired(w, u) THEN Absent
                                                  ELSE Entry(w, u, h)
  BY <1>3, <1>4, <1>5, SweepLemma
<1>8. ASSUME NEW u \in TypesOf(app), NEW h \in Hops
      PROVE  Entry(k, u, h) = Absent
  <2>1. PICK e : e = Entry(w, u, h)
    OBVIOUS
  <2>2. e \in Nat \cup {Absent} /\ e = Entry(i, u, h)
    BY <2>1, <1>3 DEF ObjectsOf, Entry
  <2>3. CASE e = Absent
    BY <2>1, <2>3, <1>7, ZenonT(30)
  <2>4. CASE e # Absent
    <3>1. e \in Nat /\ (e = 0 \/ Second(e) <= i.endTime)
      BY <2>2, <2>4, <1>4 DEF PendingInWindow, Known
    <3>2. e < (i.endTime + 1) * Ms
      <4>1. Second(e) \in Nat /\ e < (Second(e) + 1) * Ms
        BY <3>1, SecondLemma
      <4> QED BY <4>1, <3>1, <1>6 DEF Ms
    <3>3. e + DIAMETER_TIMEOUT * Ms < w.endTime * Ms
      BY <3>1, <3>2, <1>3, <1>6 DEF Ms, WindowLen, DIAMETER_TIMEOUT
    <3>4. h \in Expired(w, u)
      BY <3>3, <2>1, <2>4 DEF Expired
    <3> QED BY <3>4, <1>7
  <2> QED BY <2>3, <2>4
<1>9. /\ c \in ObjectsOf(app) /\ StatsBalanced(app, c)
      /\ c.startTime = w.startTime /\ c.endTime = w.endTime
      /\ c.req = k.req
  BY <1>1, <1>7, ClearLemma
<1>10. /\ j \in ObjectsOf(app)
       /\ StatsBalanced(app, j)
       /\ j.startTime = w.startTime /\ j.endTime = w.endTime
       /\ \A u \in TypesOf(app), h \in Hops :
            /\ ~(u = ty /\ h = pkt.hop) => Entry(j, u, h) = Entry(c, u, h)
            /\ \/ Entry(j, u, h) = Entry(c, u, h)
               \/ Entry(j, u, h) \in {0, Absent, pkt.time}
  BY <1>5, <1>9, AccountLemma, SMTT(30)
<1>11. \A u \in TypesOf(app), h \in Hops : Entry(c, u, h) = Absent
  BY <1>8, <1>9, SMTT(30) DEF Entry
<1>12. WindowAligned(app, j)
  BY <1>3, <1>10, SMTT(30) DEF WindowAligned
<1>13. PendingInWindow(app, j)
  <2> SUFFICES ASSUME NEW u \in TypesOf(app), NEW h \in Hops, Known(j, u, h)
               PROVE  /\ Entry(j, u, h) >= (j.startTime - WindowLen) * Ms
                      /\ Second(Entry(j, u, h)) <= j.endTime
    BY DEF PendingInWindow
  <2>1. Entry(j, u, h) = pkt.time
    BY <1>10, <1>11 DEF Known
  <2> QED BY <2>1, <1>1, <1>2, <1>3, <1>6, <1>10 DEF Ms, WindowLen
<1>14. j.startTime >= i.endTime
  <2>1. w.startTime >= i.endTime
    BY <1>3, <1>6 DEF WindowLen
  <2> QED BY <2>1, <1>10
<1>15. \A u \in TypesOf(app), h \in Hops :
         Entry(j, u, h) # Absent => u = TypeIn(app, pkt) /\ h = pkt.hop
  BY <1>1, <1>10, <1>11
<1>16. /\ j.endTime = j.startTime + WindowLen /\ k.startTime = j.startTime
       /\ j.startTime = Window(i, Second(pkt.time)).startTime
  BY <1>1, <1>3, <1>7, <1>10
<1> QED BY <1>7, <1>8, <1>10, <1>12, <1>13, <1>14, <1>15, <1>16 DEF ObjectInv
=============================================================================
