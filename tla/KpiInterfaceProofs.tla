------------------------- MODULE KpiInterfaceProofs -------------------------
(***************************************************************************)
(* What one interface object guarantees for every class, any number of     *)
(* packets, any hop ids and any packet times in any order.                 *)
(***************************************************************************)
EXTENDS KpiInterface, DiameterInterfacesProofs

\* A printed report shows one outcome for every attempt.
ReportBalanced ==
  report # NoReport => \A ty \in Types :
    report.Att[ty] = report.Suc[ty] + report.Fail[ty] + report.Tout[ty]

\* The inductive invariant: the properties of the object are inductive only
\* together, because the sweep settles everything only when what waits lies
\* in an aligned window of known length.
IInv == ObjectInv(App, iface) /\ ReportBalanced

\* A packet of the model has the shape the lemmas about objects ask for.
LEMMA PacketsLemma == Packets \subseteq PacketShape
BY CodesAssumption, TimesAssumption, ZenonT(30) DEF Packets, PacketShape

\* The initial state satisfies the invariant.
LEMMA InitIInv == Init => IInv
BY AppAssumption, NewObjectInv DEF Init, IInv, ReportBalanced

\* A packet that is counted in the window keeps the invariant.
LEMMA CountIInv ==
  ASSUME NEW pkt \in Packets, IInv, Count(pkt)
  PROVE  /\ IInv' /\ report' = report
         /\ iface'.startTime = iface.startTime \/ iface'.startTime >= iface.endTime
<1>1. pkt \in PacketShape
  BY PacketsLemma
<1>2. /\ ObjectInv(App, iface')
      /\ iface'.startTime = iface.startTime \/ iface'.startTime >= iface.endTime
  BY <1>1, AppAssumption, InWindowLemma, Zenon DEF Count, IInv
<1> QED BY <1>2 DEF Count, IInv, ReportBalanced

\* A packet that closes the window keeps the invariant and leaves at most its
\* own entry in the table.
LEMMA RollIInv ==
  ASSUME NEW pkt \in Packets, IInv, Roll(pkt)
  PROVE  /\ IInv' /\ iface'.startTime >= iface.endTime
         /\ \A ty \in Types, h \in Hops :
              Entry(iface', ty, h) # Absent => ty = TypeIn(App, pkt) /\ h = pkt.hop
<1>1. PICK k : k = Swept(App, iface, pkt)
  OBVIOUS
<1>2. pkt \in PacketShape
  BY PacketsLemma
<1>3. /\ ObjectInv(App, iface') /\ iface'.startTime >= iface.endTime
      /\ StatsBalanced(App, k)
      /\ \A ty \in Types, h \in Hops :
           Entry(iface', ty, h) # Absent => ty = TypeIn(App, pkt) /\ h = pkt.hop
  BY <1>1, <1>2, AppAssumption, RollOverLemma DEF Roll, IInv, Types
<1>4. /\ report'.Att = k.stats["attempts"] /\ report'.Suc = k.stats["succCount"]
      /\ report'.Fail = k.stats["failCount"]
      /\ report'.Tout = k.stats["timeoutCount"]
  BY <1>1, Zenon DEF Roll, Report
<1>5. ReportBalanced'
  BY <1>3, <1>4, Zenon DEF ReportBalanced, StatsBalanced, Types
<1> QED BY <1>3, <1>5 DEF IInv

\* Every step keeps the invariant.
LEMMA NextIInv == IInv /\ [Next]_vars => IInv'
<1> SUFFICES ASSUME IInv, [Next]_vars PROVE IInv'
  OBVIOUS
<1>1. CASE UNCHANGED vars
  BY <1>1, Zenon DEF vars, IInv, ReportBalanced
<1>2. ASSUME NEW pkt \in Packets, Drop(pkt) PROVE IInv'
  BY <1>2, Zenon DEF Drop, IInv, ReportBalanced
<1>3. ASSUME NEW pkt \in Packets, Count(pkt) PROVE IInv'
  BY <1>3, CountIInv
<1>4. ASSUME NEW pkt \in Packets, Roll(pkt) PROVE IInv'
  BY <1>4, RollIInv
<1> QED BY <1>1, <1>2, <1>3, <1>4 DEF Next

\* The invariant holds in every reachable state.
THEOREM Invariance == Spec => []IInv
BY InitIInv, NextIInv, PTL DEF Spec

-----------------------------------------------------------------------------
\* Every attempt has exactly one outcome, in the counters and in every line
\* printStats writes.
THEOREM AttemptsBalance == Spec => []Balanced
<1>1. IInv => Balanced
  BY DEF IInv, ObjectInv, ReportBalanced, Balanced
<1> QED BY <1>1, Invariance, PTL

\* checkTime keeps the window aligned and ten seconds long, in whatever order
\* packets come.
THEOREM WindowsAligned == Spec => []WindowShape
<1>1. IInv => WindowShape
  BY DEF IInv, ObjectInv, WindowShape
<1> QED BY <1>1, Invariance, PTL

\* What waits for an answer was asked in the current window.
THEOREM NothingStaleWaits == Spec => []PendingIsCurrent
<1>1. IInv => PendingIsCurrent
  BY DEF IInv, ObjectInv, PendingIsCurrent
<1> QED BY <1>1, Invariance, PTL

\* The branch RTT > 40 of addPkt is dead code.
THEOREM CutoffIsDead == Spec => []CutoffUnreachable
<1>1. IInv => CutoffUnreachable
  <2> SUFFICES ASSUME IInv, NEW ty \in Types, NEW h \in Hops, NEW t \in Times,
                      Known(iface, ty, h),
                      checkTime(iface, Second(t)) = 1
               PROVE  t - Entry(iface, ty, h) <= MaxRTT * Ms
    BY DEF CutoffUnreachable
  <2>1. /\ iface \in ObjectsOf(App) /\ WindowAligned(App, iface)
        /\ PendingInWindow(App, iface) /\ ty \in TypesOf(App)
    BY DEF IInv, ObjectInv, Types
  <2>2. PICK e, s : e = Entry(iface, ty, h) /\ s = Second(t)
    OBVIOUS
  <2>3. /\ e \in Nat /\ iface.startTime \in Nat /\ iface.endTime \in Nat
        /\ e >= (iface.startTime - WindowLen) * Ms
    BY <2>1, <2>2 DEF ObjectsOf, Entry, Known, PendingInWindow
  <2>4. t \in Nat /\ s \in Nat /\ t < (s + 1) * Ms
    BY <2>2, TimesAssumption, SecondLemma
  <2>5. s <= iface.endTime
    BY <2>2, <2>3, <2>4 DEF checkTime
  <2>6. iface.endTime <= iface.startTime + WindowLen
    BY <2>1, <2>3, AppAssumption, DispatchLemma
       DEF WindowAligned, NewInterface, Object, WindowLen
  <2> QED BY <2>2, <2>3, <2>4, <2>5, <2>6 DEF Ms, WindowLen, MaxRTT
<1> QED BY <1>1, Invariance, PTL

\* Windows never overlap.
THEOREM WindowsNeverOverlap == Spec => WindowsDisjoint
<1>1. IInv /\ [Next]_vars
        => [iface'.startTime # iface.startTime
              => iface'.startTime >= iface.endTime]_vars
  <2> SUFFICES ASSUME IInv, Next, iface'.startTime # iface.startTime
               PROVE  iface'.startTime >= iface.endTime
    BY DEF vars
  <2>1. ASSUME NEW pkt \in Packets, Drop(pkt) PROVE FALSE
    BY <2>1 DEF Drop
  <2> QED BY <2>1, CountIInv, RollIInv DEF Next
<1> QED BY <1>1, Invariance, PTL DEF Spec, WindowsDisjoint

\* Printing a window settles every request that waited in it.
THEOREM PrintingSettles == Spec => RollOverSettles
<1> DEFINE Single ==
      \A t1, t2 \in Types, h1, h2 \in Hops :
        Entry(iface', t1, h1) # Absent /\ Entry(iface', t2, h2) # Absent
          => t1 = t2 /\ h1 = h2
<1>1. IInv /\ [Next]_vars => [report' # report => Single]_vars
  <2> SUFFICES ASSUME IInv, Next, report' # report PROVE Single
    BY DEF vars
  <2>1. PICK pkt \in Packets : Roll(pkt)
    BY Zenon DEF Next, Drop, Count
  <2> QED BY <2>1, RollIInv
<1> QED BY <1>1, Invariance, PTL DEF Spec, RollOverSettles

-----------------------------------------------------------------------------
(***************************************************************************)
(* The history: what addPkt and the sweep do to the fates of requests.     *)
(***************************************************************************)
\* The entries and the counters after one entry has been written.
LEMMA UpdateFields ==
  ASSUME NEW app, NEW i \in ObjectsOf(app), NEW ty \in TypesOf(app), NEW hop \in Hops,
         NEW t, NEW s, NEW u \in TypesOf(app), NEW h \in Hops,
         NEW j, j = Update(i, ty, hop, t, s)
  PROVE  /\ Entry(j, u, h) = IF u = ty /\ h = hop THEN t ELSE Entry(i, u, h)
         /\ j.stats = s
BY DEF Update, Object, Entry, ObjectsOf

\* Exactly what adding a packet does to the entries and to attempts.
LEMMA AccountExact ==
  ASSUME NEW i \in ObjectsOf(App), NEW pkt \in PacketShape,
         NEW ty, ty = TypeIn(App, pkt), NEW j, j = Account(i, ty, pkt),
         NEW u \in TypesOf(App), NEW h \in Hops
  PROVE  /\ j.stats["attempts"][u] =
              i.stats["attempts"][u] + Attempted(i, u, pkt)
         /\ ~(u = ty /\ h = pkt.hop) => Entry(j, u, h) = Entry(i, u, h)
         /\ (u = ty /\ h = pkt.hop /\ pkt.request = 1) => Entry(j, u, h) = pkt.time
         /\ (u = ty /\ h = pkt.hop /\ pkt.request = 0) =>
              IF ~Known(i, u, h) THEN Entry(j, u, h) = 0
              ELSE IF InRange(pkt.time - Entry(i, u, h))
                     THEN Entry(j, u, h) = Absent
                     ELSE Entry(j, u, h) = Entry(i, u, h)
<1>0. /\ pkt.hop \in Hops /\ pkt.request \in {0, 1} /\ "attempts" \in Counters
      /\ "attempts" # "latency"
      /\ i.stats \in [Counters -> [TypesOf(App) -> Nat]]
      /\ ty \in TypesOf(App) \cup {NoType} /\ NoType \notin TypesOf(App)
  BY AppAssumption, TypesLemma, Zenon DEF PacketShape, ObjectsOf, Counters
<1>1. i.stats["attempts"][u] \in Nat
  BY <1>0
<1>5. pkt.hop \in Hops
  BY <1>0
<1>2. CASE ty = NoType
  BY <1>0, <1>1, <1>2 DEF Account, Attempted
<1>3. CASE ty # NoType /\ pkt.request = 1
  <2>1. j = Update(i, ty, pkt.hop, pkt.time, i.stats) /\ ty \in TypesOf(App)
    BY <1>0, <1>3 DEF Account, HandleRequest
  <2>2. /\ Entry(j, u, h) = IF u = ty /\ h = pkt.hop THEN pkt.time ELSE Entry(i, u, h)
        /\ j.stats = i.stats
    BY <2>1, <1>5, UpdateFields
  <2> QED BY <2>2, <1>0, <1>1, <1>3 DEF Attempted
<1>4. CASE ty # NoType /\ pkt.request = 0
  <2>0. ty \in TypesOf(App)
    BY <1>0, <1>4, Zenon
  <2>4. j = HandleResponse(i, ty, pkt)
    BY <1>4 DEF Account
  <2>1. CASE ~Known(i, ty, pkt.hop)
    <3>1. PICK s : s = Bump(i.stats, ty, {"unKnwRes"})
      OBVIOUS
    <3>2. j = Update(i, ty, pkt.hop, 0, s)
      BY <3>1, <2>1, <2>4 DEF HandleResponse, UnknownResponse
    <3>3. s["attempts"][u] = i.stats["attempts"][u]
      BY <3>1, <2>0, <1>0, BumpLemma
    <3>4. /\ Entry(j, u, h) = IF u = ty /\ h = pkt.hop THEN 0 ELSE Entry(i, u, h)
          /\ j.stats = s
      BY <3>2, <2>0, <1>5, UpdateFields
    <3> QED BY <3>3, <3>4, <2>1, <1>1, <1>4 DEF Attempted
  <2>2. CASE Known(i, ty, pkt.hop) /\ ~InRange(pkt.time - Entry(i, ty, pkt.hop))
    <3>1. PICK s, e : /\ s = Bump(i.stats, ty, {"attempts", "timeoutCount"})
                      /\ e = Entry(i, ty, pkt.hop)
      OBVIOUS
    <3>2. j = Update(i, ty, pkt.hop, e, s)
      BY <3>1, <2>2, <2>4, Zenon DEF HandleResponse, LateResponse
    <3>3. s["attempts"][u] = IF u = ty THEN i.stats["attempts"][u] + 1
                                       ELSE i.stats["attempts"][u]
      BY <3>1, <2>0, <1>0, BumpLemma
    <3>4. /\ Entry(j, u, h) = IF u = ty /\ h = pkt.hop THEN e ELSE Entry(i, u, h)
          /\ j.stats = s
      BY <3>2, <2>0, <1>5, UpdateFields
    <3> QED BY <3>1, <3>3, <3>4, <2>2, <1>1, <1>4 DEF Attempted
  <2>3. CASE Known(i, ty, pkt.hop) /\ InRange(pkt.time - Entry(i, ty, pkt.hop))
    <3>1. PICK RTT, o, b, l, s :
            /\ RTT = pkt.time - Entry(i, ty, pkt.hop)
            /\ o = IF IsSuccess(pkt.resCode) THEN "succCount" ELSE "failCount"
            /\ b = Bump(i.stats, ty, {"attempts", "latencySize", o})
            /\ l = [b["latency"] EXCEPT ![ty] = @ + RTT]
            /\ s = [b EXCEPT !["latency"] = l]
      BY ZenonT(30)
    <3>2. j = Update(i, ty, pkt.hop, Absent, s)
      BY <3>1, <2>3, <2>4, Zenon DEF HandleResponse, AnsweredRequest
    <3>3. /\ b \in [Counters -> [TypesOf(App) -> Nat]]
          /\ b["attempts"][u] = IF u = ty THEN i.stats["attempts"][u] + 1
                                          ELSE i.stats["attempts"][u]
      BY <3>1, <2>0, <1>0, BumpLemma
    <3>4. s["attempts"] = b["attempts"]
      BY <3>1, <3>3, <1>0, Zenon
    <3>5. /\ Entry(j, u, h) = IF u = ty /\ h = pkt.hop THEN Absent ELSE Entry(i, u, h)
          /\ j.stats = s
      BY <3>2, <2>0, <1>5, UpdateFields
    <3> QED BY <3>3, <3>4, <3>5, <2>3, <1>1, <1>4 DEF Attempted
  <2> QED BY <2>1, <2>2, <2>3, Zenon
<1> QED BY <1>0, <1>2, <1>3, <1>4, Zenon

\* The number of waiting requests after a packet: a request adds its hop id,
\* or replaces the one that waits under it; an answer in range takes it out.
LEMMA PendingExact ==
  ASSUME NEW i \in ObjectsOf(App), NEW pkt \in PacketShape, pkt.time # 0,
         NEW ty, ty = TypeIn(App, pkt), NEW j, j = Account(i, ty, pkt),
         NEW u \in TypesOf(App)
  PROVE  /\ Cardinality(Pending(i, u)) \in Nat /\ Cardinality(Pending(j, u)) \in Nat
         /\ Cardinality(Pending(j, u)) + Overwritten(i, u, pkt) + Answered(i, u, pkt)
              = Cardinality(Pending(i, u)) + Asked(u, pkt)
<1>1. pkt.hop \in Hops /\ pkt.time \in Nat /\ pkt.request \in {0, 1}
  BY DEF PacketShape
<1>2. PICK P, Q, x, rtt : /\ P = Pending(i, u) /\ Q = Pending(j, u) /\ x = pkt.hop
                          /\ rtt = pkt.time - Entry(i, u, x)
  BY Zenon
<1>0. ASSUME NEW h \in Hops
      PROVE  /\ ~(u = ty /\ h = pkt.hop) => Entry(j, u, h) = Entry(i, u, h)
             /\ (u = ty /\ h = pkt.hop /\ pkt.request = 1) => Entry(j, u, h) = pkt.time
             /\ (u = ty /\ h = pkt.hop /\ pkt.request = 0) =>
                  IF ~Known(i, u, h) THEN Entry(j, u, h) = 0
                  ELSE IF InRange(pkt.time - Entry(i, u, h))
                         THEN Entry(j, u, h) = Absent
                         ELSE Entry(j, u, h) = Entry(i, u, h)
  BY AccountExact
<1>3. P \subseteq Hops /\ Q \subseteq Hops
  BY <1>2 DEF Pending
<1>4. /\ IsFiniteSet(P) /\ IsFiniteSet(Q)
      /\ Cardinality(P) \in Nat /\ Cardinality(Q) \in Nat
  BY <1>3, HopsFinite, FS_Subset, FS_CardinalityType, Zenon
<1>5. \A h \in Hops \ {x} : h \in Q <=> h \in P
  BY <1>2, <1>0, Zenon DEF Pending, Known
<1>6. x \in P <=> Known(i, u, x)
  BY <1>1, <1>2 DEF Pending
<1>7. CASE /\ ~(ty = u /\ pkt.request = 1)
           /\ ~(ty = u /\ pkt.request = 0 /\ Known(i, u, x) /\ InRange(rtt))
  <2>1. x \in Q <=> x \in P
    BY <1>1, <1>2, <1>7, <1>0, Zenon DEF Pending, Known
  <2>2. P = Q
    BY <2>1, <1>3, <1>5
  <2>3. Asked(u, pkt) = 0 /\ Overwritten(i, u, pkt) = 0 /\ Answered(i, u, pkt) = 0
    BY <1>2, <1>7 DEF Asked, Overwritten, Answered, Attempted
  <2>4. Cardinality(P) = Cardinality(Q)
    BY <2>2, Zenon
  <2> QED BY <2>3, <2>4, <1>2, <1>4
<1>8. CASE ty = u /\ pkt.request = 1
  <2>1. Entry(j, u, x) = pkt.time
    BY <1>1, <1>2, <1>8, <1>0
  <2>2. x \in Q
    BY <2>1, <1>1, <1>2 DEF Pending, Known, Absent
  <2>3. Q = P \cup {x}
    BY <2>2, <1>3, <1>5
  <2>4. Cardinality(Q) = IF x \in P THEN Cardinality(P) ELSE Cardinality(P) + 1
    BY <2>3, <1>4, FS_AddElement, Zenon
  <2>5. /\ Asked(u, pkt) = 1 /\ Answered(i, u, pkt) = 0
        /\ Overwritten(i, u, pkt) = IF x \in P THEN 1 ELSE 0
    BY <1>2, <1>6, <1>8 DEF Asked, Overwritten, Answered, Attempted
  <2> QED BY <2>4, <2>5, <1>2, <1>4
<1>9. CASE ty = u /\ pkt.request = 0 /\ Known(i, u, x) /\ InRange(rtt)
  <2>1. Entry(j, u, x) = Absent
    BY <1>1, <1>2, <1>9, <1>0
  <2>2. x \notin Q
    BY <2>1, <1>2 DEF Pending, Known
  <2>3. Q = P \ {x}
    BY <2>2, <1>3, <1>5
  <2>4. Cardinality(Q) = Cardinality(P) - 1
    BY <2>3, <1>4, <1>6, <1>9, FS_RemoveElement
  <2>5. Asked(u, pkt) = 0 /\ Overwritten(i, u, pkt) = 0 /\ Answered(i, u, pkt) = 1
    BY <1>2, <1>9 DEF Asked, Overwritten, Answered, Attempted
  <2> QED BY <2>4, <2>5, <1>2, <1>4
<1> QED BY <1>1, <1>7, <1>8, <1>9, Zenon

\* Each fate grows by 0 or 1 when a packet is entered.
LEMMA FateLemma ==
  ASSUME NEW i, NEW u, NEW pkt
  PROVE  /\ Asked(u, pkt) \in Nat /\ Overwritten(i, u, pkt) \in Nat
         /\ Answered(i, u, pkt) \in Nat /\ Attempted(i, u, pkt) \in Nat
BY DEF Asked, Overwritten, Answered, Attempted

\* Entering a packet in the ledger.
LEMMA EnteredLemma ==
  ASSUME NEW l \in [Fates -> Nat], NEW i, NEW u, NEW pkt,
         NEW m, m = Entered(l, i, u, pkt)
  PROVE  /\ m \in [Fates -> Nat]
         /\ m["swept"] = l["swept"] /\ m["printed"] = l["printed"]
         /\ m["asked"] = l["asked"] + Asked(u, pkt)
         /\ m["overwritten"] = l["overwritten"] + Overwritten(i, u, pkt)
         /\ m["answered"] = l["answered"] + Answered(i, u, pkt)
         /\ m["attempts"] = l["attempts"] + Attempted(i, u, pkt)
BY FateLemma DEF Entered, Fates

\* Entering a sweep in the ledger.
LEMMA SweptLedgerLemma ==
  ASSUME NEW l \in [Fates -> Nat], NEW i \in ObjectsOf(App), StatsBalanced(App, i),
         NEW u \in TypesOf(App), NEW now,
         NEW m, m = SweptLedger(l, i, u, now)
  PROVE  /\ m \in [Fates -> Nat]
         /\ \A f \in {"asked", "overwritten", "answered"} : m[f] = l[f]
         /\ m["swept"] = l["swept"] + Cardinality(Expired(i, u) \cap Pending(i, u))
         /\ m["attempts"] = l["attempts"] + Cardinality(Expired(i, u))
         /\ m["printed"] = l["printed"] + i.stats["attempts"][u]
                             + Cardinality(Expired(i, u))
<1>1. PICK T, Y, X, p :
        /\ T = Expired(i, u) \cap Pending(i, u) /\ X = Expired(i, u)
        /\ Y = {h \in T : now - Entry(i, u, h) < DIAMETER_TIMEOUT * Ms}
        /\ p = Sweep(i).stats["attempts"][u]
  BY ZenonT(30)
<1>2. T \subseteq Hops /\ Y \subseteq Hops
  BY <1>1 DEF Expired
<1>3. Cardinality(T) \in Nat /\ Cardinality(Y) \in Nat
  BY <1>2, HopsFinite, FS_Subset, FS_CardinalityType
<1>4. Cardinality(X) \in Nat /\ p = i.stats["attempts"][u] + Cardinality(X)
  BY <1>1, AppAssumption, SweepLemma
<1>5. i.stats["attempts"][u] \in Nat
  BY DEF ObjectsOf, Counters
<1>6. m = [l EXCEPT !["swept"]    = @ + Cardinality(T),
                    !["early"]    = @ + Cardinality(Y),
                    !["attempts"] = @ + Cardinality(X),
                    !["printed"]  = @ + p]
  BY <1>1, Zenon DEF SweptLedger
<1>7. p \in Nat
  BY <1>4, <1>5
<1>8. /\ m \in [Fates -> Nat]
      /\ m["asked"] = l["asked"] /\ m["overwritten"] = l["overwritten"]
      /\ m["answered"] = l["answered"]
      /\ m["swept"] = l["swept"] + Cardinality(T)
      /\ m["attempts"] = l["attempts"] + Cardinality(X)
      /\ m["printed"] = l["printed"] + p
  BY <1>3, <1>4, <1>6, <1>7 DEF Fates
<1>9. l["printed"] \in Nat
  BY DEF Fates
<1> QED BY <1>1, <1>4, <1>5, <1>8, <1>9

\* The ledger is well formed and every attempt in it has been printed or is
\* in the running counters.
LedgerInv == ledger \in [Types -> [Fates -> Nat]] /\ PrintedOnce

\* The fates depend on the table only.
LEMMA SameTable ==
  ASSUME NEW i, NEW j, i.req = j.req, NEW u, NEW pkt
  PROVE  /\ Overwritten(i, u, pkt) = Overwritten(j, u, pkt)
         /\ Answered(i, u, pkt) = Answered(j, u, pkt)
         /\ Attempted(i, u, pkt) = Attempted(j, u, pkt)
         /\ Pending(i, u) = Pending(j, u)
BY DEF Overwritten, Answered, Attempted, Pending, Known, Entry

\* Of one type's part l of the ledger, and object i: every attempt is printed or
\* in the running counter; every request has its fate or waits.
AllPrinted(l, i, u) == l["attempts"] = l["printed"] + i.stats["attempts"][u]

AllKept(l, i, u) ==
  l["asked"] = l["overwritten"] + l["answered"] + l["swept"]
                 + Cardinality(Pending(i, u))

\* The entries of the ledger are numbers.
LEMMA FatesAreNat ==
  ASSUME NEW l \in [Fates -> Nat]
  PROVE  /\ l["asked"] \in Nat /\ l["overwritten"] \in Nat /\ l["answered"] \in Nat
         /\ l["swept"] \in Nat /\ l["attempts"] \in Nat /\ l["printed"] \in Nat
BY Zenon DEF Fates

\* Entering a packet keeps both.
LEMMA EnterKeeps ==
  ASSUME NEW i \in ObjectsOf(App), NEW pkt \in PacketShape, NEW u \in TypesOf(App),
         NEW l \in [Fates -> Nat], AllPrinted(l, i, u),
         NEW k, k.req = i.req,
         NEW j, j = Account(i, TypeIn(App, pkt), pkt),
         NEW m, m = Entered(l, k, u, pkt)
  PROVE  /\ m \in [Fates -> Nat] /\ AllPrinted(m, j, u)
         /\ (pkt.time # 0 /\ AllKept(l, i, u)) => AllKept(m, j, u)
<1>1. PICK a, o, n, d :
        /\ a = Asked(u, pkt) /\ o = Overwritten(i, u, pkt)
        /\ n = Answered(i, u, pkt) /\ d = Attempted(i, u, pkt)
  OBVIOUS
<1>2. a \in Nat /\ o \in Nat /\ n \in Nat /\ d \in Nat
  BY <1>1, FateLemma
<1>3. /\ o = Overwritten(k, u, pkt) /\ n = Answered(k, u, pkt)
      /\ d = Attempted(k, u, pkt)
  BY <1>1, SameTable
<1>4. /\ m \in [Fates -> Nat]
      /\ m["swept"] = l["swept"] /\ m["printed"] = l["printed"]
      /\ m["asked"] = l["asked"] + a /\ m["overwritten"] = l["overwritten"] + o
      /\ m["answered"] = l["answered"] + n /\ m["attempts"] = l["attempts"] + d
  BY <1>1, <1>3, EnteredLemma
<1>5. j.stats["attempts"][u] = i.stats["attempts"][u] + d
  <2>1. pkt.hop \in Hops
    BY DEF PacketShape
  <2> QED BY <2>1, <1>1, AccountExact
<1>6. i.stats["attempts"][u] \in Nat
  BY DEF ObjectsOf, Counters
<1>7. AllPrinted(m, j, u)
  BY <1>2, <1>4, <1>5, <1>6, FatesAreNat DEF AllPrinted
<1>8. ASSUME pkt.time # 0, AllKept(l, i, u) PROVE AllKept(m, j, u)
  <2>1. PICK p, q, A, O, N, S :
          /\ p = Cardinality(Pending(i, u)) /\ q = Cardinality(Pending(j, u))
          /\ A = l["asked"] /\ O = l["overwritten"] /\ N = l["answered"]
          /\ S = l["swept"]
    OBVIOUS
  <2>2. p \in Nat /\ q \in Nat /\ q + o + n = p + a
    BY <2>1, <1>1, <1>8, PendingExact
  <2>3. A \in Nat /\ O \in Nat /\ N \in Nat /\ S \in Nat
    BY <2>1, FatesAreNat
  <2>4. A = O + N + S + p
    BY <2>1, <1>8 DEF AllKept
  <2>5. A + a = (O + o) + (N + n) + S + q
    BY <2>2, <2>3, <2>4, <1>2
  <2> QED BY <2>1, <2>5, <1>4 DEF AllKept
<1> QED BY <1>4, <1>7, <1>8

\* The sweep and the clearing of the counters keep both, when the sweep leaves
\* nothing behind.
LEMMA SweepKeeps ==
  ASSUME NEW w \in ObjectsOf(App), StatsBalanced(App, w), NEW u \in TypesOf(App),
         NEW l \in [Fates -> Nat], AllPrinted(l, w, u), NEW now,
         NEW k \in ObjectsOf(App), k = Sweep(w),
         \A h \in Hops : Entry(k, u, h) = Absent,
         NEW c, c = ClearStats(k),
         NEW b, b = SweptLedger(l, w, u, now)
  PROVE  /\ b \in [Fates -> Nat] /\ AllPrinted(b, c, u)
         /\ AllKept(l, w, u) => AllKept(b, c, u)
<1>1. PICK X, T : /\ X = Cardinality(Expired(w, u))
                  /\ T = Cardinality(Expired(w, u) \cap Pending(w, u))
  OBVIOUS
<1>2. /\ b \in [Fates -> Nat]
      /\ b["asked"] = l["asked"] /\ b["overwritten"] = l["overwritten"]
      /\ b["answered"] = l["answered"] /\ b["swept"] = l["swept"] + T
      /\ b["attempts"] = l["attempts"] + X
      /\ b["printed"] = l["printed"] + w.stats["attempts"][u] + X
  BY <1>1, SweptLedgerLemma
<1>3. Expired(w, u) \subseteq Hops
  BY Zenon DEF Expired
<1>4. X \in Nat /\ T \in Nat
  BY <1>1, <1>3, HopsFinite, FS_Subset, FS_CardinalityType
<1>5. w.stats["attempts"][u] \in Nat
  BY DEF ObjectsOf, Counters
<1>6. c.req = k.req /\ c.stats["attempts"][u] = 0
  BY AppAssumption, ClearLemma
<1>7. AllPrinted(b, c, u)
  BY <1>2, <1>4, <1>5, <1>6, FatesAreNat DEF AllPrinted
<1>8. Cardinality(Pending(c, u)) = 0
  <2>1. Pending(c, u) = {}
    BY <1>6, Zenon DEF Pending, Known, Entry
  <2> QED BY <2>1, FS_EmptySet, Zenon
<1>9. T = Cardinality(Pending(w, u))
  <2>1. ASSUME NEW h \in Pending(w, u) PROVE h \in Expired(w, u)
    <3>1. h \in Hops /\ Entry(w, u, h) # Absent
      BY DEF Pending, Known
    <3>2. Entry(k, u, h) = IF h \in Expired(w, u) THEN Absent ELSE Entry(w, u, h)
      BY <3>1, AppAssumption, SweepLemma
    <3> QED BY <3>1, <3>2
  <2>2. Expired(w, u) \cap Pending(w, u) = Pending(w, u)
    BY <2>1, Zenon
  <2> QED BY <2>2, <1>1, Zenon
<1>10. ASSUME AllKept(l, w, u) PROVE AllKept(b, c, u)
  <2>1. l["asked"] = l["overwritten"] + l["answered"] + l["swept"] + T
    BY <1>9, <1>10 DEF AllKept
  <2>2. b["asked"] = b["overwritten"] + b["answered"] + b["swept"]
    BY <2>1, <1>2, <1>4, FatesAreNat
  <2>3. b["overwritten"] + b["answered"] + b["swept"] \in Nat
    BY <1>2, FatesAreNat
  <2> QED BY <2>2, <2>3, <1>8 DEF AllKept
<1> QED BY <1>2, <1>7, <1>10

\* The conjuncts of the invariant for one type.
LEMMA LedgerOf ==
  ASSUME IInv, LedgerInv, NEW u \in Types
  PROVE  /\ u \in TypesOf(App) /\ ledger[u] \in [Fates -> Nat]
         /\ AllPrinted(ledger[u], iface, u)
         /\ Conservation => AllKept(ledger[u], iface, u)
BY Zenon DEF Types, LedgerInv, PrintedOnce, Conservation, AllPrinted, AllKept

\* A packet counted in the window, type by type.
LEMMA CountLedger ==
  ASSUME NEW pkt \in Packets, IInv, LedgerInv, Count(pkt), NEW u \in Types
  PROVE  /\ ledger'[u] \in [Fates -> Nat] /\ AllPrinted(ledger'[u], iface', u)
         /\ (pkt.time # 0 /\ Conservation) => AllKept(ledger'[u], iface', u)
<1>1. PICK w, l : w = Window(iface, Second(pkt.time)) /\ l = ledger[u]
  OBVIOUS
<1>2. /\ pkt \in PacketShape /\ Second(pkt.time) \in Nat
      /\ checkTime(iface, Second(pkt.time)) = 1
  BY PacketsLemma, SecondLemma DEF PacketShape, Count
<1>3. w \in ObjectsOf(App) /\ w.req = iface.req /\ w.stats = iface.stats
  BY <1>1, <1>2, AppAssumption, WindowLemma DEF IInv
<1>4. /\ iface' = Account(w, TypeIn(App, pkt), pkt)
      /\ ledger'[u] = Entered(l, iface, u, pkt)
  BY <1>1, AppAssumption, DispatchLemma DEF Count, InWindow
<1>5. /\ u \in TypesOf(App) /\ l \in [Fates -> Nat] /\ AllPrinted(l, w, u)
      /\ Conservation => AllKept(l, w, u)
  BY <1>1, <1>3, LedgerOf, SameTable DEF AllPrinted, AllKept
<1> QED BY <1>2, <1>3, <1>4, <1>5, EnterKeeps

\* A packet that closes the window, type by type: what waited is swept, what
\* was counted is printed, and then the packet is entered.
LEMMA RollLedger ==
  ASSUME NEW pkt \in Packets, IInv, LedgerInv, Roll(pkt), NEW u \in Types
  PROVE  /\ ledger'[u] \in [Fates -> Nat] /\ AllPrinted(ledger'[u], iface', u)
         /\ (pkt.time # 0 /\ Conservation) => AllKept(ledger'[u], iface', u)
<1>1. PICK w, k, c, l, b :
        /\ w = Window(iface, Second(pkt.time)) /\ k = Swept(App, iface, pkt)
        /\ c = ClearStats(k) /\ l = ledger[u] /\ b = SweptLedger(l, w, u, pkt.time)
  OBVIOUS
<1>2. /\ pkt \in PacketShape /\ Second(pkt.time) \in Nat
      /\ checkTime(iface, Second(pkt.time)) = 2
      /\ App \in Apps /\ ObjectInv(App, iface)
  BY PacketsLemma, SecondLemma, AppAssumption, ZenonT(30) DEF PacketShape, Roll, IInv
<1>3. w \in ObjectsOf(App) /\ w.req = iface.req /\ w.stats = iface.stats
  BY <1>1, <1>2, AppAssumption, WindowLemma DEF IInv
<1>4. /\ iface' = Account(c, TypeIn(App, pkt), pkt) /\ k = Sweep(w)
      /\ ledger'[u] = Entered(b, k, u, pkt)
  BY <1>1, <1>2, DispatchLemma, ZenonT(30) DEF Roll, RollOver, Swept
<1>5. /\ u \in TypesOf(App) /\ l \in [Fates -> Nat] /\ AllPrinted(l, w, u)
      /\ Conservation => AllKept(l, w, u)
  BY <1>1, <1>3, LedgerOf, SameTable DEF AllPrinted, AllKept
<1>6. StatsBalanced(App, w)
  BY <1>2, <1>3, Zenon DEF ObjectInv, StatsBalanced
<1>7. k \in ObjectsOf(App) /\ \A h \in Hops : Entry(k, u, h) = Absent
  <2>1. PICK j : j = RollOver(App, iface, pkt)
    OBVIOUS
  <2>2. k \in ObjectsOf(App) /\ \A v \in TypesOf(App), h \in Hops : Entry(k, v, h) = Absent
    BY <2>1, <1>1, <1>2, RollOverLemma
  <2> QED BY <2>2, <1>5, Zenon
<1>8. /\ b \in [Fates -> Nat] /\ AllPrinted(b, c, u)
      /\ Conservation => AllKept(b, c, u)
  <2>1. c = ClearStats(k) /\ b = SweptLedger(l, w, u, pkt.time) /\ k = Sweep(w)
    BY <1>1, <1>4, ZenonT(30)
  <2> QED BY <2>1, <1>3, <1>5, <1>6, <1>7, SweepKeeps
<1>9. c \in ObjectsOf(App) /\ k.req = c.req
  BY <1>1, <1>7, AppAssumption, ClearLemma
<1> QED BY <1>2, <1>4, <1>5, <1>8, <1>9, EnterKeeps

\* Every step keeps the ledger invariant, and keeps Conservation unless the
\* packet's time is 0.
LEMMA NextLedgerInv ==
  IInv /\ LedgerInv /\ [Next]_vars
    => LedgerInv' /\ (0 \notin Times /\ Conservation => Conservation')
<1> SUFFICES ASSUME IInv, LedgerInv, [Next]_vars
             PROVE  LedgerInv' /\ (0 \notin Times /\ Conservation => Conservation')
  OBVIOUS
<1>1. CASE UNCHANGED <<iface, ledger>>
  BY <1>1 DEF LedgerInv, PrintedOnce, Conservation, Pending, Known, Entry
<1>2. ASSUME NEW pkt \in Packets, Count(pkt) \/ Roll(pkt)
      PROVE  LedgerInv' /\ (0 \notin Times /\ Conservation => Conservation')
  <2>1. 0 \notin Times => pkt.time # 0
    BY DEF Packets
  <2>2. ledger' = [ty \in Types |-> ledger'[ty]]
    BY <1>2 DEF Count, Roll
  <2>3. \A u \in Types : /\ ledger'[u] \in [Fates -> Nat]
                         /\ AllPrinted(ledger'[u], iface', u)
    BY <1>2, CountLedger, RollLedger, Zenon
  <2>4. ASSUME 0 \notin Times, Conservation PROVE Conservation'
    <3>1. pkt.time # 0
      BY <2>1, <2>4
    <3>2. \A u \in Types : AllKept(ledger'[u], iface', u)
      BY <3>1, <2>4, <1>2, CountLedger, RollLedger, Zenon
    <3> QED BY <3>2 DEF Conservation, AllKept, Pending, Known, Entry
  <2>5. LedgerInv'
    BY <2>2, <2>3, Zenon DEF LedgerInv, PrintedOnce, AllPrinted
  <2> QED BY <2>4, <2>5
<1> QED BY <1>1, <1>2 DEF Next, Drop, vars

\* The ledger invariant holds in every reachable state.
LEMMA LedgerInvariance == Spec => []LedgerInv
<1>1. Init => LedgerInv
  BY AppAssumption, DispatchLemma
     DEF Init, LedgerInv, PrintedOnce, Types, NewInterface, Object, ZeroStats,
         Counters, Fates
<1> QED BY <1>1, NextLedgerInv, Invariance, PTL DEF Spec

\* Every attempt is printed exactly once: the order print, clear, add of a
\* roll-over loses nothing and repeats nothing.
THEOREM AttemptsPrintedOnce == Spec => []PrintedOnce
<1>1. LedgerInv => PrintedOnce
  BY DEF LedgerInv
<1> QED BY <1>1, LedgerInvariance, PTL

\* No request is lost, as long as no packet carries the time 0, which the
\* table cannot tell from an entry that is not a request.
THEOREM RequestsConserved ==
  ASSUME 0 \notin Times
  PROVE  Spec => []Conservation
<1>1. Init => Conservation
  <2> SUFFICES ASSUME Init, NEW u \in Types
               PROVE  0 = 0 + 0 + 0 + Cardinality(Pending(iface, u))
    BY DEF Conservation, Init, Fates
  <2>1. Pending(iface, u) = {}
    BY AppAssumption, DispatchLemma
       DEF Init, Pending, Known, Entry, NewInterface, Object, Types
  <2> QED BY <2>1, FS_EmptySet
<1>2. IInv /\ LedgerInv /\ Conservation /\ [Next]_vars => Conservation'
  BY NextLedgerInv
<1> QED BY <1>1, <1>2, LedgerInvariance, Invariance, PTL DEF Spec

-----------------------------------------------------------------------------
\* A report made of the counters of an object is well formed.
LEMMA ReportLemma ==
  ASSUME NEW k \in ObjectsOf(App), NEW r, r = Report(k)
  PROVE  \E timed \in SUBSET Types : r \in ReportsOn(timed)
<1>1. PICK s, timed, L :
        /\ s = k.stats
        /\ timed = {ty \in DOMAIN s["latencySize"] : s["latencySize"][ty] > 0}
        /\ L = [ty \in timed |-> s["latency"][ty] \div s["latencySize"][ty]]
  BY ZenonT(30)
<1>2. \A c \in Counters : s[c] \in [Types -> Nat]
  BY <1>1 DEF ObjectsOf, Types
<1>3. /\ s["attempts"] \in [Types -> Nat] /\ s["succCount"] \in [Types -> Nat]
      /\ s["failCount"] \in [Types -> Nat] /\ s["timeoutCount"] \in [Types -> Nat]
      /\ s["latency"] \in [Types -> Nat] /\ s["latencySize"] \in [Types -> Nat]
  BY <1>2, Zenon DEF Counters
<1>4. timed \subseteq Types /\ \A ty \in timed : s["latencySize"][ty] > 0
  BY <1>1, <1>3, Zenon
<1>5. ASSUME NEW x \in Nat, NEW y \in Nat, y > 0 PROVE x \div y \in Nat
  BY <1>5
<1>6. L \in [timed -> Nat]
  BY <1>1, <1>3, <1>4, <1>5, Zenon
<1>7. k.startTime \in Nat
  BY DEF ObjectsOf
<1>8. r = [time |-> k.startTime, Att |-> s["attempts"], Suc |-> s["succCount"],
           Fail |-> s["failCount"], Tout |-> s["timeoutCount"], Laty |-> L]
  BY <1>1, Zenon DEF Report
<1>9. r \in ReportsOn(timed)
  BY <1>3, <1>6, <1>7, <1>8 DEF ReportsOn
<1> QED BY <1>4, <1>9

\* The variables keep their types.
THEOREM TypeCorrect == Spec => []TypeOK
<1> DEFINE Rest == /\ report = NoReport
                      \/ \E timed \in SUBSET Types : report \in ReportsOn(timed)
                   /\ handled \in 0..MaxPackets
<1>1. Init => Rest
  BY PacketsAssumption DEF Init
<1>2. IInv /\ Rest /\ [Next]_vars => Rest'
  <2> SUFFICES ASSUME IInv, Rest, [Next]_vars PROVE Rest'
    OBVIOUS
  <2>1. CASE UNCHANGED vars
    BY <2>1, Zenon DEF vars, ReportsOn
  <2>2. ASSUME NEW pkt \in Packets, Drop(pkt) \/ Count(pkt) PROVE Rest'
    <3>1. handled' \in 0..MaxPackets /\ UNCHANGED report
      BY <2>2, PacketsAssumption DEF Drop, Count, Handle
    <3> QED BY <3>1
  <2>3. ASSUME NEW pkt \in Packets, Roll(pkt) PROVE Rest'
    <3>1. handled' \in 0..MaxPackets
      BY <2>3, PacketsAssumption DEF Roll, Handle
    <3>2. PICK k, j : k = Swept(App, iface, pkt) /\ j = RollOver(App, iface, pkt)
      BY Zenon
    <3>3. k \in ObjectsOf(App)
      BY <3>2, <2>3, AppAssumption, PacketsLemma, RollOverLemma DEF Roll, IInv
    <3>4. report' = Report(k)
      BY <3>2, <2>3 DEF Roll
    <3>5. \E timed \in SUBSET Types : report' \in ReportsOn(timed)
      BY <3>3, <3>4, ReportLemma
    <3> QED BY <3>1, <3>5
  <2> QED BY <2>1, <2>2, <2>3 DEF Next
<1>3. IInv /\ LedgerInv /\ Rest => TypeOK
  BY DEF IInv, ObjectInv, LedgerInv, TypeOK
<1> QED BY <1>1, <1>2, <1>3, Invariance, LedgerInvariance, PTL DEF Spec
=============================================================================
