------------------------------ MODULE KpiInterface ------------------------------
(***************************************************************************)
(* One interface object fed with the Diameter packets of one node pair, in *)
(* capture order.  Packet times need not increase: a capture may reorder   *)
(* packets, and the files of one instance are read in directory order.     *)
(***************************************************************************)
EXTENDS DiameterInterfaces

CONSTANTS App,          \* which of the three classes the object is
          Times,        \* packet times, in milliseconds
          Ccs,          \* command codes
          ReqTypes,     \* CC-Request-Type values (any unsigned int)
          ResCodes,     \* Result-Code values
          MaxPackets    \* bound: packets handled in one behaviour

ASSUME AppAssumption     == App \in Apps
ASSUME TimesAssumption   == Times \subseteq Nat
ASSUME CodesAssumption   == Ccs \subseteq Nat /\ ReqTypes \subseteq Nat
                                              /\ ResCodes \subseteq Int
ASSUME PacketsAssumption == MaxPackets \in Nat

VARIABLES
  iface,    \* the GxInterface, GyInterface or S6BInterface object
  report,   \* what its latest printStats wrote, or NoReport
  handled,  \* number of packets handled
  ledger    \* history: what became of the requests, per type

vars == <<iface, report, handled, ledger>>

Types == TypesOf(App)

Packets == [cc : Ccs, reqType : ReqTypes, request : {0, 1}, hop : Hops,
            resCode : ResCodes, time : Times]

NoReport == [time |-> -1]

-----------------------------------------------------------------------------
(***************************************************************************)
(* The history.  A request is stored, and then is overwritten by another   *)
(* with the same hop id, answered, swept by printStats, or still pending.  *)
(***************************************************************************)
Fates == {"asked", "overwritten", "answered", "swept", "early",
          "attempts", "printed"}

Pending(i, ty) == {h \in Hops : Known(i, ty, h)}

\* What adding pkt to object i means for the requests of type ty.
Asked(ty, pkt) == IF TypeIn(App, pkt) = ty /\ pkt.request = 1 THEN 1 ELSE 0

Overwritten(i, ty, pkt) == IF Known(i, ty, pkt.hop) THEN Asked(ty, pkt) ELSE 0

Attempted(i, ty, pkt) ==
  IF TypeIn(App, pkt) = ty /\ pkt.request = 0 /\ Known(i, ty, pkt.hop)
    THEN 1 ELSE 0

Answered(i, ty, pkt) ==
  IF InRange(pkt.time - Entry(i, ty, pkt.hop)) THEN Attempted(i, ty, pkt) ELSE 0

\* The type-ty part of the ledger after pkt is added to object i.
Entered(l, i, ty, pkt) ==
  [l EXCEPT !["asked"]       = @ + Asked(ty, pkt),
            !["overwritten"] = @ + Overwritten(i, ty, pkt),
            !["answered"]    = @ + Answered(i, ty, pkt),
            !["attempts"]    = @ + Attempted(i, ty, pkt)]

\* The same when a packet of time now makes object i, whose window has
\* moved, sweep its table; "early" are requests younger than the time-out.
SweptLedger(l, i, ty, now) ==
  LET timedOut == Expired(i, ty) \cap Pending(i, ty)
      young    == {h \in timedOut :
                     now - Entry(i, ty, h) < DIAMETER_TIMEOUT * Ms}
  IN  [l EXCEPT
         !["swept"]    = @ + Cardinality(timedOut),
         !["early"]    = @ + Cardinality(young),
         !["attempts"] = @ + Cardinality(Expired(i, ty)),
         !["printed"]  = @ + Sweep(i).stats["attempts"][ty]]

-----------------------------------------------------------------------------
Init ==
  /\ iface   = NewObject(App)
  /\ report  = NoReport
  /\ handled = 0
  /\ ledger  = [ty \in Types |-> [f \in Fates |-> 0]]

Handle ==
  /\ handled < MaxPackets
  /\ handled' = handled + 1

\* case 0: the packet is older than the window and is dropped.
Drop(pkt) ==
  /\ checkTime(iface, Second(pkt.time)) = 0
  /\ Handle
  /\ UNCHANGED <<iface, report, ledger>>

\* case 1
Count(pkt) ==
  /\ checkTime(iface, Second(pkt.time)) = 1
  /\ Handle
  /\ iface' = InWindow(App, iface, pkt)
  /\ ledger' = [ty \in Types |-> Entered(ledger[ty], iface, ty, pkt)]
  /\ UNCHANGED report

\* case 2
Roll(pkt) ==
  /\ checkTime(iface, Second(pkt.time)) = 2
  /\ Handle
  /\ report' = Report(Swept(App, iface, pkt))
  /\ iface' = RollOver(App, iface, pkt)
  /\ LET w == Window(iface, Second(pkt.time)) IN
       ledger' = [ty \in Types |->
                    Entered(SweptLedger(ledger[ty], w, ty, pkt.time),
                            Swept(App, iface, pkt), ty, pkt)]

Next == \E pkt \in Packets : Drop(pkt) \/ Count(pkt) \/ Roll(pkt)

Spec == Init /\ [][Next]_vars

-----------------------------------------------------------------------------
ReportsOn(timed) ==
  [time : Nat, Att : [Types -> Nat], Suc : [Types -> Nat],
   Fail : [Types -> Nat], Tout : [Types -> Nat], Laty : [timed -> Nat]]

\* The types of the variables.
TypeOK ==
  /\ iface \in ObjectsOf(App)
  /\ report = NoReport \/ \E timed \in SUBSET Types : report \in ReportsOn(timed)
  /\ handled \in 0..MaxPackets
  /\ ledger \in [Types -> [Fates -> Nat]]

\* Every attempt has exactly one outcome, in the running counters and in
\* every printed report: addPkt and the sweep in printStats raise attempts
\* together with one of succCount, failCount and timeoutCount, and a latency
\* is sampled for exactly the answered attempts.
Balanced ==
  /\ StatsBalanced(App, iface)
  /\ report # NoReport => \A ty \in Types :
       report.Att[ty] = report.Suc[ty] + report.Fail[ty] + report.Tout[ty]

\* Whatever order packet times come in, checkTime keeps a window of WindowLen
\* seconds aligned to WindowLen, and before the first packet nothing waits.
WindowShape == WindowAligned(App, iface)

\* A request that waits was received in the current window (one window
\* earlier when the object's first window started at time 0): the sweep in
\* printStats leaves nothing behind that belongs to an older window.
PendingIsCurrent == PendingInWindow(App, iface)

\* The upper limit MaxRTT of addPkt never decides anything: whenever a packet
\* is counted in the current window, no waiting request is that old.  The
\* branch is only ever taken for answers captured before their request.
CutoffUnreachable ==
  \A ty \in Types, h \in Hops, t \in Times :
    Known(iface, ty, h) /\ checkTime(iface, Second(t)) = 1
      => t - Entry(iface, ty, h) <= MaxRTT * Ms

\* No request is lost: each one stored by addPkt has been overwritten by one
\* with the same hop id, answered, swept, or still waits, and only one of
\* these.
Conservation ==
  \A ty \in Types : LET l == ledger[ty] IN
    l["asked"] = l["overwritten"] + l["answered"] + l["swept"]
                   + Cardinality(Pending(iface, ty))

\* Every attempt is printed exactly once: printStats and clearStats at a
\* roll-over neither drop what was counted nor report it twice.
PrintedOnce ==
  \A ty \in Types :
    ledger[ty]["attempts"] = ledger[ty]["printed"]
                               + iface.stats["attempts"][ty]

\* A roll-over settles every request: after printStats the table holds at
\* most the entry of the packet that caused it.
RollOverSettles ==
  [][report' # report =>
       \A t1, t2 \in Types, h1, h2 \in Hops :
         Entry(iface', t1, h1) # Absent /\ Entry(iface', t2, h2) # Absent
           => t1 = t2 /\ h1 = h2]_vars

\* Windows never overlap: checkTime only moves to a window that starts at or
\* after the end of the one before.
WindowsDisjoint ==
  [][iface'.startTime # iface.startTime
       => iface'.startTime >= iface.endTime]_vars

-----------------------------------------------------------------------------
(***************************************************************************)
(* What comments of the code say and the code does not do.                 *)
(***************************************************************************)
\* "Increment attempts if a req is found for res" and "Calculate Time out
\* requests": no more attempts than there were requests.
AttemptsAreRequests ==
  \A ty \in Types : ledger[ty]["attempts"] <= ledger[ty]["asked"]

\* "#define DIAMETER_TIMEOUT 5": a request is timed out only once it is five
\* seconds old.
NoEarlyTimeout ==
  \A ty \in Types : ledger[ty]["early"] = 0
=============================================================================
