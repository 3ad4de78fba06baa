------------------------------- MODULE Interface -------------------------------
(***************************************************************************)
(* One KPI interface object: what the classes GxInterface, GyInterface and *)
(* S6BInterface have in common.  An object keeps a reporting window, a     *)
(* table of requests that wait for their answer, and the counters of the   *)
(* current window.  Its operations are written here as functions of the    *)
(* object, so that one object (KpiInterface) and the maps of objects that  *)
(* protocolTCP keeps (TcpProto) share them.                                *)
(*                                                                         *)
(* Packet times are doubles in the code; here they are milliseconds, and   *)
(* Second is the truncation done when checkTime takes an unsigned int.     *)
(***************************************************************************)
EXTENDS Integers, FiniteSets

CONSTANT Hops           \* hop-by-hop identifiers a packet may carry

ASSUME HopsFinite == IsFiniteSet(Hops)

WindowLen        == 10  \* seconds; the literal 10 in checkTime
DIAMETER_TIMEOUT == 5   \* seconds
MaxRTT           == 40  \* seconds; the literal 40 in addPkt
Ms               == 1000
Second(t)        == t \div Ms

Absent == -1            \* no entry in the unordered_map (an entry may be 0)
NoType == -1            \* the packet is of no type the object counts

Counters == {"attempts", "succCount", "failCount", "timeoutCount",
             "unKnwRes", "latencySize", "latency"}

\* memset(&stats, 0, sizeof(stats)): counters are indexed [counter][type].
ZeroStats(Types) == [c \in Counters |-> [ty \in Types |-> 0]]

\* The members of an object that outlive a call.
Object(start, end, req, stats) ==
  [startTime |-> start, endTime |-> end, req |-> req, stats |-> stats]

NewInterface(Types) ==
  Object(0, 0, [ty \in Types |-> [h \in Hops |-> Absent]], ZeroStats(Types))

-----------------------------------------------------------------------------
(***************************************************************************)
(* checkTime: is the packet too old (0), in the window (1), or past it (2),*)
(* and the window after the call.                                          *)
(***************************************************************************)
Aligned(newTime) == newTime - (newTime % WindowLen)

\* Mutation: a packet older than the window reopens an old one.
checkTimeReopens(i, newTime) ==
  IF newTime \in i.startTime..i.endTime THEN 1 ELSE 2

checkTime(i, newTime) ==
  IF newTime < i.startTime THEN 0
  ELSE IF newTime > i.endTime THEN 2 ELSE 1

OpenAt(i, s) == Object(s, s + WindowLen, i.req, i.stats)

Window(i, newTime) ==
  IF checkTime(i, newTime) = 2 THEN OpenAt(i, Aligned(newTime))
  ELSE IF newTime = i.endTime /\ i.startTime = 0 THEN OpenAt(i, newTime)
  ELSE i

-----------------------------------------------------------------------------
(***************************************************************************)
(* addPkt once the message type ty is known.                               *)
(***************************************************************************)
Bump(s, ty, cs) ==
  [c \in Counters |-> IF c \in cs THEN [s[c] EXCEPT ![ty] = @ + 1] ELSE s[c]]

Entry(i, ty, hop) == i.req[ty][hop]

\* req[ty][hop] = t, or erase when t is Absent; and the counters become s.
Update(i, ty, hop, t, s) ==
  Object(i.startTime, i.endTime,
         [i.req EXCEPT ![ty] = [@ EXCEPT ![hop] = t]], s)

HandleRequest(i, ty, pkt) ==
  Update(i, ty, pkt.hop, pkt.time, i.stats)

\* TS = req[type][hop] default-inserts 0 when the key is absent.
UnknownResponse(i, ty, pkt) ==
  Update(i, ty, pkt.hop, 0, Bump(i.stats, ty, {"unKnwRes"}))

\* Mutation: attempts is not raised.
LateResponseNoAttempt(i, ty, pkt) ==
  Update(i, ty, pkt.hop, Entry(i, ty, pkt.hop),
         Bump(i.stats, ty, {"timeoutCount"}))

\* RTT out of range: the entry is not erased.
LateResponse(i, ty, pkt) ==
  Update(i, ty, pkt.hop, Entry(i, ty, pkt.hop),
         Bump(i.stats, ty, {"attempts", "timeoutCount"}))

IsSuccess(resCode) == resCode < 3000 \/ resCode = 70001

\* Mutation: the entry is not erased.
AnsweredNotErased(i, ty, pkt) ==
  LET outcome == IF IsSuccess(pkt.resCode) THEN "succCount" ELSE "failCount"
  IN  Update(i, ty, pkt.hop, Entry(i, ty, pkt.hop),
             Bump(i.stats, ty, {"attempts", "latencySize", outcome}))

AnsweredRequest(i, ty, pkt) ==
  LET RTT     == pkt.time - Entry(i, ty, pkt.hop)
      outcome == IF IsSuccess(pkt.resCode) THEN "succCount" ELSE "failCount"
      counted == Bump(i.stats, ty, {"attempts", "latencySize", outcome})
      sampled == [counted["latency"] EXCEPT ![ty] = @ + RTT]
  IN  Update(i, ty, pkt.hop, Absent, [counted EXCEPT !["latency"] = sampled])

InRange(RTT) == ~(RTT < 0 \/ RTT > MaxRTT * Ms)

Known(i, ty, hop) == Entry(i, ty, hop) \notin {Absent, 0}

HandleResponse(i, ty, pkt) ==
  IF ~Known(i, ty, pkt.hop) THEN UnknownResponse(i, ty, pkt)
  ELSE IF ~InRange(pkt.time - Entry(i, ty, pkt.hop))
         THEN LateResponse(i, ty, pkt)
         ELSE AnsweredRequest(i, ty, pkt)

Account(i, ty, pkt) ==
  IF ty = NoType THEN i
  ELSE IF pkt.request = 1 THEN HandleRequest(i, ty, pkt)
                          ELSE HandleResponse(i, ty, pkt)

-----------------------------------------------------------------------------
(***************************************************************************)
(* printStats: sweep the requests that timed out, then print one line per  *)
(* type and KPI.  It runs after checkTime has already moved the window, so *)
(* the expiry test and the printed time use the new window.                *)
(***************************************************************************)
\* Mutation: the expiry test uses the start of the window.
ExpiredAtStart(i, ty) ==
  {h \in Hops : /\ Entry(i, ty, h) # Absent
                /\ Entry(i, ty, h) + DIAMETER_TIMEOUT * Ms < i.startTime * Ms}

Expired(i, ty) ==
  {h \in Hops : /\ Entry(i, ty, h) # Absent
                /\ Entry(i, ty, h) + DIAMETER_TIMEOUT * Ms < i.endTime * Ms}

\* The counters with every expired entry counted as a timed-out attempt.
SweptStats(i) ==
  [c \in Counters |->
     IF c \in {"attempts", "timeoutCount"}
       THEN [ty \in DOMAIN i.req |->
               i.stats[c][ty] + Cardinality(Expired(i, ty))]
       ELSE i.stats[c]]

\* Mutation: timed-out entries stay in the table.
SweepNoErase(i) == Object(i.startTime, i.endTime, i.req, SweptStats(i))

Sweep(i) ==
  Object(i.startTime, i.endTime,
         [ty \in DOMAIN i.req |-> [h \in Hops |->
            IF h \in Expired(i, ty) THEN Absent ELSE Entry(i, ty, h)]],
         SweptStats(i))

\* What the lines Kp=Att, Suc, Fail, Tout and Laty show, per type.
Report(i) ==
  LET s     == i.stats
      timed == {ty \in DOMAIN s["latencySize"] : s["latencySize"][ty] > 0}
  IN  [time |-> i.startTime,
       Att  |-> s["attempts"],  Suc  |-> s["succCount"],
       Fail |-> s["failCount"], Tout |-> s["timeoutCount"],
       Laty |-> [ty \in timed |-> s["latency"][ty] \div s["latencySize"][ty]]]

\* Mutation: the counters are kept.
ClearStatsKept(i) == i

ClearStats(i) ==
  Object(i.startTime, i.endTime, i.req, ZeroStats(DOMAIN i.req))
=============================================================================
