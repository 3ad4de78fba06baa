----------------------------- MODULE DisplayStats -----------------------------
(***************************************************************************)
(* displayStats: a captured frame is parsed into the one global m_Packet   *)
(* ppkt, which is reused for every frame; then the object of its flow is   *)
(* found or created in tcpDashboard or udpDashboard and gets the packet.   *)
(*                                                                         *)
(* Flows are keyed by ppkt->ip4 whatever the frame is.  An IPv6 frame does *)
(* not write ip4, so it goes to the flow of the last IPv4 frame, or of     *)
(* whatever the new, uninitialised m_Packet held.                          *)
(***************************************************************************)
EXTENDS Integers, FiniteSets, FiniteSetsExt

CONSTANTS Addrs,      \* addresses
          Frames,     \* frames a capture may hold
          MaxFrames,  \* bound: frames in one behaviour
          NULL

TIMEINT == 60

Keys == Addrs \X Addrs

\* l3 is "none" when there is no layer-3 header or nothing behind it, and
\* proto is "none" when there is no transport header.  A TCP frame may be
\* refused by protocolTCP::addPkt (a Diameter message it does not know).
FrameShape ==
  [l3 : {"none", "ip4", "ip6", "other"}, key : Keys,
   proto : {"none", "tcp", "udp", "sctp", "other"}, payload : BOOLEAN,
   refused : BOOLEAN, time : Nat, len : Int]

VARIABLES
  ppkt,             \* NULL or the m_Packet: key (of ip4), ipv, len, pay_load
  curIntStarttime, curIntEndtime,
  dashboard,        \* the flow objects: pkts, data, v4 and v6, or NULL
  totalpkts, totaldatalen,
  frame,            \* number of frames so far
  own,              \* history: the IPv4 frames filed, by proto and addresses
  sixes,            \* history: the number of IPv6 frames filed
  parsed            \* history: the latest TCP frame, and the frame whose
                    \* payload was parsed for it

vars == <<ppkt, curIntStarttime, curIntEndtime, dashboard, totalpkts,
          totaldatalen, frame, own, sixes, parsed>>

Init ==
  /\ ppkt = NULL
  /\ curIntStarttime = 0 /\ curIntEndtime = 0
  /\ dashboard = [p \in {"tcp", "udp"} |-> [k \in Keys |-> NULL]]
  /\ totalpkts = 0 /\ totaldatalen = 0
  /\ frame = 0
  /\ own = [p \in {"tcp", "udp"} |-> [k \in Keys |-> 0]] /\ sixes = 0
  /\ parsed = <<0, 0>>

-----------------------------------------------------------------------------
(***************************************************************************)
(* ParsePkt                                                                *)
(***************************************************************************)
\* The early returns, before ppkt is touched.
HasHeaders(f) == f.l3 \in {"ip4", "ip6"} /\ f.proto # "none"

\* The m_Packet that is filled: the old one, or a new one with any contents.
Reused ==
  IF ppkt # NULL THEN {ppkt}
  ELSE [key : Keys, ipv : {0}, len : {0}, pay_load : {0}]

\* Mutation: a TCP frame without payload is not given up.
PayloadNotNeeded(f) == f.proto = "tcp" \/ (f.proto = "udp" /\ f.payload)

HasPayload(f) == f.proto \in {"tcp", "udp"} /\ f.payload

\* Mutation: the addresses are written only once.
FilledOnce(old, f) ==
  [key |-> IF old.ipv = 0 THEN f.key ELSE old.key,
   ipv |-> IF f.l3 = "ip4" THEN 4 ELSE 6, len |-> 0, pay_load |-> frame + 1]

\* A UDP frame stores an uninitialised pointer; nobody reads it.
Filled(old, f) ==
  [key      |-> IF f.l3 = "ip4" THEN f.key ELSE old.key,
   ipv      |-> IF f.l3 = "ip4" THEN 4 ELSE 6,
   len      |-> IF f.len > 0 THEN f.len ELSE 0,
   pay_load |-> IF ~f.payload THEN old.pay_load
                ELSE IF f.proto = "tcp" THEN frame + 1
                ELSE IF f.proto = "udp" THEN 0 ELSE old.pay_load]

(***************************************************************************)
(* addPkt and getProtoBase                                                 *)
(***************************************************************************)
TooOld(f) == curIntStarttime > f.time

OpenInterval(f) ==
  IF curIntEndtime = 0
    THEN curIntStarttime' = f.time /\ curIntEndtime' = f.time + TIMEINT
    ELSE UNCHANGED <<curIntStarttime, curIntEndtime>>

\* The counters of a flow object.
FlowShape == [pkts : Nat, data : Nat, v4 : Nat, v6 : Nat]

NewFlow == [pkts |-> 0, data |-> 0, v4 |-> 0, v6 |-> 0]

\* Mutation: the object of a known flow is replaced.
getProtoBaseAnew(type, k) == NewFlow

getProtoBase(type, k) ==
  IF dashboard[type][k] = NULL THEN NewFlow ELSE dashboard[type][k]

\* protocolTCP::addPkt and protocolUDP::addPkt begin with the same counters.
Counted(flow, pkt) ==
  [pkts |-> flow.pkts + 1, data |-> flow.data + pkt.len,
   v4 |-> IF pkt.ipv = 4 THEN flow.v4 + 1 ELSE flow.v4,
   v6 |-> IF pkt.ipv = 6 THEN flow.v6 + 1 ELSE flow.v6]

\* Whether addPkt of the flow object returns -1.  protocolUDP returns 0;
\* protocolTCP returns -1 for a message it refuses and otherwise reaches its
\* end without a return statement, so that the result is any int.
ReturnsMinusOne(f) ==
  IF f.proto = "udp" THEN {FALSE} ELSE IF f.refused THEN {TRUE} ELSE BOOLEAN

Totalled(pkt, minusOne) ==
  IF minusOne THEN UNCHANGED <<totalpkts, totaldatalen>>
  ELSE /\ totalpkts' = totalpkts + 1
       /\ totaldatalen' = totaldatalen + pkt.len

-----------------------------------------------------------------------------
Take == frame < MaxFrames /\ frame' = frame + 1

\* A frame ParsePkt returns from at once.
Skip(f) ==
  /\ Take
  /\ ~HasHeaders(f)
  /\ UNCHANGED <<ppkt, curIntStarttime, curIntEndtime, dashboard, totalpkts,
                 totaldatalen, own, sixes, parsed>>

\* A frame ParsePkt gives up after it has filled ppkt, or whose second is
\* before the first frame's.
GiveUp(f) ==
  /\ Take
  /\ HasHeaders(f)
  /\ f.proto # "sctp"
  /\ ~HasPayload(f) \/ TooOld(f)
  /\ \E old \in Reused : ppkt' = Filled(old, f)
  /\ UNCHANGED <<curIntStarttime, curIntEndtime, dashboard, totalpkts,
                 totaldatalen, own, sixes, parsed>>

\* SCTP is passed on, but has no dashboard: getProtoBase returns NULL.
NoDashboard(f) ==
  /\ Take
  /\ HasHeaders(f)
  /\ f.proto = "sctp"
  /\ \E old \in Reused : ppkt' = Filled(old, f)
  /\ IF TooOld(f) THEN UNCHANGED <<curIntStarttime, curIntEndtime>>
     ELSE OpenInterval(f)
  /\ UNCHANGED <<dashboard, totalpkts, totaldatalen, own, sixes, parsed>>

File(f) ==
  /\ Take
  /\ HasHeaders(f) /\ HasPayload(f) /\ ~TooOld(f)
  /\ OpenInterval(f)
  /\ \E old \in Reused, minusOne \in ReturnsMinusOne(f) :
       LET pkt == Filled(old, f) IN
       /\ ppkt' = pkt
       /\ dashboard' = [dashboard EXCEPT ![f.proto][pkt.key] =
                          Counted(getProtoBase(f.proto, pkt.key), pkt)]
       /\ Totalled(pkt, minusOne)
       /\ parsed' = IF f.proto = "tcp" THEN <<frame + 1, pkt.pay_load>>
                                       ELSE parsed
  /\ IF f.l3 = "ip4"
       THEN /\ own' = [own EXCEPT ![f.proto][f.key] = @ + 1]
            /\ UNCHANGED sixes
       ELSE sixes' = sixes + 1 /\ UNCHANGED own

Next == \E f \in Frames : Skip(f) \/ GiveUp(f) \/ NoDashboard(f) \/ File(f)

Spec == Init /\ [][Next]_vars

-----------------------------------------------------------------------------
Flows == {x \in {"tcp", "udp"} \X Keys : dashboard[x[1]][x[2]] # NULL}

FlowOf(x) == dashboard[x[1]][x[2]]

\* What the flows have counted, together.
FlowPkts == MapThenSumSet(LAMBDA x : FlowOf(x).pkts, Flows)
FlowData == MapThenSumSet(LAMBDA x : FlowOf(x).data, Flows)
FlowSixes == MapThenSumSet(LAMBDA x : FlowOf(x).v6, Flows)

\* The types of the variables.
TypeOK ==
  /\ ppkt # NULL =>
       ppkt \in [key : Keys, ipv : {4, 6}, len : Nat, pay_load : Nat]
  /\ curIntStarttime \in Nat /\ curIntEndtime \in Nat
  /\ \A x \in Flows : FlowOf(x) \in FlowShape
  /\ totalpkts \in Nat /\ totaldatalen \in Nat

\* The payload that protocolTCP parses is the payload of the frame at hand,
\* never one that an earlier frame left in the shared m_Packet.
PayloadIsOwn == parsed[1] = parsed[2]

\* What a flow has counted as IPv4 packets are the IPv4 frames of its own pair
\* of addresses, all of them and no others, although its key is read back from
\* the shared m_Packet.  IPv6 frames go to the flow of whatever IPv4 frame was
\* parsed before; each is counted there once, and as IPv6.
FlowsCountOwn ==
  /\ \A type \in {"tcp", "udp"}, k \in Keys :
       own[type][k] = IF dashboard[type][k] = NULL THEN 0
                      ELSE dashboard[type][k].v4
  /\ sixes = FlowSixes

\* The totals never exceed what the flows have counted, whichever value
\* protocolTCP::addPkt happens to return and whatever it refuses, and no flow
\* forgets what it has counted.
TotalsWithinFlows ==
  TypeOK /\ totalpkts <= FlowPkts /\ totaldatalen <= FlowData
=============================================================================
