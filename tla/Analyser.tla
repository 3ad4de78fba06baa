------------------------------- MODULE Analyser -------------------------------
(***************************************************************************)
(* A captured frame on its way through the analyser: displayStats parses   *)
(* it into the one m_Packet, finds the object of its flow and hands it the *)
(* packet; a TCP object goes on with the Diameter message in it.  What     *)
(* protocolTCP learns of the frame it reads from that m_Packet.            *)
(***************************************************************************)
EXTENDS TcpProto

CONSTANT Captures  \* captured frames: l3, proto, payload and len as in
                   \* DisplayStats, msg as a frame of TcpProto

VARIABLES ppkt, curIntStarttime, curIntEndtime, dashboard, totalpkts,
          totaldatalen, frame, own, sixes, parsed

\* What libtrace and displayStats see of a captured frame.
Seen(c) ==
  [l3 |-> c.l3, key |-> <<c.msg.src, c.msg.dst>>, proto |-> c.proto,
   payload |-> c.payload, refused |-> c.msg.diameter /\ ~c.msg.valid,
   time |-> Second(c.msg.time), len |-> c.len]

D == INSTANCE DisplayStats
       WITH Addrs <- Hosts, Frames <- {Seen(c) : c \in Captures}

\* A captured message with what protocolTCP reads from the m_Packet.
AsRead(c, key, len, ipv) ==
  [c.msg EXCEPT !.flow = key, !.len = len, !.ipv = ipv]

\* The frames of TcpProto that a capture may become.
MayBecome(c) ==
  {AsRead(c, key, IF c.len > 0 THEN c.len ELSE 0, ipv) :
     key \in Nodes, ipv \in {4, 6}}

ASSUME CapturesAssumption ==
  \A c \in Captures : /\ Seen(c) \in D!FrameShape /\ c.msg \in FrameShape
                      /\ MayBecome(c) \subseteq Frames

ASSUME FlowsAssumption == NULL \notin D!FlowShape

displayVars == <<ppkt, curIntStarttime, curIntEndtime, dashboard, totalpkts,
                 totaldatalen, frame, own, sixes, parsed>>

\* What protocolTCP reads: the flow it is called for, the length and the IP
\* version are those of the m_Packet that ParsePkt has just filled.
Handed(c) == AsRead(c, ppkt'.key, ppkt'.len, ppkt'.ipv)

-----------------------------------------------------------------------------
AnalyserInit == Init /\ D!Init

GivenUp(c) ==
  /\ D!Skip(Seen(c)) \/ D!GiveUp(Seen(c)) \/ D!NoDashboard(Seen(c))
  /\ UNCHANGED vars

ToUdp(c) ==
  /\ c.proto = "udp"
  /\ D!File(Seen(c))
  /\ UNCHANGED vars

\* Mutation: protocolTCP gets frames that displayStats has dropped.
ToTcpDropped(c) ==
  /\ c.proto = "tcp"
  /\ D!File(Seen(c)) \/ D!GiveUp(Seen(c))
  /\ \E f \in {Handed(c)} : Pass(f) \/ Ignore(f) \/ Count(f) \/ Roll(f)

ToTcp(c) ==
  /\ c.proto = "tcp"
  /\ D!File(Seen(c))
  /\ \E f \in {Handed(c)} : Pass(f) \/ Ignore(f) \/ Count(f) \/ Roll(f)

AnalyserNext == \E c \in Captures : GivenUp(c) \/ ToUdp(c) \/ ToTcp(c)

AnalyserSpec == AnalyserInit /\ [][AnalyserNext]_<<vars, displayVars>>

-----------------------------------------------------------------------------
\* The payload that protocolTCP parses is the payload of the frame at hand,
\* never one that an earlier frame left in the shared m_Packet.
PayloadIsOwn == D!PayloadIsOwn

\* What a flow has counted as IPv4 packets are the IPv4 frames of its own pair
\* of addresses, although its key is read back from the shared m_Packet; IPv6
\* frames, which are filed under stale addresses, are each counted once.
FlowsCountOwn == D!FlowsCountOwn

\* displayStats' totals never exceed what the flows have counted, whichever
\* value protocolTCP::addPkt happens to return and whatever it refuses.
TotalsWithinFlows == D!TotalsWithinFlows

\* The first frame that is filed bounds what comes after it: no window of
\* any interface object begins before the window of that frame, and no
\* report is of an earlier time, however late frames arrive.
FirstFrameBounds ==
  \A app \in Apps, n \in Nodes :
    /\ maps[app][n] # NULL /\ maps[app][n].startTime # 0 =>
         maps[app][n].startTime >= Aligned(curIntStarttime)
    /\ printed[app][n] # NULL =>
         printed[app][n].time >= Aligned(curIntStarttime)
=============================================================================
