------------------------------- MODULE TcpProto -------------------------------
(***************************************************************************)
(* protocolTCP: the TCP packets of all flows.  Packets from or to port     *)
(* 3868 are Diameter messages; each is given to the interface object of    *)
(* its application and node pair, which is created on first use.  The maps *)
(* of objects and the hop counters are global to the process.              *)
(***************************************************************************)
EXTENDS DiameterInterfaces, Sequences

CONSTANTS Hosts,      \* addresses
          MaxHop,     \* the literal 100 of getInterface
          Frames,     \* TCP packets that may arrive
          MaxFrames,  \* bound: packets in one behaviour
          NULL        \* a null pointer

Nodes == Hosts \X Hosts

\* A TCP packet: the flow whose protocolTCP object displayStats found for it
\* (DisplayStats says which that is), whether it is on the Diameter port,
\* whether the constructor of Diameter accepts it, and the fields of the
\* Diameter message.  wireHop is the hop-by-hop identifier in the message.
FrameShape ==
  [flow : Nodes, src : Hosts, dst : Hosts, ipv : {4, 6}, diameter : BOOLEAN,
   valid : BOOLEAN, down : BOOLEAN, len : Nat, app : Apps, cc : Nat,
   reqType : Nat, request : {0, 1}, wireHop : Nat, resCode : Int, time : Nat]

ASSUME HopAssumption    == MaxHop \in Nat \ {0} /\ Hops = 1..MaxHop
ASSUME FramesAssumption == Frames \subseteq FrameShape /\ MaxFrames \in Nat

VARIABLES
  maps,      \* GxMap, GyMap and S6bMap: objects by application and node
  reqHopid,  \* the static counters of getInterface, per application
  resHopid,
  totals,    \* the counters of the protocolTCP object of each flow
  printed,   \* the latest report of each object
  frames,    \* number of packets so far
  given,     \* history: the hop ids that the last MaxHop requests (1) and the
             \* last MaxHop answers (0) of each application got
  asked,     \* history: the request in each table entry: its wire hop id and
             \* its sender and receiver
  paired     \* history: what was counted as answered: sender and receiver of
             \* the request and of the answer, and whether it is its own

vars == <<maps, reqHopid, resHopid, totals, printed, frames, given, asked,
          paired>>

-----------------------------------------------------------------------------
(***************************************************************************)
(* The counters of a flow.                                                 *)
(***************************************************************************)
NoTotals ==
  [pkts |-> 0, data |-> 0, ipv4 |-> 0, ip6 |-> 0, up |-> 0, down |-> 0]

Totalled(t, f) ==
  [pkts |-> t.pkts + 1,
   data |-> t.data + f.len,
   ipv4 |-> IF f.ipv = 4 THEN t.ipv4 + 1 ELSE t.ipv4,
   ip6  |-> IF f.ipv = 6 THEN t.ip6 + 1 ELSE t.ip6,
   up   |-> IF f.down THEN t.up ELSE t.up + f.len,
   down |-> IF f.down THEN t.down + f.len ELSE t.down]

(***************************************************************************)
(* The node pair is named from the requesting to the answering host.       *)
(***************************************************************************)
\* Mutation: the pair is named from the sender.
NodeUnturned(f) == <<f.src, f.dst>>

Node(f) == IF f.request = 1 THEN <<f.src, f.dst>> ELSE <<f.dst, f.src>>

(***************************************************************************)
(* getInterface: find or create the object, and replace the hop id of the  *)
(* message: requests count up from 1, answers count down from MaxHop.      *)
(***************************************************************************)
Found(f) ==
  IF maps[f.app][Node(f)] = NULL THEN NewObject(f.app) ELSE maps[f.app][Node(f)]

\* Mutation: the request counter is reset one too early.
ReqEarly(app) == IF reqHopid[app] = MaxHop - 1 THEN 0 ELSE reqHopid[app]

ReqBase(app) == IF reqHopid[app] = MaxHop THEN 0 ELSE reqHopid[app]

ResBase(app) == IF resHopid[app] = 0 THEN MaxHop ELSE resHopid[app]

HopIdentifier(f) ==
  IF f.request = 1 THEN ReqBase(f.app) + 1 ELSE ResBase(f.app)

AdvanceHopids(f) ==
  /\ reqHopid' = [reqHopid EXCEPT ![f.app] = ReqBase(f.app) + f.request]
  /\ resHopid' = [resHopid EXCEPT ![f.app] = ResBase(f.app) - (1 - f.request)]

Message(f) ==
  [cc |-> f.cc, reqType |-> f.reqType, request |-> f.request,
   hop |-> HopIdentifier(f), resCode |-> f.resCode, time |-> f.time]

-----------------------------------------------------------------------------
Init ==
  /\ maps     = [app \in Apps |-> [n \in Nodes |-> NULL]]
  /\ reqHopid = [app \in Apps |-> 0]
  /\ resHopid = [app \in Apps |-> MaxHop]
  /\ totals   = [flow \in Nodes |-> NoTotals]
  /\ printed  = [app \in Apps |-> [n \in Nodes |-> NULL]]
  /\ frames   = 0
  /\ given    = [app \in Apps |-> [r \in {0, 1} |-> <<>>]]
  /\ asked    = [app \in Apps |-> [n \in Nodes |->
                   [ty \in TypesOf(app) |-> [h \in Hops |-> NULL]]]]
  /\ paired   = {}

Total(f) ==
  /\ frames < MaxFrames
  /\ frames' = frames + 1
  /\ totals' = [totals EXCEPT ![f.flow] = Totalled(@, f)]

\* Not for port 3868, or not a Diameter message the analyser knows.
Pass(f) ==
  /\ ~f.diameter \/ ~f.valid
  /\ Total(f)
  /\ UNCHANGED <<maps, reqHopid, resHopid, printed, given, asked, paired>>

\* The last MaxHop of the hop ids s, after one more.
LastHops(s, hop) ==
  LET t == Append(s, hop) IN IF Len(t) > MaxHop THEN Tail(t) ELSE t

\* A Diameter message finds the object i and leaves the object j there.
Deliver(f, j) ==
  /\ Total(f)
  /\ AdvanceHopids(f)
  /\ maps' = [maps EXCEPT ![f.app] = [@ EXCEPT ![Node(f)] = j]]
  /\ given' = [given EXCEPT ![f.app][f.request] = LastHops(@, HopIdentifier(f))]

\* The history of one message, added to object i.  An answer that is counted
\* has its own request, or another although its own waits in the table.
Remember(f, i) ==
  LET ty  == TypeIn(f.app, Message(f))
      hop == HopIdentifier(f)
      req == asked[f.app][Node(f)]
      own == \/ req[ty][hop].wire = f.wireHop
             \/ \A h \in Hops : Known(i, ty, h) => req[ty][h].wire # f.wireHop
  IN  /\ asked' = IF ty # NoType /\ f.request = 1
                    THEN [asked EXCEPT ![f.app][Node(f)][ty][hop] =
                            [wire |-> f.wireHop, hosts |-> <<f.src, f.dst>>]]
                    ELSE asked
      /\ paired' = IF /\ ty # NoType /\ f.request = 0
                      /\ Known(i, ty, hop) /\ InRange(f.time - Entry(i, ty, hop))
                     THEN paired \cup {[req |-> req[ty][hop].hosts,
                                        ans |-> <<f.src, f.dst>>, own |-> own]}
                     ELSE paired

Ignore(f) ==
  /\ f.diameter /\ f.valid
  /\ checkTime(Found(f), Second(f.time)) = 0
  /\ Deliver(f, Found(f))
  /\ UNCHANGED <<printed, asked, paired>>

Count(f) ==
  /\ f.diameter /\ f.valid
  /\ checkTime(Found(f), Second(f.time)) = 1
  /\ Deliver(f, InWindow(f.app, Found(f), Message(f)))
  /\ Remember(f, Found(f))
  /\ UNCHANGED printed

Roll(f) ==
  /\ f.diameter /\ f.valid
  /\ checkTime(Found(f), Second(f.time)) = 2
  /\ Deliver(f, RollOver(f.app, Found(f), Message(f)))
  /\ printed' = [printed EXCEPT ![f.app] = [@ EXCEPT ![Node(f)] =
                   Report(Swept(f.app, Found(f), Message(f)))]]
  /\ Remember(f, Swept(f.app, Found(f), Message(f)))

Next == \E f \in Frames : Pass(f) \/ Ignore(f) \/ Count(f) \/ Roll(f)

Spec == Init /\ [][Next]_vars

-----------------------------------------------------------------------------
AnyObject == ObjectsOf("Gx") \cup ObjectsOf("Gy") \cup ObjectsOf("S6b")

\* No object is the null pointer.
ASSUME NullAssumption == NULL \notin AnyObject

\* The types of the variables, except the reports and the histories: hop ids
\* stay in 1..MaxHop across both resets.
TypeOK ==
  /\ maps \in [Apps -> [Nodes -> AnyObject \cup {NULL}]]
  /\ reqHopid \in [Apps -> 0..MaxHop]
  /\ resHopid \in [Apps -> 0..MaxHop]
  /\ totals \in [Nodes -> [pkts : Nat, data : Nat, ipv4 : Nat, ip6 : Nat,
                          up : Nat, down : Nat]]
  /\ frames \in 0..MaxFrames

\* However the messages of different applications and node pairs interleave,
\* each object on its own satisfies what KpiInterface shows of one object.
ObjectsSound ==
  \A app \in Apps, n \in Nodes :
    maps[app][n] # NULL => ObjectInv(app, maps[app][n])

\* The hop counters wrap, up and down, without giving an id twice: the last
\* MaxHop requests of an application have different ids, so a request that
\* waits is overwritten by the MaxHop-th after it at the earliest, and so have
\* the last MaxHop answers.
HopIdsDiffer ==
  /\ TypeOK
  /\ \A app \in Apps, r \in {0, 1} : \A j, k \in 1..Len(given[app][r]) :
       given[app][r][j] = given[app][r][k] => j = k

\* Both hosts of a pair may ask each other, with equal hop ids: an answer is
\* counted only for a request that went to its sender and came from the host
\* that it is sent to, whatever was stored and swept in between.
AnsweredByPeer == \A p \in paired : p.ans = <<p.req[2], p.req[1]>>

\* The reports of one object carry later and later times, so no two lines
\* for the same node pair can be taken for the same window.
ReportsAdvance ==
  [][\A app \in Apps, n \in Nodes :
       printed[app][n] # NULL /\ printed'[app][n] # printed[app][n]
         => printed'[app][n].time > printed[app][n].time]_vars

\* "Increment attempts if a req is found for res": the request that is found
\* for an answer is its own, when that one waits.
FoundForRes == \A p \in paired : p.own
=============================================================================
