-------------------------- MODULE DiameterInterfaces --------------------------
(***************************************************************************)
(* The virtual calls protocolTCP::addPkt makes on an Interface pointer:    *)
(* dispatch on the application the object was created for, and what one    *)
(* Diameter packet does to the object.                                     *)
(***************************************************************************)
EXTENDS GyInterface, S6bInterface

Apps == {"Gx", "Gy", "S6b"}

TypesOf(app) ==
  CASE app = "Gx" -> GxTypes [] app = "Gy" -> GyTypes [] OTHER -> S6bTypes

TypeIn(app, pkt) ==
  CASE app = "Gx" -> GxType(pkt)
    [] app = "Gy" -> GyType(pkt)
    [] OTHER      -> S6bType(pkt)

NewObject(app) ==
  CASE app = "Gx" -> NewGxInterface
    [] app = "Gy" -> NewGyInterface
    [] OTHER      -> NewS6bInterface

AddPkt(app, i, pkt) ==
  CASE app = "Gx" -> GxAddPkt(i, pkt)
    [] app = "Gy" -> GyAddPkt(i, pkt)
    [] OTHER      -> S6bAddPkt(i, pkt)

PrintStats(app, i) ==
  CASE app = "Gx" -> GxPrintStats(i)
    [] app = "Gy" -> GyPrintStats(i)
    [] OTHER      -> S6bPrintStats(i)

ClearStatsOf(app, i) ==
  CASE app = "Gx" -> GxClearStats(i)
    [] app = "Gy" -> GyClearStats(i)
    [] OTHER      -> S6bClearStats(i)

\* case 1 of the switch on checkTime: the packet falls into the window.
InWindow(app, i, pkt) ==
  AddPkt(app, Window(i, Second(pkt.time)), pkt)

\* case 2: what is printed, and the object after print, clear and add.
Swept(app, i, pkt) == PrintStats(app, Window(i, Second(pkt.time)))

RollOver(app, i, pkt) ==
  AddPkt(app, ClearStatsOf(app, Swept(app, i, pkt)), pkt)

-----------------------------------------------------------------------------
(***************************************************************************)
(* What is true of an object between packets, whatever packets it has got. *)
(***************************************************************************)
PacketShape ==
  [cc : Nat, reqType : Nat, request : {0, 1}, hop : Hops,
   resCode : Int, time : Nat]

ObjectsOf(app) ==
  [startTime : Nat, endTime : Nat,
   req       : [TypesOf(app) -> [Hops -> Nat \cup {Absent}]],
   stats     : [Counters -> [TypesOf(app) -> Nat]]]

StatsBalanced(app, i) ==
  \A ty \in TypesOf(app) :
    /\ i.stats["attempts"][ty] = i.stats["succCount"][ty]
                                   + i.stats["failCount"][ty]
                                   + i.stats["timeoutCount"][ty]
    /\ i.stats["latencySize"][ty] = i.stats["succCount"][ty]
                                      + i.stats["failCount"][ty]

WindowAligned(app, i) ==
  /\ i.startTime % WindowLen = 0
  /\ \/ i.endTime = i.startTime + WindowLen
     \/ i = NewObject(app)

PendingInWindow(app, i) ==
  \A ty \in TypesOf(app), h \in Hops : Known(i, ty, h) =>
    /\ Entry(i, ty, h) >= (i.startTime - WindowLen) * Ms
    /\ Second(Entry(i, ty, h)) <= i.endTime

ObjectInv(app, i) ==
  /\ i \in ObjectsOf(app)
  /\ StatsBalanced(app, i)
  /\ WindowAligned(app, i)
  /\ PendingInWindow(app, i)
=============================================================================
