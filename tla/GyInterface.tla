------------------------------ MODULE GyInterface ------------------------------
(***************************************************************************)
(* The Gy interface (online charging): as Gx, with the fourth request type *)
(* EVENT.                                                                  *)
(***************************************************************************)
EXTENDS GxInterface

EVENT == 4

GyTypes == {INITIAL, UPDATE, TERMINATE, EVENT}

NewGyInterface == NewInterface(GyTypes)

GyType(pkt) ==
  IF pkt.cc = CCRorA /\ pkt.reqType \in GyTypes THEN pkt.reqType ELSE NoType

GyAddPkt(i, pkt) == Account(i, GyType(pkt), pkt)

GyPrintStats(i) == Sweep(i)

GyClearStats(i) == ClearStats(i)
=============================================================================
