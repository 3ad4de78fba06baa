------------------------------ MODULE GxInterface ------------------------------
(***************************************************************************)
(* The Gx interface (policy control): credit-control requests and answers, *)
(* counted per CC-Request-Type.  Only what differs from Interface is here. *)
(***************************************************************************)
EXTENDS Interface

CCRorA == 272

INITIAL   == 1
UPDATE    == 2
TERMINATE == 3

GxTypes == {INITIAL, UPDATE, TERMINATE}

NewGxInterface == NewInterface(GxTypes)

GxType(pkt) ==
  IF pkt.cc = CCRorA /\ pkt.reqType \in GxTypes THEN pkt.reqType ELSE NoType

GxAddPkt(i, pkt) == Account(i, GxType(pkt), pkt)

GxPrintStats(i) == Sweep(i)

GxClearStats(i) == ClearStats(i)
=============================================================================
