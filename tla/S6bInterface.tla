------------------------------ MODULE S6bInterface ------------------------------
(***************************************************************************)
(* The S6b interface (AAA): counted per command code, not per request type.*)
(***************************************************************************)
EXTENDS Interface

S6BAA        == 265
S6BTERMINATE == 275

AA   == 0
TERM == 1

S6bTypes == {AA, TERM}

NewS6bInterface == NewInterface(S6bTypes)

S6bType(pkt) ==
  CASE pkt.cc = S6BAA        -> AA
    [] pkt.cc = S6BTERMINATE -> TERM
    [] OTHER                 -> NoType

S6bAddPkt(i, pkt) == Account(i, S6bType(pkt), pkt)

\* Mutation: requests that timed out are not looked for.
S6bPrintStatsUnswept(i) == i

S6bPrintStats(i) == Sweep(i)

S6bClearStats(i) == ClearStats(i)
=============================================================================
