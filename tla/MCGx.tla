-------------------------------- MODULE MCGx --------------------------------
(***************************************************************************)
(* KpiInterface as a GxInterface: two hop ids, times around the boundaries *)
(* of two windows (a half second before, at, and after an end), one type   *)
(* (EVENT) that Gx does not count.                                         *)
(***************************************************************************)
EXTENDS KpiInterface

MCHops     == {1, 2}
MCTimes    == {12000, 14500, 20500, 21000, 55000}
MCCcs      == {272}
MCReqTypes == {1, 3, 4}
MCResCodes == {2001, 3000}
=============================================================================
