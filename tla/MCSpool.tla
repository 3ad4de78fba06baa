------------------------------ MODULE MCSpool ------------------------------
(***************************************************************************)
(* Two analysers for the same file names, and two files.                   *)
(***************************************************************************)
EXTENDS PcapSpool

CONSTANTS p1, p2, f1, f2

OneSuffix == [x \in Procs \cup Files |-> 1]
=============================================================================
