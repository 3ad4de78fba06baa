----------------------------- MODULE MCShfTable -----------------------------
(***************************************************************************)
(* ShfTable with keys of one row that hash to two table indices.           *)
(***************************************************************************)
EXTENDS ShfTable, TLC

CONSTANTS k1, k2, r1

MCKeys == {k1, k2}
MCTab2Of == k1 :> 0 @@ k2 :> 1
MCRowOf == k1 :> r1 @@ k2 :> r1
MCInodes == 1..3
ManyInodes == 1..8
=============================================================================
