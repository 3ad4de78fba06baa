------------------------------ MODULE MCDiameter ------------------------------
(***************************************************************************)
(* The constructor of Diameter on messages of up to three AVPs whose       *)
(* lengths need no, some and most padding, or end the loop; beside it a    *)
(* call of extractDword, with bytes of three bits and buffers of four      *)
(* words, for every bit position and every length up to a double word that *)
(* ends in the first three words.  One of the two gets any of its inputs   *)
(* and the other a fixed one: they share no state.                         *)
(***************************************************************************)
EXTENDS Diameter, ExtractDword

Avp(c, n, v) == [code |-> c, length |-> n, value |-> v]

MCAvps ==
  {Avp(416, 12, 1), Avp(416, 12, 7), Avp(268, 12, 2001), Avp(268, 11, 0),
   Avp(264, 13, 0), Avp(264, 30, 0), Avp(264, 0, 0), Avp(264, 5015, 0)}

NoAvps == [appId |-> GX, cc |-> 272, rbit |-> 0, avps |-> << >>]

MCMessages ==
  [appId : {GX}, cc : {272}, rbit : {0, 1},
   avps : UNION {[1..n -> MCAvps] : n \in 0..3}]
    \cup [appId : {GY, S6B, 16777251}, cc : {275, 257}, rbit : {1},
          avps : {<< >>}]

MCGarbage == {0, 1, 77}

MCBuffers == [1..8 -> {2, 5}]

MCRequests ==
  {r \in {0, 1} \X (0..(WORD_LENGTH - 1)) \X (1..DWORD_LENGTH) :
     r[1] * WORD_LENGTH + r[2] + r[3] <= 3 * WORD_LENGTH}

FirstWordOnly ==
  /\ buffer = [k \in 1..8 |-> 5]
  /\ startWord = 0 /\ startBit = 0 /\ len = WORD_LENGTH

ParseInit ==
  \/ FirstWordOnly /\ ExtractInit /\ Init
  \/ msg = NoAvps /\ request = 0 /\ Init /\ ExtractInit

ParseNext ==
  \/ Next /\ UNCHANGED extractVars
  \/ ExtractNext /\ UNCHANGED vars

\* The constructor runs to its end.
ParseSpec ==
  ParseInit /\ [][ParseNext]_<<vars, extractVars>> /\ WF_vars(Next)
=============================================================================
