----------------------------- MODULE ExtractDword -----------------------------
(***************************************************************************)
(* extractDword: the len bits that start startBit bits into word startWord *)
(* of a buffer, most significant first.  The loop over 16-bit words is a   *)
(* state machine and is compared with a definition bit by bit.             *)
(*                                                                         *)
(* BYTE is 8 in the code; a smaller byte keeps every shift and mask and    *)
(* leaves fewer buffers.                                                   *)
(***************************************************************************)
EXTENDS Integers, Sequences

CONSTANTS BYTE,       \* bits of a byte
          Buffers,    \* sequences of bytes
          Requests    \* triples <<startWord, startBit, len>>

WORD_LENGTH  == 2 * BYTE
DWORD_LENGTH == 2 * WORD_LENGTH

Pow2[n \in Nat] == IF n = 0 THEN 1 ELSE 2 * Pow2[n - 1]

ASSUME ByteAssumption == BYTE \in Nat \ {0}

\* Buffers hold whole words: messages and AVPs are padded to four bytes.
ASSUME BuffersAssumption ==
  \A b \in Buffers : b \in Seq(0..(Pow2[BYTE] - 1)) /\ Len(b) % 2 = 0

\* At most a double word is asked for, and it is in the buffer.
ASSUME RequestsAssumption ==
  \A r \in Requests :
    /\ r \in Nat \X (0..(WORD_LENGTH - 1)) \X (1..DWORD_LENGTH)
    /\ \A b \in Buffers : r[1] * WORD_LENGTH + r[2] + r[3] <= Len(b) * BYTE

VARIABLES buffer, startWord, startBit, len,   \* the arguments
          phase, value, lenLeft, wordOffset   \* where it is, and the locals

extractVars ==
  <<buffer, startWord, startBit, len, phase, value, lenLeft, wordOffset>>

args == <<buffer, startWord, startBit, len>>

Mask(n) == Pow2[n]              \* x & word_masks[n] is x % Mask(n)

WordAt(w) == buffer[2 * w + 1] * Pow2[BYTE] + buffer[2 * w + 2]

ShiftLeft(v, n) == (v * Pow2[n]) % Pow2[DWORD_LENGTH]

ExtractInit ==
  /\ buffer \in Buffers
  /\ \E r \in Requests : startWord = r[1] /\ startBit = r[2] /\ len = r[3]
  /\ phase = "start" /\ value = 0 /\ lenLeft = len /\ wordOffset = startWord

\* All bits are in one word.
OneWord ==
  /\ phase = "start" /\ startBit + len <= WORD_LENGTH
  /\ value' = (WordAt(startWord) \div Pow2[WORD_LENGTH - startBit - len])
                % Mask(len)
  /\ phase' = "done"
  /\ UNCHANGED <<args, lenLeft, wordOffset>>

\* Mutation: the bits before startBit are kept.
FirstWordUnmasked ==
  /\ phase = "start" /\ startBit + len > WORD_LENGTH
  /\ value' = WordAt(wordOffset)
  /\ lenLeft' = lenLeft - (WORD_LENGTH - startBit)
  /\ wordOffset' = wordOffset + 1
  /\ phase' = "loop"
  /\ UNCHANGED args

FirstWord ==
  /\ phase = "start" /\ startBit + len > WORD_LENGTH
  /\ value' = WordAt(wordOffset) % Mask(WORD_LENGTH - startBit)
  /\ lenLeft' = lenLeft - (WORD_LENGTH - startBit)
  /\ wordOffset' = wordOffset + 1
  /\ phase' = "loop"
  /\ UNCHANGED args

FullWord ==
  /\ phase = "loop" /\ lenLeft >= WORD_LENGTH
  /\ value' = ShiftLeft(value, WORD_LENGTH) + WordAt(wordOffset)
  /\ lenLeft' = lenLeft - WORD_LENGTH
  /\ wordOffset' = wordOffset + 1
  /\ UNCHANGED <<args, phase>>

\* Mutation: one word too many is read.
LastBitsAlways ==
  /\ phase = "loop" /\ lenLeft < WORD_LENGTH
  /\ phase' = "done"
  /\ value' = ShiftLeft(value, lenLeft)
                + WordAt(wordOffset) \div Pow2[WORD_LENGTH - lenLeft]
  /\ wordOffset' = wordOffset + 1
  /\ UNCHANGED <<args, lenLeft>>

LastBits ==
  /\ phase = "loop" /\ lenLeft < WORD_LENGTH
  /\ phase' = "done"
  /\ \/ /\ lenLeft > 0
        /\ value' = ShiftLeft(value, lenLeft)
                      + WordAt(wordOffset) \div Pow2[WORD_LENGTH - lenLeft]
        /\ wordOffset' = wordOffset + 1
     \/ /\ lenLeft <= 0
        /\ UNCHANGED <<value, wordOffset>>
  /\ UNCHANGED <<args, lenLeft>>

ExtractNext == OneWord \/ FirstWord \/ FullWord \/ LastBits

ExtractSpec == ExtractInit /\ [][ExtractNext]_extractVars

-----------------------------------------------------------------------------
\* The number in bits from..to-1 of the buffer, counted from 0.
Bit(b, k) == (b[k \div BYTE + 1] \div Pow2[BYTE - 1 - (k % BYTE)]) % 2

Number(b, from, to) ==
  LET upto[n \in Nat] ==
        IF n = 0 THEN 0 ELSE 2 * upto[n - 1] + Bit(b, from + n - 1)
  IN  upto[to - from]

\* The result is the number in the bits that were asked for, also when they
\* begin inside a word, end inside one, or end at the end of one.
ReturnsTheBits ==
  phase = "done" =>
    LET first == startWord * WORD_LENGTH + startBit
    IN  value = Number(buffer, first, first + len)

\* No word is read that holds none of the bits asked for.
ReadsNoFurther ==
  (wordOffset - startWord) * WORD_LENGTH < startBit + len + WORD_LENGTH
=============================================================================
