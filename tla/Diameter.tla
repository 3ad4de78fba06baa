------------------------------- MODULE Diameter -------------------------------
(***************************************************************************)
(* The constructor of Diameter: the header of a message, then its AVPs one *)
(* by one, until both the CC-Request-Type and the Result-Code were seen or *)
(* the message ends.                                                       *)
(*                                                                         *)
(* A message is its header fields and the sequence of its AVPs; AvpAt      *)
(* finds the AVP at a byte offset, as extractDword reads it there.  The    *)
(* member request is compared in the loop before it is assigned: its value *)
(* there is any int, garbage.  reqType and resCode are never initialised.  *)
(***************************************************************************)
EXTENDS Integers, Sequences

CONSTANTS Messages,   \* the messages the constructor may be given
          Garbage,    \* what uninitialised memory may hold
          NoValue     \* marks a member that was not assigned

GX  == 16777238
GY  == 4
S6B == 16777999

CommandCodes == {272, 265, 275}

HeaderLength    == 20
CC_REQUEST_TYPE == 416
RESULT_CODE     == 268
MaxAvpLength    == 5014

\* Mutation: AVPs are not padded.
Unpadded(avpLength) == avpLength

\* The bytes an AVP takes: its length up to the next multiple of four.
Padded(avpLength) ==
  LET reminder == avpLength % 4
  IN  IF reminder # 0 THEN avpLength + (4 - reminder) ELSE avpLength

\* Where each AVP of a message starts by RFC 6733, and where the last ends.
\* An AVP whose length field is 0 still has its header of eight bytes.
Wire(n) == IF n = 0 THEN 8 ELSE 4 * ((n + 3) \div 4)

Starts(avps) ==
  LET at[k \in 1..(Len(avps) + 1)] ==
        IF k = 1 THEN HeaderLength ELSE at[k - 1] + Wire(avps[k - 1].length)
  IN  at

MsgLength(m) == Starts(m.avps)[Len(m.avps) + 1]

\* Messages whose length field is right and whose AVPs have a whole header: an
\* AVP length is 0 or at least 8.  Of lengths from 1 to 7, which the loop
\* accepts too, nothing is said here.
ASSUME LengthAssumption ==
  \A m \in Messages :
    /\ m.avps \in Seq([code : Nat, length : Nat, value : Nat])
    /\ \A k \in 1..Len(m.avps) : m.avps[k].length = 0 \/ m.avps[k].length >= 8

\* Uninitialised memory is read as an int.
ASSUME GarbageAssumption == Garbage \subseteq Int /\ NoValue \notin Int

AvpAt(m, byte) == {k \in 1..Len(m.avps) : Starts(m.avps)[k] = byte}

VARIABLES
  pc,            \* "header", "loop", "done"
  msg,           \* the message
  valid, request, reqType, resCode,
  msgRemaining, avpStartWord, CCReqAvp, resCodeAvp,
  seen           \* history: indices of the AVPs looked at

vars == <<pc, msg, valid, request, reqType, resCode, msgRemaining,
          avpStartWord, CCReqAvp, resCodeAvp, seen>>

-----------------------------------------------------------------------------
Init ==
  /\ pc = "header"
  /\ msg \in Messages
  /\ request \in Garbage
  /\ valid = TRUE
  /\ reqType = NoValue /\ resCode = NoValue
  /\ msgRemaining = 0 /\ avpStartWord = 0
  /\ CCReqAvp = FALSE /\ resCodeAvp = FALSE
  /\ seen = {}

Known == msg.appId \in {GX, GY, S6B} /\ msg.cc \in CommandCodes

Reject ==
  /\ pc = "header" /\ ~Known
  /\ valid' = FALSE
  /\ pc' = "done"
  /\ UNCHANGED <<msg, request, reqType, resCode, msgRemaining, avpStartWord,
                 CCReqAvp, resCodeAvp, seen>>

Accept ==
  /\ pc = "header" /\ Known
  /\ pc' = "loop"
  /\ msgRemaining' = MsgLength(msg) - HeaderLength
  /\ avpStartWord' = HeaderLength \div 2
  /\ UNCHANGED <<msg, valid, request, reqType, resCode, CCReqAvp, resCodeAvp,
                 seen>>

\* After the loop: request is the R bit of the command flags.
Finish ==
  /\ pc' = "done"
  /\ request' = msg.rbit

\* A value of another length than four bytes is read as some number.
Value(avp) == IF avp.length = 12 THEN {avp.value} ELSE Garbage

\* reqType is unsigned: what would be a negative int is above 4.
SmallType(n) == IF n \in 0..4 THEN n ELSE 0

Read(avp) ==
  CASE avp.code = RESULT_CODE ->
         /\ resCode' \in Value(avp) /\ resCodeAvp' = TRUE
         /\ UNCHANGED <<reqType, CCReqAvp>>
    [] avp.code = CC_REQUEST_TYPE ->
         /\ \E v \in Value(avp) : reqType' = SmallType(v)
         /\ CCReqAvp' = TRUE
         /\ UNCHANGED <<resCode, resCodeAvp>>
    [] OTHER -> UNCHANGED <<resCode, resCodeAvp, reqType, CCReqAvp>>

\* Mutation: either AVP is enough.
EnoughWithOne(ccr, res) == ccr \/ res

\* Mutation: the request type is enough for answers too.
EnoughWithType(ccr, res) == request \in {0, 1} /\ ccr

Enough(ccr, res) ==
  (request = 1 /\ ccr) \/ (request = 0 /\ ccr /\ res)

\* Mutation: an AVP of length 0 is accepted.
ZeroAccepted(avpLength) == avpLength <= MaxAvpLength

Accepted(avpLength) == ~(avpLength <= 0 \/ avpLength > MaxAvpLength)

\* One round of the loop.
Visit(k) ==
  LET avp == msg.avps[k] IN
  /\ pc = "loop" /\ msgRemaining > 0
  /\ k \in AvpAt(msg, 2 * avpStartWord)
  /\ Accepted(avp.length)
  /\ seen' = seen \cup {k}
  /\ Read(avp)
  /\ \/ /\ Enough(CCReqAvp', resCodeAvp')
        /\ Finish
        /\ UNCHANGED <<msgRemaining, avpStartWord>>
     \/ /\ ~Enough(CCReqAvp', resCodeAvp')
        /\ msgRemaining' = msgRemaining - Padded(avp.length)
        /\ avpStartWord' = avpStartWord + Padded(avp.length) \div 2
        /\ UNCHANGED <<pc, request>>
  /\ UNCHANGED <<msg, valid>>

\* An AVP of length 0 or above 5014 ends the loop.
Unreadable(k) ==
  /\ pc = "loop" /\ msgRemaining > 0
  /\ k \in AvpAt(msg, 2 * avpStartWord)
  /\ ~Accepted(msg.avps[k].length)
  /\ Finish
  /\ UNCHANGED <<msg, valid, reqType, resCode, msgRemaining, avpStartWord,
                 CCReqAvp, resCodeAvp, seen>>

EndOfMessage ==
  /\ pc = "loop" /\ msgRemaining <= 0
  /\ Finish
  /\ UNCHANGED <<msg, valid, reqType, resCode, msgRemaining, avpStartWord,
                 CCReqAvp, resCodeAvp, seen>>

Next ==
  \/ Reject \/ Accept \/ EndOfMessage
  \/ \E k \in 1..Len(msg.avps) : Visit(k) \/ Unreadable(k)

Spec == Init /\ [][Next]_vars

\* The constructor runs to its end.
FairSpec == Spec /\ WF_vars(Next)

-----------------------------------------------------------------------------
\* The types of the members; a request type that was read is in 0..4, so it
\* is always an index that GxInterface and GyInterface accept or reject.
TypeOK ==
  /\ pc \in {"header", "loop", "done"}
  /\ valid \in BOOLEAN /\ CCReqAvp \in BOOLEAN /\ resCodeAvp \in BOOLEAN
  /\ reqType \in (0..4) \cup {NoValue}
  /\ resCode \in Int \cup {NoValue}
  /\ CCReqAvp <=> reqType # NoValue
  /\ resCodeAvp <=> resCode # NoValue

\* The loop reads every AVP header where an AVP starts, whatever lengths of at
\* least a header the AVPs before it have: the padding and the division by two lose no byte, and what
\* remains of the message is what lies behind the AVP.
OnBoundary ==
  pc = "loop" =>
    /\ 2 * avpStartWord + msgRemaining = MsgLength(msg)
    /\ msgRemaining > 0 => AvpAt(msg, 2 * avpStartWord) # {}

Readable(m) == \A k \in 1..Len(m.avps) : m.avps[k].length \in 8..MaxAvpLength

Carries(m, code) == \E k \in 1..Len(m.avps) : m.avps[k].code = code

\* A request gets its request type whatever uninitialised memory held: the
\* loop never stops before the CC-Request-Type of a readable message.
TypeIsFound ==
  /\ TypeOK
  /\ pc = "done" /\ valid /\ Readable(msg) /\ Carries(msg, CC_REQUEST_TYPE)
       => CCReqAvp

\* The Result-Code is missed only when there was a request type before it and
\* the uninitialised request happened to be 1.
ResultMissedOnlyByGarbage ==
  [][pc' = "done" /\ valid' /\ Readable(msg) /\ Carries(msg, RESULT_CODE)
       /\ ~resCodeAvp' => request = 1 /\ CCReqAvp']_vars

\* The constructor always ends, for every sequence of AVP lengths that are 0 or
\* at least a header.
Terminates == <>(pc = "done")
=============================================================================
