------------------------- MODULE HttpSession_proof -------------------------
(***************************************************************************)
(* Proofs about HttpSession, for every size of a header, every set of      *)
(* requests and every length of the stream.                                *)
(***************************************************************************)
EXTENDS HttpSession, ByteStream_proof, TLAPS

\* What respond() returns to depends on both: the types alone do not say that a
\* body size in _state is that of the request whose body is waited for.
IInv == TypeOK /\ StateIsOfFront

-----------------------------------------------------------------------------
(***************************************************************************)
(* What respond() knows of the request at the front.                       *)
(***************************************************************************)

\* The sizes of a request.
LEMMA RequestLemma ==
    ASSUME NEW r \in Requests
    PROVE  /\ r.type \in RequestTypes /\ r.length \in Int
           /\ r.length # NoLength => r.length \in Nat
           /\ r.type # "POST" => Body(r) = 0
           /\ Body(r) \in Nat /\ Size(r) \in Nat
           /\ Size(r) = HeaderSize + Body(r) /\ Size(r) > 0
           /\ HeaderSize \in Nat /\ HeaderSize > 0
<1>1. /\ r.type \in RequestTypes /\ r.length \in Nat \union {NoLength}
      /\ r.type # "POST" => r.length <= 0
      /\ HeaderSize \in Nat \ {0}
  BY RequestsAssumption
<1>2. NoLength = -1
  BY DEF NoLength
<1>3. QED
  BY <1>1, <1>2 DEF Body, Size

\* Once the header is known, parsed now or by an earlier call, what respond() works
\* with is what the request at the front says.
LEMMA KnownLemma ==
    ASSUME IInv, phase = "responding", HeaderKnown
    PROVE  /\ Position = HeaderSize /\ Type = request.type
           /\ ParsedSize = request.length
           /\ Left \in Nat /\ Left >= HeaderSize
           /\ BodySize # NoLength => BodySize = Body(request)
           /\ ParsedEnding \in {"OK", "DISCONNECT"}
           /\ ParsedEnding = "DISCONNECT" => request.close
<1>1. /\ request \in Requests /\ received \in Nat /\ consumed \in Nat
      /\ consumed <= received /\ ending \in {"OK", "DISCONNECT"}
      /\ ending = "DISCONNECT" => request.close
  BY DEF IInv, TypeOK, StateIsOfFront
<1>2. bodySize # NoLength =>
        /\ Left >= HeaderSize /\ parsePosition = HeaderSize
        /\ bodySize = request.length /\ requestType = request.type
  BY DEF IInv, StateIsOfFront
<1>3. /\ Position = HeaderSize /\ Type = request.type /\ ParsedSize = request.length
      /\ Left >= HeaderSize
  BY <1>2 DEF Position, Type, ParsedSize, HeaderKnown
<1>4. Left \in Nat
  BY <1>1 DEF Left
<1>5. BodySize # NoLength => BodySize = Body(request)
  BY <1>1, <1>3, RequestLemma DEF BodySize, Body
<1>6. QED
  BY <1>1, <1>3, <1>4, <1>5 DEF ParsedEnding

\* A request that is answered is consumed from its first byte to its last.
LEMMA ConsumingLemma ==
    ASSUME IInv, phase = "responding", HeaderKnown, BodySize # NoLength
    PROVE  /\ Consuming = Size(request) /\ Consuming \in Nat
           /\ BodyRead => Consuming <= Left
           /\ ~BodyRead => Left < Size(request)
<1>1. request \in Requests
  BY DEF IInv, TypeOK
<1>2. /\ Body(request) \in Nat /\ Size(request) = HeaderSize + Body(request)
      /\ request.type # "POST" => Body(request) = 0
      /\ HeaderSize \in Nat
  BY <1>1, RequestLemma
<1>3. /\ Position = HeaderSize /\ Type = request.type /\ BodySize = Body(request)
      /\ Left \in Nat /\ Left >= HeaderSize
  BY KnownLemma
<1>4. QED
  BY <1>2, <1>3 DEF Consuming, BodyRead
-----------------------------------------------------------------------------
(***************************************************************************)
(* The invariant.                                                          *)
(***************************************************************************)
LEMMA InitIInv == Init => IInv
<1> SUFFICES ASSUME Init PROVE IInv
  OBVIOUS
<1>1. last.request \in Requests /\ request \in Requests
  BY DEF Init
<1>2. /\ received = 0 /\ consumed = 0 /\ parsePosition = 0 /\ bodySize = NoLength
      /\ requestType = "UNINVESTIGATED" /\ ending = "OK" /\ phase = "reading"
  BY DEF Init
<1>3. TypeOK
  BY <1>1, <1>2 DEF TypeOK
<1>4. StateIsOfFront
  BY <1>2 DEF StateIsOfFront
<1>5. QED
  BY <1>3, <1>4 DEF IInv

\* What arrives adds to what is left.
LEMMA MoreLemma ==
    ASSUME NEW a \in Nat, NEW b \in Nat, NEW c \in Nat, NEW n \in Nat, a <= b, n <= a - c
    PROVE  n <= b - c
  OBVIOUS

LEMMA ArriveIInv ==
    ASSUME IInv, Arrive
    PROVE  IInv'
<1>1. /\ received \in Nat /\ consumed \in Nat /\ consumed <= received
      /\ StreamLength \in Nat /\ HeaderSize \in Nat
  BY RequestsAssumption DEF IInv, TypeOK
<1>2. received' \in Nat /\ received <= received' /\ consumed' = consumed
  BY <1>1 DEF Arrive
<1>3. TypeOK'
  BY <1>1, <1>2 DEF IInv, TypeOK, Arrive, state
<1>4. HeaderSize <= Left => HeaderSize <= Left'
  <2>1. Left = received - consumed /\ Left' = received' - consumed
    BY <1>2 DEF Left
  <2>2. HeaderSize <= received - consumed => HeaderSize <= received' - consumed
    BY <1>1, <1>2, MoreLemma
  <2>3. QED
    BY <2>1, <2>2
<1>5. StateIsOfFront'
  BY <1>1, <1>4 DEF IInv, StateIsOfFront, Arrive, state
<1>6. QED
  BY <1>3, <1>5 DEF IInv

LEMMA RespondIInv ==
    ASSUME IInv, HeaderIncomplete \/ LengthMissing \/ BodyIncomplete
    PROVE  IInv'
<1>1. CASE HeaderIncomplete
  BY <1>1 DEF HeaderIncomplete, Restored, IInv, TypeOK, StateIsOfFront, Left
<1>2. CASE LengthMissing
  <2>1. Position = HeaderSize /\ Type = request.type /\ ParsedEnding \in {"OK", "DISCONNECT"}
    BY <1>2, KnownLemma DEF LengthMissing
  <2>2. request.type \in RequestTypes
    BY RequestLemma DEF IInv, TypeOK
  <2>3. QED
    BY <1>2, <2>1, <2>2 DEF LengthMissing, IInv, TypeOK, StateIsOfFront
<1>3. CASE BodyIncomplete
  <2>1. /\ Position = HeaderSize /\ Type = request.type /\ BodySize = Body(request)
        /\ ParsedSize = request.length
        /\ ParsedEnding \in {"OK", "DISCONNECT"}
        /\ ParsedEnding = "DISCONNECT" => request.close
        /\ Left >= HeaderSize
    BY <1>3, KnownLemma DEF BodyIncomplete
  <2>2. request.type \in RequestTypes /\ Body(request) \in Nat
    BY RequestLemma DEF IInv, TypeOK
  <2>3. BodySize = request.length
    BY <1>3, <2>1 DEF BodyIncomplete, BodyRead, BodySize
  <2>4. TypeOK'
    BY <1>3, <2>1, <2>2 DEF BodyIncomplete, IInv, TypeOK
  <2>5. Left' = Left
    BY <1>3 DEF BodyIncomplete, Left
  <2>6. StateIsOfFront'
    BY <1>3, <2>1, <2>3, <2>5 DEF BodyIncomplete, StateIsOfFront
  <2>7. QED
    BY <2>4, <2>6 DEF IInv
<1>4. QED
  BY <1>1, <1>2, <1>3

LEMMA AnswerIInv ==
    ASSUME IInv, Answer
    PROVE  IInv'
<1>1. /\ phase = "responding" /\ HeaderKnown /\ BodySize # NoLength /\ BodyRead
  BY DEF Answer
<1>2. /\ ParsedEnding \in {"OK", "DISCONNECT"}
  BY <1>1, KnownLemma
<1>3. Consuming \in Nat /\ Consuming <= Left
  BY <1>1, ConsumingLemma
<1>4. /\ request \in Requests /\ received \in Nat /\ consumed \in Nat
      /\ consumed <= received
  BY DEF IInv, TypeOK
<1>5. /\ consumed' \in Nat /\ consumed' <= received' /\ request' \in Requests
      /\ phase' \in {"reading", "responding", "closed"} /\ received' \in Nat
  <2>1. CASE ParsedEnding = "DISCONNECT"
    BY <1>4, <2>1 DEF Answer
  <2>2. CASE ParsedEnding # "DISCONNECT"
    <3>1. consumed' = consumed + Consuming /\ received' = received
      BY <2>2 DEF Answer
    <3>2. consumed' \in Nat /\ consumed' <= received'
      BY <1>3, <1>4, <3>1 DEF Left
    <3>3. QED
      BY <1>4, <2>2, <3>1, <3>2 DEF Answer
  <2>3. QED
    BY <2>1, <2>2
<1>6. /\ parsePosition' = 0 /\ bodySize' = NoLength /\ requestType' = "UNINVESTIGATED"
      /\ ending' = ParsedEnding /\ last'.request = request
      /\ ParsedEnding = "DISCONNECT" => phase' = "closed"
  BY DEF Answer, Restored
<1>7. TypeOK'
  BY <1>2, <1>4, <1>5, <1>6 DEF TypeOK
<1>8. StateIsOfFront'
  BY <1>6 DEF StateIsOfFront
<1>9. QED
  BY <1>7, <1>8 DEF IInv

\* _state never says anything of a request but the one at the front.
THEOREM Inductive == Spec => []IInv
<1>1. ASSUME IInv, [Next]_vars
      PROVE  IInv'
  <2>1. CASE Disconnected
    BY <1>1, <2>1 DEF Disconnected, IInv, TypeOK, StateIsOfFront, state
  <2>2. CASE UNCHANGED vars
    BY <1>1, <2>2 DEF vars, IInv, TypeOK, StateIsOfFront, Left, state
  <2>3. QED
    BY <1>1, <2>1, <2>2, ArriveIInv, RespondIInv, AnswerIInv DEF Next
<1>2. QED
  BY <1>1, InitIInv, PTL DEF Spec

\* The variables have their types, and no more is consumed than arrived.
THEOREM TypeCorrect == Spec => []TypeOK
  BY Inductive, PTL DEF IInv

\* The ParseState that outlives a call belongs to the request that is waited for.
THEOREM StateIsRight == Spec => []StateIsOfFront
  BY Inductive, PTL DEF IInv
-----------------------------------------------------------------------------
(***************************************************************************)
(* Answers.                                                                *)
(***************************************************************************)

\* A connection that waits for input owes no response.
THEOREM NothingIsUnanswered == Spec => []NothingUnanswered
<1>1. Init => NothingUnanswered
  <2>1. ASSUME Init PROVE NothingUnanswered
    <3>1. Size(request) > 0 /\ Left = 0
      BY <2>1, RequestLemma DEF Init, Left
    <3>2. QED
      BY <3>1 DEF NothingUnanswered
  <2>2. QED
    BY <2>1
<1>2. ASSUME IInv, IInv', NothingUnanswered, [Next]_vars
      PROVE  NothingUnanswered'
  <2>1. CASE Arrive \/ Disconnected \/ LengthMissing
    BY <2>1 DEF Arrive, Disconnected, LengthMissing, NothingUnanswered
  <2>2. CASE HeaderIncomplete
    <3>1. Left < HeaderSize /\ received \in Nat /\ consumed \in Nat /\ request \in Requests
      BY <1>2, <2>2, RequestsAssumption
      DEF HeaderIncomplete, HeaderKnown, IInv, TypeOK, Left
    <3>2. Body(request) \in Nat /\ Size(request) = HeaderSize + Body(request) /\ HeaderSize \in Nat
      BY <3>1, RequestLemma
    <3>3. Left' = Left /\ request' = request
      BY <2>2 DEF HeaderIncomplete, Left
    <3>4. Size(request') = Size(request) /\ Left < Size(request)
      BY <3>1, <3>2, <3>3 DEF Left
    <3>5. QED
      BY <3>3, <3>4 DEF NothingUnanswered
  <2>3. CASE BodyIncomplete
    <3>1. Left < Size(request)
      BY <1>2, <2>3, ConsumingLemma DEF BodyIncomplete
    <3>2. Left' = Left /\ request' = request
      BY <2>3 DEF BodyIncomplete, Left
    <3>3. QED
      BY <3>1, <3>2 DEF NothingUnanswered
  <2>4. CASE Answer
    <3>1. SUFFICES ASSUME phase' = "reading"
                   PROVE  Left' < Size(request')
      BY DEF NothingUnanswered
    <3>2. /\ consumed' = consumed + Consuming /\ received' = received
          /\ request' \in Requests /\ ~(Left > Consuming)
      BY <2>4, <3>1 DEF Answer
    <3>3. Consuming \in Nat /\ received \in Nat /\ consumed \in Nat
      BY <1>2, <2>4, ConsumingLemma DEF Answer, IInv, TypeOK
    <3>4. Left' <= 0 /\ Left' \in Int
      BY <3>2, <3>3 DEF Left
    <3>5. Size(request') > 0 /\ Size(request') \in Nat
      BY <3>2, RequestLemma
    <3>6. QED
      BY <3>4, <3>5
  <2>5. CASE UNCHANGED vars
    BY <1>2, <2>5 DEF vars, NothingUnanswered, Left
  <2>6. QED
    BY <1>2, <2>1, <2>2, <2>3, <2>4, <2>5 DEF Next
<1>3. QED
  BY <1>1, <1>2, Inductive, PTL DEF Spec

\* Every request that is answered gets exactly one response, of its own kind, if its
\* responder is sound; no request is taken off the stream without an answer.
THEOREM OneResponse == Spec => []OneResponseEach
<1>1. Init => OneResponseEach
  BY DEF Init, OneResponseEach
<1>2. ASSUME IInv, OneResponseEach, [Next]_vars
      PROVE  OneResponseEach'
  <2>1. CASE last' = last /\ consumed' = consumed
    BY <1>2, <2>1 DEF OneResponseEach
  <2>2. CASE Answer
    <3>1. Type = request.type /\ request \in Requests
      BY <1>2, <2>2, KnownLemma DEF Answer, IInv, TypeOK
    <3>2. /\ last'.request = request /\ last'.answered
          /\ last'.written = Written(request.type)
      BY <2>2, <3>1 DEF Answer
    <3>3. /\ request.type \in {"GET", "POST", "WEIRD"}
          /\ request.responder.writes \in {"nothing", "known", "unknown"}
          /\ request.responder.ends \in {"true", "false", "throws"}
      BY <3>1, RequestsAssumption DEF RequestTypes, Behaviours
    <3>4. Sound(request.responder) => Written(request.type) = <<Expected(request)>>
      <4> DEFINE b == request.responder
      <4>1. CASE request.type = "WEIRD"
        BY <4>1 DEF Written, Expected
      <4>2. CASE request.type # "WEIRD" /\ b.ends = "true" /\ b.writes # "nothing"
        <5>1. Streamed(b) = <<"200">> /\ Concluded(b, request.type) = <<>>
          BY <3>3, <4>2 DEF Streamed, Concluded
        <5>2. <<"200">> \o <<>> = <<"200">>
          OBVIOUS
        <5>3. Expected(request) = "200"
          BY <4>2 DEF Expected
        <5>4. QED
          BY <4>2, <5>1, <5>2, <5>3 DEF Written
      <4>3. CASE request.type # "WEIRD" /\ Sound(b) /\ ~(b.ends = "true" /\ b.writes # "nothing")
        <5>1. Streamed(b) = <<>>
          BY <3>3, <4>3 DEF Streamed, Sound
        <5>2. Concluded(b, request.type) = <<Expected(request)>>
          BY <3>3, <4>3 DEF Concluded, Expected
        <5>3. Concluded(b, request.type) \in Seq({Expected(request)})
          BY <5>2
        <5>4. <<>> \o Concluded(b, request.type) = Concluded(b, request.type)
          BY <5>3, ConcatEmptySeq
        <5>5. QED
          BY <4>3, <5>1, <5>2, <5>4 DEF Written
      <4>5. QED
        BY <4>1, <4>2, <4>3
    <3>5. QED
      BY <3>2, <3>4 DEF OneResponseEach
  <2>3. QED
    BY <1>2, <2>1, <2>2
    DEF Next, vars, Arrive, Disconnected, HeaderIncomplete, LengthMissing, BodyIncomplete
<1>3. QED
  BY <1>1, <1>2, Inductive, PTL DEF Spec
-----------------------------------------------------------------------------
(***************************************************************************)
(* A session takes whole messages off the stream, in order.                *)
(***************************************************************************)

\* A session starts with an empty stream before it.
LEMMA InitImplements == Init => MS!Init
<1> SUFFICES ASSUME Init PROVE MS!Init
  OBVIOUS
<1>1. Stream(consumed, received) = <<>>
  BY DEF Init, Stream
<1>2. QED
  BY <1>1 DEF Init, MS!Init

\* Every step of a session is one of the stream, or is invisible there.
LEMMA NextImplements ==
    ASSUME IInv, [Next]_vars
    PROVE  [MS!Next]_MS!absVars
<1>1. /\ received \in Nat /\ consumed \in Nat /\ consumed <= received
      /\ request \in Requests
  BY DEF IInv, TypeOK
<1>2. CASE Arrive
  <2>1. /\ received' \in Nat /\ received' > received /\ consumed' = consumed
        /\ request' = request /\ phase # "closed" /\ phase' # "closed"
    BY <1>1, <1>2, RequestsAssumption DEF Arrive
  <2>2. received <= received'
    BY <1>1, <2>1
  <2>3. Stream(consumed, received') = Stream(consumed, received) \o Stream(received, received')
    BY <1>1, <2>1, <2>2, StreamJoins
  <2>4. QED
    BY <2>1, <2>3 DEF MS!Next, MS!Arrive, MS!Stream, Stream
<1>3. CASE Disconnected \/ LengthMissing
  <2>1. /\ received' = received /\ consumed' = consumed /\ request' = request
        /\ phase # "closed" /\ phase' = "closed"
    BY <1>3 DEF Disconnected, LengthMissing
  <2>2. MS!Close
    BY <2>1 DEF MS!Close
  <2>3. QED
    BY <2>2 DEF MS!Next
<1>4. CASE HeaderIncomplete \/ BodyIncomplete \/ UNCHANGED vars
  BY <1>4 DEF HeaderIncomplete, BodyIncomplete, vars, MS!absVars
<1>5. CASE Answer /\ ParsedEnding = "DISCONNECT"
  <2>1. /\ received' = received /\ consumed' = consumed /\ request' = request
        /\ phase # "closed" /\ phase' = "closed"
    BY <1>5 DEF Answer
  <2>2. MS!Close
    BY <2>1 DEF MS!Close
  <2>3. QED
    BY <2>2 DEF MS!Next
<1>6. CASE Answer /\ ParsedEnding # "DISCONNECT"
  <2>1. /\ phase # "closed" /\ phase' # "closed" /\ received' = received
        /\ consumed' = consumed + Consuming /\ request' \in Requests
    BY <1>6 DEF Answer
  <2>2. Consuming = Size(request) /\ Consuming \in Nat /\ Consuming <= received - consumed
    BY <1>6, ConsumingLemma DEF Answer, Left
  <2>3. consumed + Size(request) <= received /\ Size(request) \in Nat
    BY <1>1, <2>2
  <2>4. Stream(consumed + Size(request), received)
            = SubSeq(Stream(consumed, received), Size(request) + 1, received - consumed)
    BY <1>1, <2>3, StreamDrops
  <2>5. Len(Stream(consumed, received)) = received - consumed
    <3>1. received - consumed \in Nat
      BY <1>1
    <3>2. QED
      BY <3>1 DEF Stream
  <2>6. Size(request') \in {Size(r) : r \in Requests}
    BY <2>1
  <2>7. MS!HandOver
    BY <2>1, <2>2, <2>4, <2>5, <2>6 DEF MS!HandOver
  <2>8. QED
    BY <2>7 DEF MS!Next
<1>7. QED
  BY <1>2, <1>3, <1>4, <1>5, <1>6 DEF Next

\* A session is a responder of the kind that the receive buffer is specified for.
THEOREM Implements == Spec => ImplementsStream
<1>1. Spec => []IInv
  BY Inductive
<1>2. IInv /\ [Next]_vars => [MS!Next]_MS!absVars
  BY NextImplements
<1>3. QED
  BY <1>1, <1>2, InitImplements, PTL DEF Spec, ImplementsStream, MS!Spec
=============================================================================
