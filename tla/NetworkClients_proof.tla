------------------------- MODULE NetworkClients_proof -----------------------
(***************************************************************************)
(* That every response is kept whole, goes to the request it answers, and  *)
(* is not overlooked, proved for any number of requests, sizes of          *)
(* responses, and pieces the stream arrives in: of the binary client in    *)
(* any use, of the HTTP client in an orderly one.                          *)
(***************************************************************************)
EXTENDS NetworkClients, FiniteSetTheorems, TLAPS

\* The uses in which HTTP keeps its responses apart: one request at a time, or
\* bodies of one size that is not 0, and no errors.  (The run http_client_mixed
\* shows another.)  In an orderly use the server also sends nothing but HTTP.
OneUnderWay == workload.underWay <= 1
OneSize(b) == workload.bodies = {b} /\ ~workload.errors

Aligned == Speaks("http") => OneUnderWay \/ \E b \in Nat \ {0} : OneSize(b)
Orderly == Aligned /\ ~workload.malformed
-----------------------------------------------------------------------------
(***************************************************************************)
(* The inductive invariant.                                                *)
(***************************************************************************)
\* In no state of a call has it thrown the error that is no RemoteError.
Calls ==
    [op : {"none", "get", "has"}, token : Tokens \union {None},
     at : {"app", "search", "read", "parse", "done"}, wasReceived : BOOLEAN]

TypeInv ==
    /\ call \in Calls
    /\ workload \in Workloads
    /\ ends \in Seq(Nat)
    /\ arrived \in Nat /\ leftStart \in Nat /\ leftEnd \in Nat
    /\ leftStart <= leftEnd /\ leftEnd <= arrived

\* The responses follow each other in the stream, and none is empty.
Ascending ==
    /\ \A t \in 1 .. Len(ends) : ends[t] > 0
    /\ \A t, u \in 1 .. Len(ends) : t < u => ends[t] < ends[u]

\* What has arrived was written, and _leftovers begin where a response begins.
InStep ==
    /\ arrived > 0 => ends # <<>> /\ arrived <= ends[Len(ends)]
    /\ \E m \in 0 .. Len(ends) : leftStart = Start(m + 1)

\* The reader is called only while there is something to read.
NotEmpty == call.at = "parse" => leftStart < leftEnd

StreamInv ==
    /\ TypeInv /\ Ascending /\ InStep /\ NotEmpty
    /\ KeptResponsesWhole /\ RightResponse /\ NothingDropped

\* Responses are asked for once, and only to requests that were sent.  With one
\* request under way all earlier ones have returned.
Bookkeeping ==
    /\ written \in 0 .. Requests /\ Len(ends) <= written /\ returned \subseteq 1 .. written
    /\ malformed = None /\ closed \in BOOLEAN /\ polls \in 0 .. Polls
    /\ call.at # "app" => call.token \in (1 .. written) \ returned
    /\ OneUnderWay => 1 .. (written - 1) \subseteq returned
    /\ \A d, e \in responses : d.token = e.token => d = e

\* The HTTP client counts the responses it cuts off.  What its ParseState knows of
\* an earlier response is right for the next one: all have one size.
Counting ==
    /\ frame \in Nat /\ lastTokenRead \in Nat
    /\ \A b : workload.bodies = {b} =>
          \A t \in 1 .. Len(ends) : ends[t] = Start(t) + HeaderSize + b
    /\ Speaks("http") =>
          /\ lastTokenRead <= Len(ends) /\ CountFollowsFraming
          /\ call.at \in {"read", "parse"} /\ frame # 0 =>
                \E b \in Nat \ {0} : OneSize(b) /\ frame = HeaderSize + b

\* A search ends only when no complete response is left to be looked at, unless
\* it was thrown.
HeadersFit == \A t \in 1 .. Len(ends) : Start(t) + HeaderSize <= ends[t]

NoneWaits ==
    call.at # "parse" =>
        \A t \in 1 .. Len(ends) : leftStart < ends[t] => leftEnd < ends[t] \/ t \in returned

Waiting == HeadersFit /\ NoneWaits

IInv == Orderly /\ StreamInv /\ Bookkeeping /\ Counting /\ Waiting
-----------------------------------------------------------------------------
(***************************************************************************)
(* Where the responses begin.                                              *)
(***************************************************************************)
LEMMA Starts ==
    ASSUME TypeInv, Ascending
    PROVE  /\ \A t \in 1 .. Len(ends) + 1 : Start(t) \in Nat
           /\ \A t \in 1 .. Len(ends) : Start(t) < ends[t]
           /\ \A t, u \in 1 .. Len(ends) + 1 : t < u => Start(t) < Start(u)
           /\ \A t, u \in 1 .. Len(ends) : ends[t] <= Start(u) \/ u <= t
<1>1. Len(ends) \in Nat /\ \A t \in 1 .. Len(ends) : ends[t] \in Nat
  BY DEF TypeInv
<1>2. \A t \in 1 .. Len(ends) + 1 : Start(t) \in Nat /\ (t # 1 => Start(t) = ends[t - 1])
  BY <1>1 DEF Start
<1>3. ASSUME NEW t \in 1 .. Len(ends) PROVE Start(t) < ends[t]
  <2>1. CASE t = 1
    BY <1>1, <2>1 DEF Ascending, Start
  <2>2. CASE t # 1
    <3>1. t - 1 \in 1 .. Len(ends) /\ t - 1 < t
      BY <1>1, <2>2
    <3>2. ends[t - 1] < ends[t]
      BY <3>1 DEF Ascending
    <3>3. QED
      BY <2>2, <3>2 DEF Start
  <2>3. QED
    BY <2>1, <2>2
<1>4. ASSUME NEW t \in 1 .. Len(ends) + 1, NEW u \in 1 .. Len(ends) + 1, t < u
      PROVE  Start(t) < Start(u)
  <2>1. u - 1 \in 1 .. Len(ends) /\ u # 1
    BY <1>1, <1>4
  <2>2. Start(u) = ends[u - 1]
    BY <2>1 DEF Start
  <2>3. CASE t = 1
    <3>1. Start(t) = 0
      BY <2>3 DEF Start
    <3>2. ends[u - 1] > 0
      BY <2>1 DEF Ascending
    <3>3. QED
      BY <2>2, <3>1, <3>2
  <2>4. CASE t # 1
    <3>1. Start(t) = ends[t - 1]
      BY <2>4 DEF Start
    <3>2. t - 1 \in 1 .. Len(ends) /\ t - 1 < u - 1
      BY <1>1, <1>4, <2>4
    <3>3. ends[t - 1] < ends[u - 1]
      BY <2>1, <3>2 DEF Ascending
    <3>4. QED
      BY <2>2, <3>1, <3>3
  <2>5. QED
    BY <2>3, <2>4
<1>5. ASSUME NEW t \in 1 .. Len(ends), NEW u \in 1 .. Len(ends), t < u
      PROVE  ends[t] <= Start(u)
  <2>1. u - 1 \in 1 .. Len(ends) /\ (t = u - 1 \/ t < u - 1) /\ Start(u) = ends[u - 1]
    BY <1>1, <1>5 DEF Start
  <2>2. QED
    BY <1>1, <2>1 DEF Ascending
<1>6. \A t, u \in 1 .. Len(ends) : ends[t] <= Start(u) \/ u <= t
  BY <1>1, <1>5
<1>7. QED
  BY <1>2, <1>3, <1>4, <1>6

LEMMA Beginning ==
    ASSUME TypeInv, Ascending, NEW t \in 1 .. Len(ends)
    PROVE  BeginningAt(Start(t)) = t
<1>1. \A u \in 1 .. Len(ends) : Start(u) = Start(t) => u = t
  <2> SUFFICES ASSUME NEW u \in 1 .. Len(ends), Start(u) = Start(t), u # t PROVE FALSE
    OBVIOUS
  <2>1. u < t \/ t < u
    BY DEF TypeInv
  <2>2. t \in 1 .. Len(ends) + 1 /\ u \in 1 .. Len(ends) + 1
    BY DEF TypeInv
  <2>3. Start(u) \in Nat /\ Start(t) \in Nat /\ (Start(u) < Start(t) \/ Start(t) < Start(u))
    BY <2>1, <2>2, Starts
  <2>4. QED
    BY <2>3
<1>2. QED
  BY <1>1 DEF BeginningAt

\* The response at the front of _leftovers, if there is anything in them.
LEMMA FrontLemma ==
    ASSUME StreamInv, leftStart < leftEnd
    PROVE  \E f \in 1 .. Len(ends) : Front = f /\ leftStart = Start(f)
<1>1. PICK m \in 0 .. Len(ends) : leftStart = Start(m + 1)
  BY DEF StreamInv, InStep
<1>2. ends # <<>> /\ arrived <= ends[Len(ends)] /\ Len(ends) \in Nat \ {0}
  BY DEF StreamInv, TypeInv, InStep
<1>3. m # Len(ends)
  <2> SUFFICES ASSUME m = Len(ends) PROVE FALSE
    OBVIOUS
  <2>1. leftStart = ends[Len(ends)]
    BY <1>1, <1>2 DEF Start
  <2>2. QED
    BY <1>2, <2>1 DEF StreamInv, TypeInv
<1>4. m + 1 \in 1 .. Len(ends)
  BY <1>2, <1>3
<1>5. Front = m + 1
  BY <1>1, <1>4, Beginning DEF StreamInv, Front
<1>6. QED
  BY <1>1, <1>4, <1>5
-----------------------------------------------------------------------------
(***************************************************************************)
(* What is handed over.                                                    *)
(***************************************************************************)
RightBody(h) == NoLength(Response(h.token)) \/ h.body = Body(Response(h.token))

\* RightResponse, in terms of RightBody.
LEMMA RightBodies ==
    ASSUME RightResponse, NEW h \in handed
    PROVE  h.token \in 1 .. Len(ends) /\ RightBody(h)
BY DEF RightResponse, RightBody

\* A body stays the right one as long as the response does.
LEMMA SameBody ==
    ASSUME NEW h, RightBody(h), UNCHANGED <<workload, Response(h.token)>>
    PROVE  RightBody(h)'
BY DEF RightBody, NoLength, Body, Speaks

\* What is handed over of the response to a token is its body.
LEMMA NewBody ==
    ASSUME NEW h, h.body = HandedBody(Response(h.token))
    PROVE  RightBody(h)
BY DEF RightBody, HandedBody
-----------------------------------------------------------------------------
(***************************************************************************)
(* What the outside does.                                                  *)
(***************************************************************************)
LEMMA StaysStream ==
    ASSUME StreamInv, UNCHANGED <<workload, ends, arrived, leftStart, leftEnd, responses, handed>>,
           UNCHANGED call \/ (call' \in Calls /\ call'.at # "parse")
    PROVE  StreamInv'
BY DEF StreamInv, TypeInv, Ascending, InStep, NotEmpty, KeptResponsesWhole, RightResponse,
   NothingDropped, Start, Response, Found, NoLength, Body, Speaks

LEMMA AnswerStream ==
    ASSUME StreamInv, Answer
    PROVE  StreamInv'
<1>1. PICK b \in workload.bodies : ends' = Append(ends, Start(Len(ends) + 1) + HeaderSize + b)
  BY DEF Answer
<1>2. UNCHANGED <<workload, arrived, leftStart, leftEnd, responses, call, handed>>
  BY DEF Answer
<1>3. b \in Nat /\ HeaderSize \in Nat \ {0}
  BY ClientAssumption DEF StreamInv, TypeInv
<1>4. Len(ends) \in Nat /\ Start(Len(ends) + 1) \in Nat
  BY Starts DEF StreamInv, TypeInv
<1> DEFINE new == Start(Len(ends) + 1) + HeaderSize + b
<1>5. new \in Nat /\ new > Start(Len(ends) + 1)
  BY <1>3, <1>4
<1> HIDE DEF new
<1>6. /\ ends' \in Seq(Nat) /\ Len(ends') = Len(ends) + 1
      /\ \A t \in 1 .. Len(ends) : ends'[t] = ends[t]
      /\ ends'[Len(ends) + 1] = new
  BY <1>1, <1>5 DEF StreamInv, TypeInv, new
<1>7. \A t \in 1 .. Len(ends) : ends[t] <= Start(Len(ends) + 1)
  <2> SUFFICES ASSUME NEW t \in 1 .. Len(ends) PROVE ends[t] <= Start(Len(ends) + 1)
    OBVIOUS
  <2>1. Start(Len(ends) + 1) = ends[Len(ends)] /\ (t = Len(ends) \/ t < Len(ends))
    BY <1>4 DEF Start
  <2>2. ends[t] \in Nat /\ ends[Len(ends)] \in Nat /\ Len(ends) \in 1 .. Len(ends)
    BY <1>4 DEF StreamInv, TypeInv
  <2>3. QED
    BY <2>1, <2>2 DEF StreamInv, Ascending
<1>8. \A t \in 1 .. Len(ends) + 1 : Start(t)' = Start(t)
  BY <1>4, <1>6 DEF Start
<1>9. TypeInv' /\ NotEmpty'
  BY <1>2, <1>6 DEF StreamInv, TypeInv, NotEmpty
<1>10. Ascending'
  <2>1. \A t \in 1 .. Len(ends') : t \in 1 .. Len(ends) \/ t = Len(ends) + 1
    BY <1>4, <1>6
  <2>2. \A t \in 1 .. Len(ends) : ends[t] \in Nat /\ ends[t] < new
    BY <1>4, <1>5, <1>7 DEF StreamInv, TypeInv
  <2>3. \A t \in 1 .. Len(ends') : ends'[t] > 0
    BY <1>4, <1>5, <1>6, <2>1 DEF StreamInv, Ascending
  <2>4. ASSUME NEW t \in 1 .. Len(ends'), NEW u \in 1 .. Len(ends'), t < u
        PROVE  ends'[t] < ends'[u]
    <3>1. t \in 1 .. Len(ends)
      BY <1>4, <1>6, <2>4
    <3>2. CASE u \in 1 .. Len(ends)
      BY <1>6, <2>4, <3>1, <3>2 DEF StreamInv, Ascending
    <3>3. CASE u = Len(ends) + 1
      BY <1>6, <2>2, <3>1, <3>3
    <3>4. QED
      BY <2>1, <3>2, <3>3
  <2>5. QED
    BY <2>3, <2>4 DEF Ascending
<1>11. InStep'
  <2>1. \E m \in 0 .. Len(ends') : leftStart' = Start(m + 1)'
    <3>1. PICK m \in 0 .. Len(ends) : leftStart = Start(m + 1)
      BY DEF StreamInv, InStep
    <3>2. m \in 0 .. Len(ends') /\ m + 1 \in 1 .. Len(ends) + 1
      BY <1>4, <1>6
    <3>3. QED
      BY <1>2, <1>8, <3>1, <3>2
  <2>2. ASSUME arrived' > 0 PROVE ends' # <<>> /\ arrived' <= ends'[Len(ends')]
    <3>1. arrived <= Start(Len(ends) + 1)
      BY <1>2, <1>4, <2>2 DEF StreamInv, InStep, Start
    <3>2. ends' # <<>> /\ ends'[Len(ends')] = new
      BY <1>4, <1>6
    <3>3. QED
      BY <1>2, <1>4, <1>5, <3>1, <3>2 DEF StreamInv, TypeInv
  <2>3. QED
    BY <2>1, <2>2 DEF InStep
<1>12. \A t \in 1 .. Len(ends) : Response(t)' = Response(t) /\ t \in 1 .. Len(ends')
  BY <1>4, <1>6, <1>8 DEF Response
<1>13. KeptResponsesWhole' /\ RightResponse'
  <2>1. KeptResponsesWhole'
    BY <1>2, <1>12 DEF StreamInv, KeptResponsesWhole
  <2>2. ASSUME NEW h \in handed
        PROVE  h.token \in 1 .. Len(ends') /\ RightBody(h)'
    <3>1. h.token \in 1 .. Len(ends) /\ RightBody(h)
      BY RightBodies DEF StreamInv
    <3>2. Response(h.token)' = Response(h.token) /\ h.token \in 1 .. Len(ends')
      BY <1>12, <3>1
    <3>3. QED
      BY <1>2, <3>1, <3>2, SameBody
  <2>3. QED
    BY <1>2, <2>1, <2>2 DEF RightResponse, RightBody
<1>14. NothingDropped'
  <2> SUFFICES ASSUME NEW t \in 1 .. Len(ends'), ends'[t] <= leftStart'
               PROVE  Found(t)' # {} \/ \E h \in handed' : h.token = t
    BY DEF NothingDropped
  <2>1. leftStart <= Start(Len(ends) + 1) /\ leftStart \in Nat
    <3>1. PICK m \in 0 .. Len(ends) : leftStart = Start(m + 1)
      BY DEF StreamInv, InStep
    <3>2. CASE m = 0
      BY <1>4, <3>1, <3>2 DEF Start
    <3>3. CASE m # 0
      <4>1. m \in 1 .. Len(ends) /\ Start(m + 1) = ends[m]
        BY <1>4, <3>3 DEF Start
      <4>2. ends[m] <= Start(Len(ends) + 1)
        BY <1>7, <4>1
      <4>3. QED
        BY <3>1, <4>1, <4>2 DEF StreamInv, TypeInv
    <3>4. QED
      BY <3>2, <3>3 DEF StreamInv, TypeInv
  <2>2. t # Len(ends) + 1
    BY <1>2, <1>4, <1>5, <1>6, <2>1
  <2>3. t \in 1 .. Len(ends) /\ ends[t] <= leftStart
    BY <1>2, <1>4, <1>6, <2>2
  <2>4. QED
    BY <1>2, <2>3 DEF StreamInv, NothingDropped, Found
<1>15. QED
  BY <1>9, <1>10, <1>11, <1>13, <1>14 DEF StreamInv

LEMMA ArriveStream ==
    ASSUME StreamInv, Arrive
    PROVE  StreamInv'
<1>1. /\ ends # <<>> /\ arrived' \in (arrived + 1) .. ends[Len(ends)]
      /\ UNCHANGED <<workload, ends, leftStart, leftEnd, responses, call, handed>>
  BY DEF Arrive
<1>2. TypeInv' /\ InStep'
  BY <1>1 DEF StreamInv, TypeInv, InStep, Start
<1>3. QED
  BY <1>1, <1>2 DEF StreamInv, Ascending, NotEmpty, KeptResponsesWhole, RightResponse,
     NothingDropped, Start, Response, Found, NoLength, Body, Speaks

LEMMA OutsideStream ==
    ASSUME StreamInv, Outside
    PROVE  StreamInv'
<1>1. CASE Answer
  BY <1>1, AnswerStream
<1>2. CASE Arrive
  BY <1>2, ArriveStream
<1>3. CASE CloseConnection
  BY <1>3, StaysStream DEF CloseConnection
<1>4. CASE WriteRequest
  BY <1>4, StaysStream DEF WriteRequest
<1>5. ASSUME NEW t \in Tokens, GetResponse(t) \/ HasResponse(t)
      PROVE  StreamInv'
  <2>1. call'.at # "parse" /\ call' \in Calls
    <3>1. t \in Nat
      BY ClientAssumption DEF Tokens
    <3>2. CASE GetResponse(t)
      <4>1. call' = [op |-> "get", token |-> t, at |-> "search", wasReceived |-> FALSE]
        BY <3>2 DEF GetResponse
      <4>2. QED
        BY <3>1, <4>1 DEF Calls
    <3>3. CASE HasResponse(t)
      <4>1. call' = [op |-> "has", token |-> t, at |-> "search", wasReceived |-> FALSE]
        BY <3>3 DEF HasResponse
      <4>2. QED
        BY <3>1, <4>1 DEF Calls
    <3>4. QED
      BY <1>5, <3>2, <3>3
  <2>2. UNCHANGED <<workload, ends, arrived, leftStart, leftEnd, responses, handed>>
    BY <1>5 DEF GetResponse, HasResponse, network
  <2>3. QED
    BY <2>1, <2>2, StaysStream
<1>6. QED
  BY <1>1, <1>2, <1>3, <1>4, <1>5 DEF Outside
-----------------------------------------------------------------------------
(***************************************************************************)
(* What the client does.                                                   *)
(***************************************************************************)
NewHanded(piece) ==
    handed \union {[op |-> call.op, token |-> call.token, body |-> HandedBody(piece)]}

\* One more body handed over, of the response to its token, is right like the others.
LEMMA MoreHanded ==
    ASSUME RightResponse, UNCHANGED <<workload, ends>>,
           NEW new, handed' = handed \union {new},
           new.token \in 1 .. Len(ends), new.body = HandedBody(Response(new.token))
    PROVE  RightResponse'
<1>1. \A t : UNCHANGED Response(t)
  BY DEF Response, Start
<1>2. ASSUME NEW h \in handed' PROVE h.token \in 1 .. Len(ends') /\ RightBody(h)
  BY RightBodies, NewBody
<1>3. ASSUME NEW h \in handed' PROVE h.token \in 1 .. Len(ends') /\ RightBody(h)'
  BY <1>1, <1>2, <1>3, SameBody
<1>4. QED
  BY <1>3 DEF RightResponse, RightBody

\* What was handed over stays right.
LEMMA NoneHanded ==
    ASSUME RightResponse, UNCHANGED <<workload, ends, handed>>
    PROVE  RightResponse'
<1>1. \A t : UNCHANGED Response(t)
  BY DEF Response, Start
<1>2. ASSUME NEW h \in handed PROVE h.token \in 1 .. Len(ends') /\ RightBody(h)'
  BY <1>1, <1>2, RightBodies, SameBody
<1>3. QED
  BY <1>2 DEF RightResponse, RightBody

LEMMA AppIsCall == Binary!App \in Calls /\ Binary!App.at = "app"
BY DEF Binary!App, Binary!None, Calls, None

\* A kept response that is read is the right one: it was kept whole.
LEMMA FindKeptStream ==
    ASSUME StreamInv, UNCHANGED <<workload, ends, arrived, leftStart, leftEnd, responses>>,
           call' \in Calls, call'.at # "parse",
           NEW e \in Found(call.token), handed' = NewHanded(Response(BeginningAt(e.piece.from)))
    PROVE  StreamInv'
<1>1. e.token = call.token /\ e.token \in 1 .. Len(ends) /\ e.piece = Response(e.token)
  BY DEF Found, StreamInv, KeptResponsesWhole
<1>2. BeginningAt(e.piece.from) = e.token
  BY <1>1, Beginning DEF StreamInv, Response
<1>3. RightResponse'
  BY <1>1, <1>2, MoreHanded DEF StreamInv, NewHanded
<1>4. NothingDropped'
  BY DEF StreamInv, NothingDropped, NewHanded, Found
<1>5. QED
  BY <1>3, <1>4 DEF StreamInv, TypeInv, Ascending, InStep, NotEmpty, KeptResponsesWhole,
     Start, Response

LEMMA ReadSomeStream ==
    ASSUME StreamInv, ReadSome
    PROVE  StreamInv'
<1>1. /\ arrived > leftEnd
      /\ leftEnd' = IF arrived - leftEnd > ReadSize THEN leftEnd + ReadSize ELSE arrived
      /\ call' = [call EXCEPT !.at = "parse"]
      /\ UNCHANGED <<workload, ends, arrived, leftStart, responses, handed>>
  BY DEF ReadSome, network
<1>2. leftEnd' \in Nat /\ leftEnd < leftEnd' /\ leftEnd' <= arrived
  BY <1>1, ClientAssumption DEF StreamInv, TypeInv
<1>3. call' \in Calls
  BY <1>1 DEF StreamInv, TypeInv, Calls
<1>4. TypeInv' /\ NotEmpty'
  BY <1>1, <1>2, <1>3 DEF StreamInv, TypeInv, NotEmpty
<1>5. RightResponse'
  BY <1>1, NoneHanded DEF StreamInv
<1>6. QED
  BY <1>1, <1>4, <1>5 DEF StreamInv, Ascending, InStep, KeptResponsesWhole,
     NothingDropped, Start, Response, Found

\* A response is cut off _leftovers: they begin with the next one, and it is not
\* dropped if it was handed over or kept.
LEMMA CutOffStream ==
    ASSUME StreamInv, NEW f \in 1 .. Len(ends), leftStart = Start(f), leftEnd >= ends[f],
           UNCHANGED <<workload, ends, arrived, leftEnd>>,
           leftStart' = ends[f], NEW received \in BOOLEAN,
           call' = [call EXCEPT !.wasReceived = received, !.at = AfterResponse(ends[f], received)],
           KeptResponsesWhole', RightResponse',
           responses \subseteq responses', handed \subseteq handed',
           Found(f)' # {} \/ \E h \in handed' : h.token = f
    PROVE  StreamInv'
<1>1. leftStart = Start(f)
  OBVIOUS
<1>2. ends[f] \in Nat /\ Len(ends) \in Nat /\ leftStart' = ends[f] /\ ends[f] <= leftEnd
  BY <1>1 DEF StreamInv, TypeInv
<1>3. call' \in Calls /\ (call'.at = "parse" => leftEnd > ends[f])
  BY <1>1, <1>2 DEF StreamInv, TypeInv, Calls, AfterResponse
<1>4. TypeInv' /\ NotEmpty'
  BY <1>2, <1>3 DEF StreamInv, TypeInv, NotEmpty
<1>5. InStep'
  <2>1. f \in 0 .. Len(ends) /\ Start(f + 1) = ends[f] /\ Start(f + 1)' = Start(f + 1)
    BY <1>2 DEF Start
  <2>2. QED
    BY <1>2, <2>1 DEF StreamInv, InStep
<1>6. NothingDropped'
  <2> SUFFICES ASSUME NEW t \in 1 .. Len(ends), ends[t] <= ends[f]
               PROVE  Found(t)' # {} \/ \E h \in handed' : h.token = t
    BY <1>2 DEF NothingDropped
  <2>1. CASE t = f
    BY <1>1, <2>1
  <2>2. CASE t # f
    <3>1. t < f
      <4>1. f < t => ends[f] < ends[t]
        BY DEF StreamInv, Ascending
      <4>2. ends[t] \in Nat
        BY DEF StreamInv, TypeInv
      <4>3. t < f \/ f < t
        BY <1>2, <2>2
      <4>4. QED
        BY <1>2, <4>1, <4>2, <4>3
    <3>2. ends[t] <= leftStart
      BY <1>1, <1>2, <3>1, Starts DEF StreamInv
    <3>3. Found(t) # {} \/ \E h \in handed : h.token = t
      BY <3>2 DEF StreamInv, NothingDropped
    <3>4. QED
      BY <3>3 DEF Found
  <2>3. QED
    BY <2>1, <2>2
<1>7. QED
  BY <1>4, <1>5, <1>6 DEF StreamInv, Ascending

LEMMA TakeStream ==
    ASSUME StreamInv, call.at = "parse", Front = call.token, leftEnd >= ends[Front],
           ReaderOK(Response(Front))
    PROVE  StreamInv'
<1>1. PICK f \in 1 .. Len(ends) : Front = f /\ leftStart = Start(f)
  BY FrontLemma DEF StreamInv, NotEmpty
<1> DEFINE new == [op |-> call.op, token |-> call.token, body |-> HandedBody(Response(f))]
<1>2. /\ handed' = handed \union {new}
      /\ leftStart' = ends[f]
      /\ call' = [call EXCEPT !.wasReceived = TRUE, !.at = AfterResponse(ends[f], TRUE)]
      /\ UNCHANGED <<workload, ends, arrived, leftEnd, responses>>
  BY <1>1 DEF ReaderOK, Handing, Response, network
<1>3. new.token = f /\ new.body = HandedBody(Response(f))
  BY <1>1
<1>4. \A t : Response(t)' = Response(t)
  BY <1>2 DEF Response, Start
<1> HIDE DEF new
<1>5. KeptResponsesWhole'
  BY <1>2, <1>4 DEF StreamInv, KeptResponsesWhole
<1>6. RightResponse'
  BY <1>2, <1>3, MoreHanded DEF StreamInv
<1>7. handed \subseteq handed' /\ \E h \in handed' : h.token = f
  BY <1>2, <1>3
<1>8. leftEnd >= ends[f]
  BY <1>1
<1>9. QED
  BY <1>1, <1>2, <1>5, <1>6, <1>7, <1>8, CutOffStream

LEMMA KeepStream ==
    ASSUME StreamInv, call.at = "parse", leftEnd >= ends[Front],
           ReaderWrongReply(Front, Response(Front))
    PROVE  StreamInv'
<1>1. PICK f \in 1 .. Len(ends) : Front = f /\ leftStart = Start(f)
  BY FrontLemma DEF StreamInv, NotEmpty
<1> DEFINE new == Entry(f, Response(f))
<1>2. /\ responses' = IF Found(f) = {} THEN responses \union {new} ELSE responses
      /\ leftStart' = ends[f]
      /\ call' = [call EXCEPT !.at = AfterResponse(ends[f], call.wasReceived)]
      /\ UNCHANGED <<workload, ends, arrived, leftEnd, handed>>
  BY <1>1 DEF ReaderWrongReply, Kept, Response, network
<1>3. /\ call.wasReceived \in BOOLEAN
      /\ call' = [call EXCEPT !.wasReceived = call.wasReceived,
                              !.at = AfterResponse(ends[f], call.wasReceived)]
  BY <1>2 DEF StreamInv, TypeInv, Calls
<1>4. new.token = f /\ new.piece = Response(f)
  BY DEF Entry
<1>5. \A t : Response(t)' = Response(t)
  BY <1>2 DEF Response, Start
<1> HIDE DEF new
<1>6. KeptResponsesWhole'
  BY <1>2, <1>4, <1>5 DEF StreamInv, KeptResponsesWhole
<1>7. RightResponse'
  BY <1>2, NoneHanded DEF StreamInv
<1>8. responses \subseteq responses'
  BY <1>2
<1>9. Found(f)' # {}
  BY <1>2, <1>4 DEF Found
<1>10. leftEnd >= ends[f]
  BY <1>1
<1>11. QED
  BY <1>1, <1>2, <1>3, <1>6, <1>7, <1>8, <1>9, <1>10, CutOffStream
-----------------------------------------------------------------------------
(***************************************************************************)
(* The steps of the two clients, in the words of SyncNetworkClient.        *)
(***************************************************************************)
Rests ==
    /\ UNCHANGED <<workload, ends, arrived, leftStart, leftEnd, responses, handed>>
    /\ call'.at # "parse" /\ call' \in Calls

Rereads ==
    /\ UNCHANGED <<workload, ends, arrived, leftStart, leftEnd, responses>>
    /\ call'.at # "parse" /\ call' \in Calls
    /\ \E e \in Found(call.token) : handed' = NewHanded(Response(BeginningAt(e.piece.from)))

Takes ==
    /\ call.at = "parse" /\ Front = call.token /\ leftEnd >= ends[Front]
    /\ ReaderOK(Response(Front))

Keeps ==
    /\ call.at = "parse" /\ leftEnd >= ends[Front]
    /\ ReaderWrongReply(Front, Response(Front))

Throws ==
    /\ call.at = "parse" /\ Front = call.token
    /\ UNCHANGED <<workload, ends, arrived, leftStart, leftEnd, responses>>
    /\ call' = App /\ handed' = NewHanded(Response(Front))

\* A response that is found in _responses is found whole: no logicError().
LEMMA FoundWhole ==
    ASSUME StreamInv, NEW e \in Found(call.token)
    PROVE  Whole(e.piece)
<1>1. e.token \in 1 .. Len(ends) /\ e.piece = Response(e.token)
  BY DEF Found, StreamInv, KeptResponsesWhole
<1>2. BeginningAt(e.piece.from) = e.token /\ e.piece.to = ends[e.token]
  BY <1>1, Beginning DEF StreamInv, Response
<1>3. ends[e.token] \in Nat /\ e.token # 0
  BY <1>1 DEF StreamInv, TypeInv
<1>4. QED
  BY <1>2, <1>3 DEF Whole, None

LEMMA FindKeptRereads ==
    ASSUME StreamInv, FindKept
    PROVE  Rereads
<1>1. PICK e \in Found(call.token) :
          IF Whole(e.piece)
          THEN /\ Handing(Response(BeginningAt(e.piece.from)))
               /\ call' = [call EXCEPT !.at = "done", !.wasReceived = TRUE]
          ELSE /\ call' = [call EXCEPT !.at = "exception"]
               /\ UNCHANGED handed
  BY DEF FindKept
<1>2. /\ handed' = NewHanded(Response(BeginningAt(e.piece.from)))
      /\ call' = [call EXCEPT !.at = "done", !.wasReceived = TRUE]
  BY <1>1, FoundWhole DEF Handing, NewHanded
<1>3. call'.at # "parse" /\ call' \in Calls
  BY <1>2 DEF StreamInv, TypeInv, Calls
<1>4. UNCHANGED <<workload, ends, arrived, leftStart, leftEnd, responses>>
  BY DEF FindKept, network
<1>5. QED
  BY <1>2, <1>3, <1>4 DEF Rereads

LEMMA ClientThrows ==
    ASSUME StreamInv, Throws
    PROVE  StreamInv'
<1> DEFINE new == [op |-> call.op, token |-> call.token, body |-> HandedBody(Response(Front))]
<1>1. PICK f \in 1 .. Len(ends) : Front = f
  BY FrontLemma DEF StreamInv, NotEmpty, Throws
<1>2. handed' = handed \union {new} /\ new.token = f /\ new.body = HandedBody(Response(f))
  BY <1>1 DEF Throws, NewHanded
<1>3. call' \in Calls /\ call'.at = "app"
  BY DEF Throws, App, None, Calls
<1>4. UNCHANGED <<workload, ends, arrived, leftStart, leftEnd, responses>>
  BY DEF Throws
<1>5. \A t : Response(t)' = Response(t)
  BY <1>4 DEF Response, Start
<1> HIDE DEF new
<1>6. RightResponse'
  BY <1>2, <1>4, MoreHanded DEF StreamInv
<1>7. NothingDropped'
  BY <1>2, <1>4 DEF StreamInv, NothingDropped, Found
<1>8. QED
  BY <1>3, <1>4, <1>6, <1>7 DEF StreamInv, TypeInv, Ascending, InStep, NotEmpty,
     KeptResponsesWhole, Start, Response

LEMMA StepsStream ==
    ASSUME StreamInv, Rests \/ Rereads \/ ReadSome \/ Takes \/ Keeps \/ Throws
    PROVE  StreamInv'
<1>1. CASE Rests
  BY <1>1, StaysStream DEF Rests
<1>2. CASE Rereads
  <2>1. PICK e \in Found(call.token) :
               handed' = NewHanded(Response(BeginningAt(e.piece.from)))
    BY <1>2 DEF Rereads
  <2>2. QED
    BY <1>2, <2>1, FindKeptStream DEF Rereads
<1>3. CASE ReadSome
  BY <1>3, ReadSomeStream
<1>4. CASE Takes
  BY <1>4, TakeStream DEF Takes
<1>5. CASE Keeps
  BY <1>5, KeepStream DEF Keeps
<1>6. CASE Throws
  BY <1>6, ClientThrows
<1>7. QED
  BY <1>1, <1>2, <1>3, <1>4, <1>5, <1>6

LEMMA BinaryTakes ==
    ASSUME Binary!TakeResponse
    PROVE  Takes
BY DEF Binary!TakeResponse, Binary!Parsing, Binary!Complete, Binary!AskedFor,
   Binary!Front, Binary!BeginningAt, Binary!Start, Binary!None, Binary!Response,
   Binary!ReaderOK, Binary!Handing, Binary!HandedBody, Binary!Body, Binary!NoLength,
   Binary!Speaks, Binary!AfterResponse, Binary!network,
   Front, BeginningAt, Start, None, Response, ReaderOK, Handing, HandedBody, Body, NoLength,
   Speaks, AfterResponse, network, Takes

LEMMA BinaryKeeps ==
    ASSUME Binary!KeepResponse
    PROVE  Keeps
BY DEF Binary!KeepResponse, Binary!Parsing, Binary!Complete,
   Binary!Front, Binary!BeginningAt, Binary!Start, Binary!None, Binary!Response,
   Binary!ReaderWrongReply, Binary!Kept, Binary!Found, Binary!Entry,
   Binary!AfterResponse, Binary!network,
   Front, BeginningAt, Start, None, Response, ReaderWrongReply, Kept, Found, Entry,
   AfterResponse, network, Keeps

LEMMA BinarySteps ==
    ASSUME StreamInv, Binary!BinaryNext
    PROVE  Rests \/ Rereads \/ ReadSome \/ Takes \/ Keeps
<1> call \in Calls
  BY DEF StreamInv, TypeInv
<1>1. CASE Binary!FindKept
  <2>1. FindKept
    BY <1>1 DEF Binary!FindKept, Binary!Found, Binary!Whole, Binary!Handing, Binary!Response,
       Binary!BeginningAt, Binary!Start, Binary!None, Binary!network, Binary!HandedBody,
       Binary!Body, Binary!NoLength, Binary!Speaks,
       FindKept, Found, Whole, Handing, Response, BeginningAt, Start, None, network,
       HandedBody, Body, NoLength, Speaks
  <2>2. QED
    BY <2>1, FindKeptRereads
<1>2. CASE Binary!FindNothing \/ Binary!ReadNothing \/ Binary!FailToRead
  <2>1. call' \in {[call EXCEPT !.at = "read"], [call EXCEPT !.at = "done"], Binary!App}
    BY <1>2 DEF Binary!FindNothing, Binary!ReadNothing, Binary!FailToRead,
       Binary!NothingAvailable, Binary!ReadFails
  <2>2. UNCHANGED <<workload, ends, arrived, leftStart, leftEnd, responses, handed>>
    BY <1>2 DEF Binary!FindNothing, Binary!ReadNothing, Binary!FailToRead,
       Binary!NothingAvailable, Binary!ReadFails, Binary!network
  <2>3. QED
    BY <2>1, <2>2, AppIsCall DEF Calls, Rests
<1>3. CASE Binary!ReadSome
  BY <1>3 DEF Binary!ReadSome, ReadSome, Binary!network, network
<1>4. CASE Binary!ReadOn \/ Binary!ReturnAnyhow
  <2>1. call' \in {[call EXCEPT !.at = "done"], Binary!App}
    BY <1>4 DEF Binary!ReadOn, Binary!ReaderReadOn, Binary!ReturnAnyhow, Binary!Return
  <2>2. UNCHANGED <<workload, ends, arrived, leftStart, leftEnd, responses, handed>>
    BY <1>4 DEF Binary!ReadOn, Binary!ReaderReadOn, Binary!ReturnAnyhow, Binary!Return,
       Binary!network
  <2>3. QED
    BY <2>1, <2>2, AppIsCall DEF Calls, Rests
<1>5. CASE Binary!TakeResponse
  BY <1>5, BinaryTakes
<1>6. CASE Binary!KeepResponse
  BY <1>6, BinaryKeeps
<1>7. QED
  BY <1>1, <1>2, <1>3, <1>4, <1>5, <1>6 DEF Binary!BinaryNext, Binary!Socket

\* The response at the front is the next one to be counted.
LEMMA CountedFront ==
    ASSUME StreamInv, Counting, Speaks("http"), call.at = "parse"
    PROVE  /\ Front \in 1 .. Len(ends) /\ leftStart = Start(Front)
           /\ Front = lastTokenRead + 1
<1>1. PICK f \in 1 .. Len(ends) : Front = f /\ leftStart = Start(f)
  BY FrontLemma DEF StreamInv, NotEmpty
<1>2. /\ lastTokenRead + 1 \in 1 .. Len(ends) + 1 /\ f \in 1 .. Len(ends) + 1
      /\ leftStart = Start(lastTokenRead + 1)
  BY DEF StreamInv, TypeInv, Counting, CountFollowsFraming, Start
<1> DEFINE n == lastTokenRead + 1
<1> HIDE DEF n
<1>3. n \in 1 .. Len(ends) + 1 /\ Start(n) = Start(f)
  BY <1>1, <1>2 DEF n
<1>4. Start(f) \in Nat /\ (f < n => Start(f) < Start(n)) /\ (n < f => Start(n) < Start(f))
  BY <1>2, <1>3, Starts DEF StreamInv
<1>5. f = n
  BY <1>2, <1>3, <1>4
<1>6. QED
  BY <1>1, <1>5 DEF n

\* The reader of HTTP cuts off what the response at the front is.
LEMMA Measured ==
    ASSUME StreamInv, Counting, Speaks("http"), call.at = "parse"
    PROVE  /\ FrameSize = ends[Front] - leftStart /\ FrameSize \in Nat \ {0}
           /\ Frame = Response(Front) /\ ~ParsesOn
           /\ Complete => leftEnd >= ends[Front]
           /\ ~Complete /\ malformed = None =>
                leftEnd - leftStart < HeaderSize \/ leftEnd < ends[Front]
           /\ AskedFor <=> Front = call.token
<1>1. Front \in 1 .. Len(ends) /\ leftStart = Start(Front) /\ Front = lastTokenRead + 1
  BY CountedFront
<1>2. /\ leftStart \in Nat /\ leftEnd \in Nat /\ ends[Front] \in Nat /\ leftStart < ends[Front]
      /\ HeaderSize \in Nat \ {0} /\ frame \in Nat
  BY <1>1, Starts, ClientAssumption DEF StreamInv, TypeInv, Counting
<1>3. frame # 0 => frame = ends[Front] - leftStart /\ frame # HeaderSize
  <2> SUFFICES ASSUME frame # 0 PROVE frame = ends[Front] - leftStart /\ frame # HeaderSize
    OBVIOUS
  <2>1. PICK b \in Nat \ {0} : OneSize(b) /\ frame = HeaderSize + b
    BY DEF Counting
  <2>2. ends[Front] = Start(Front) + HeaderSize + b
    BY <1>1, <2>1 DEF Counting, OneSize
  <2>3. QED
    BY <1>1, <1>2, <2>1, <2>2
<1>4. FrameSize = ends[Front] - leftStart
  BY <1>3 DEF FrameSize
<1>5. leftStart + FrameSize = ends[Front] /\ FrameSize \in Nat \ {0}
  BY <1>2, <1>4
<1>6. Frame = Response(Front)
  BY <1>1, <1>5 DEF Frame, Response
<1>7. ~ParsesOn
  BY <1>2, <1>3 DEF ParsesOn
<1>8. Front # None
  BY <1>1 DEF None
<1>9. Complete => leftEnd >= ends[Front]
  <2> SUFFICES ASSUME Complete PROVE leftEnd >= ends[Front]
    OBVIOUS
  <2>1. leftEnd - leftStart >= FrameSize
    <3>1. CASE frame # 0
      BY <1>3, <1>4, <3>1 DEF Complete, Left
    <3>2. CASE frame = 0
      BY <3>2 DEF Complete, Left, HeaderKnown
    <3>3. QED
      BY <3>1, <3>2
  <2>2. QED
    BY <1>2, <1>4, <2>1
<1>10. ~Complete /\ malformed = None =>
          leftEnd - leftStart < HeaderSize \/ leftEnd < ends[Front]
  <2> SUFFICES ASSUME malformed = None, ~(leftEnd - leftStart < HeaderSize), ~(leftEnd < ends[Front])
               PROVE  Complete
    OBVIOUS
  <2>1. leftEnd - leftStart >= HeaderSize /\ leftEnd - leftStart >= FrameSize
    BY <1>2, <1>4
  <2>2. QED
    BY <1>7, <1>8, <2>1 DEF Complete, HeaderKnown, Left
<1>11. AskedFor <=> Front = call.token
  BY <1>1 DEF AskedFor
<1>12. QED
  BY <1>4, <1>5, <1>6, <1>7, <1>9, <1>10, <1>11

LEMMA AppOfCalls == App \in Calls /\ App.at = "app"
BY DEF App, None, Calls

\* The exception for a frame longer than what is left is not thrown.
LEMMA HttpKeeps ==
    ASSUME StreamInv, Counting, KeepResponse
    PROVE  Keeps
<1>1. Parsing /\ Complete
  BY DEF KeepResponse
<1>2. Speaks("http") /\ call.at = "parse"
  BY <1>1 DEF Parsing
<1>3. /\ FrameSize = ends[Front] - leftStart /\ leftEnd >= ends[Front]
      /\ Frame = Response(Front)
  BY <1>1, <1>2, Measured
<1>4. Front \in 1 .. Len(ends) /\ Front = lastTokenRead + 1
  BY <1>2, CountedFront
<1>5. leftStart \in Nat /\ leftEnd \in Nat /\ ends[Front] \in Nat
  BY <1>4 DEF StreamInv, TypeInv
<1>6. FrameSize <= Left
  BY <1>3, <1>5 DEF Left
<1>7. ReaderWrongReply(lastTokenRead + 1, Frame)
  BY <1>6 DEF KeepResponse
<1>8. QED
  BY <1>2, <1>3, <1>4, <1>7 DEF Keeps

LEMMA HttpTakes ==
    ASSUME StreamInv, Counting, TakeResponse
    PROVE  Takes
<1>1. Parsing /\ Complete /\ AskedFor /\ ReaderOK(Frame)
  BY DEF TakeResponse
<1>2. Speaks("http") /\ call.at = "parse"
  BY <1>1 DEF Parsing
<1>3. Frame = Response(Front) /\ leftEnd >= ends[Front] /\ Front = call.token
  BY <1>1, <1>2, Measured
<1>4. QED
  BY <1>1, <1>2, <1>3 DEF Takes

LEMMA HttpSteps ==
    ASSUME StreamInv, Counting, HttpNext
    PROVE  Rests \/ Rereads \/ ReadSome \/ Takes \/ Keeps \/ Throws
<1> call \in Calls
  BY DEF StreamInv, TypeInv
<1>1. CASE StartSearch
  BY <1>1 DEF StartSearch, FindNothing, network, Rests, Calls
<1>2. CASE Socket
  <2>1. CASE FindKept /\ ~KeptMalformed
    BY <2>1, FindKeptRereads
  <2>2. CASE ReadFails
    BY <2>2, AppOfCalls DEF ReadFails, network, Rests
  <2>3. QED
    BY <1>2, <2>1, <2>2 DEF Socket
<1>3. CASE ReadOn
  BY <1>3 DEF ReadOn, ReaderReadOn, network, Rests, Calls
<1>4. CASE TakeResponse
  BY <1>4, HttpTakes
<1>5. CASE TakeError
  <2>1. Parsing /\ AskedFor /\ Handing(Frame)
    BY <1>5 DEF TakeError
  <2>2. Speaks("http") /\ call.at = "parse"
    BY <2>1 DEF Parsing
  <2>3. Frame = Response(Front) /\ Front = call.token
    BY <2>1, <2>2, Measured
  <2>4. UNCHANGED <<workload, ends, arrived, leftStart, leftEnd, responses>> /\ call' = App
    BY <1>5 DEF TakeError, network
  <2>5. QED
    BY <2>1, <2>2, <2>3, <2>4 DEF Throws, Handing, NewHanded
<1>6. CASE KeepResponse
  BY <1>6, HttpKeeps
<1>7. CASE SearchAgain
  BY <1>7 DEF SearchAgain, network, Rests, Calls
<1>8. CASE ReturnDone
  BY <1>8, AppOfCalls DEF ReturnDone, Return, network, Rests
<1>9. CASE GiveUp \/ FindMalformed
  BY <1>9 DEF GiveUp, FindMalformed, Disconnect, network, Rests, Calls
<1>10. QED
  BY <1>1, <1>2, <1>3, <1>4, <1>5, <1>6, <1>7, <1>8, <1>9 DEF HttpNext

LEMMA StepStream ==
    ASSUME StreamInv, Counting, [Next]_vars
    PROVE  StreamInv'
<1>1. CASE Outside
  BY <1>1, OutsideStream
<1>2. CASE Binary!BinaryNext
  BY <1>2, BinarySteps, StepsStream
<1>3. CASE HttpNext
  BY <1>3, HttpSteps, StepsStream
<1>4. CASE UNCHANGED vars
  BY <1>4, StaysStream DEF vars
<1>5. QED
  BY <1>1, <1>2, <1>3, <1>4 DEF Next, Client
-----------------------------------------------------------------------------
(***************************************************************************)
(* What was asked for.                                                     *)
(***************************************************************************)
\* A step of a client is a step of the call in progress.
WithinCall ==
    /\ UNCHANGED <<workload, written, ends, malformed, arrived, closed, polls>>
    /\ call.at # "app"
    /\ \/ call'.token = call.token /\ returned' = returned
       \/ call'.at = "app" /\ returned' \in {returned, returned \union {call.token}}
    /\ \/ responses' = responses
       \/ \E t \in Nat, piece \in {Frame, Response(Front)} : responses' = Kept(t, piece)

LEMMA HttpWithinCall ==
    ASSUME call \in Calls, lastTokenRead \in Nat, HttpNext
    PROVE  WithinCall
<1>1. App.at = "app"
  BY DEF App
<1>2. CASE StartSearch
  BY <1>2 DEF StartSearch, FindNothing, network, WithinCall, Calls
<1>3. CASE Socket
  <2>1. CASE FindKept
    BY <2>1 DEF FindKept, network, WithinCall, Calls
  <2>2. CASE ReadSome
    BY <2>2 DEF ReadSome, network, WithinCall, Calls
  <2>3. CASE ReadFails
    BY <1>1, <2>3 DEF ReadFails, network, WithinCall
  <2>4. QED
    BY <1>3, <2>1, <2>2, <2>3 DEF Socket
<1>4. CASE ReadOn
  BY <1>4 DEF ReadOn, ReaderReadOn, network, WithinCall, Calls
<1>5. CASE TakeResponse
  BY <1>5 DEF TakeResponse, ReaderOK, network, WithinCall, Calls
<1>6. CASE TakeError
  BY <1>1, <1>6 DEF TakeError, Parsing, network, WithinCall
<1>7. CASE KeepResponse
  <2>1. CASE ReaderWrongReply(lastTokenRead + 1, Frame)
    BY <2>1 DEF ReaderWrongReply, network, WithinCall, Calls
  <2>2. CASE /\ call' = [call EXCEPT !.at = "exception"]
             /\ UNCHANGED <<workload, network, leftStart, leftEnd, responses, handed,
                            returned, polls>>
    BY <1>7, <2>2 DEF KeepResponse, Parsing, network, WithinCall, Calls
  <2>3. QED
    BY <1>7, <2>1, <2>2 DEF KeepResponse
<1>8. CASE SearchAgain
  BY <1>8 DEF SearchAgain, network, WithinCall, Calls
<1>9. CASE ReturnDone
  BY <1>1, <1>9 DEF ReturnDone, Return, network, WithinCall
<1>10. CASE GiveUp \/ FindMalformed
  BY <1>10 DEF GiveUp, FindMalformed, Parsing, Disconnect, network, WithinCall, Calls
<1>11. QED
  BY <1>2, <1>3, <1>4, <1>5, <1>6, <1>7, <1>8, <1>9, <1>10 DEF HttpNext

LEMMA BinaryWithinCall ==
    ASSUME StreamInv, Binary!BinaryNext
    PROVE  WithinCall
<1> call \in Calls
  BY DEF StreamInv, TypeInv
<1>1. Binary!App.at = "app"
  BY DEF Binary!App
<1>2. CASE Binary!FindKept
  BY <1>2 DEF Binary!FindKept, Binary!network, WithinCall, Calls
<1>3. CASE Binary!FindNothing
  BY <1>3 DEF Binary!FindNothing, Binary!network, WithinCall, Calls
<1>4. CASE Binary!ReadSome
  BY <1>4 DEF Binary!ReadSome, Binary!network, WithinCall, Calls
<1>5. CASE Binary!ReadNothing
  BY <1>5 DEF Binary!ReadNothing, Binary!NothingAvailable, Binary!network, WithinCall, Calls
<1>6. CASE Binary!FailToRead
  BY <1>1, <1>6 DEF Binary!FailToRead, Binary!ReadFails, Binary!network, WithinCall
<1>7. CASE Binary!ReadOn
  BY <1>7 DEF Binary!ReadOn, Binary!ReaderReadOn, Binary!network, WithinCall, Calls
<1>8. CASE Binary!TakeResponse
  BY <1>8 DEF Binary!TakeResponse, Binary!ReaderOK, Binary!network, WithinCall, Calls
<1>9. CASE Binary!KeepResponse
  <2>1. call.at = "parse" /\ ReaderWrongReply(Front, Response(Front))
    BY <1>9, BinaryKeeps DEF Keeps
  <2>2. Front \in Nat
    BY <2>1, FrontLemma DEF StreamInv, NotEmpty
  <2>3. QED
    BY <2>1, <2>2 DEF ReaderWrongReply, network, WithinCall, Calls
<1>10. CASE Binary!ReturnAnyhow
  BY <1>1, <1>10 DEF Binary!ReturnAnyhow, Binary!Return, Binary!network, WithinCall
<1>11. QED
  BY <1>2, <1>3, <1>4, <1>5, <1>6, <1>7, <1>8, <1>9, <1>10 DEF Binary!BinaryNext, Binary!Socket

\* The next request is written only when all but underWay - 1 have returned.
LEMMA AllReturned ==
    ASSUME StreamInv, Bookkeeping, OneUnderWay,
           written - Cardinality(returned) < workload.underWay
    PROVE  1 .. written \subseteq returned
<1>1. written \in Nat /\ workload.underWay \in Nat
  BY ClientAssumption DEF StreamInv, TypeInv, Bookkeeping
<1> SUFFICES ASSUME written # 0, written \notin returned PROVE FALSE
  <2>1. \A t \in 1 .. written : t \in 1 .. (written - 1) \/ t = written
    BY <1>1
  <2>2. QED
    BY <1>1, <2>1 DEF Bookkeeping
<1>2. \A t \in 1 .. written : t \in 1 .. (written - 1) \/ t = written
  BY <1>1
<1>3. returned = 1 .. (written - 1)
  BY <1>2 DEF Bookkeeping
<1>4. Cardinality(returned) = written - 1
  <2>1. Cardinality(1 .. (written - 1)) = IF 1 > written - 1 THEN 0 ELSE (written - 1) - 1 + 1
    BY <1>1, FS_Interval
  <2>2. QED
    BY <1>1, <1>3, <2>1
<1>5. QED
  BY <1>1, <1>4 DEF OneUnderWay

LEMMA OutsideBookkeeping ==
    ASSUME Orderly, StreamInv, Bookkeeping, Outside
    PROVE  Bookkeeping'
<1> Requests \in Nat /\ Polls \in Nat
  BY ClientAssumption
<1>1. CASE Answer
  <2>1. PICK end : ends' = Append(ends, end)
    BY <1>1 DEF Answer
  <2>2. Len(ends') <= written
    BY <1>1, <2>1 DEF Answer, StreamInv, TypeInv, Bookkeeping
  <2>3. UNCHANGED <<workload, written, malformed, closed, responses, call, returned, polls>>
    BY <1>1 DEF Answer, Orderly
  <2>4. QED
    BY <2>2, <2>3 DEF Bookkeeping, OneUnderWay
<1>2. CASE Arrive
  BY <1>2 DEF Arrive, Bookkeeping, OneUnderWay
<1>3. CASE CloseConnection
  BY <1>3 DEF CloseConnection, Bookkeeping, OneUnderWay
<1>4. CASE WriteRequest
  <2>1. /\ call.at = "app" /\ written < Requests /\ written' = written + 1
        /\ written - Cardinality(returned) < workload.underWay
        /\ UNCHANGED <<workload, ends, malformed, closed, responses, call, returned, polls>>
    BY <1>4 DEF WriteRequest
  <2>2. written' \in 0 .. Requests /\ Len(ends') <= written' /\ returned' \subseteq 1 .. written'
    BY <2>1 DEF Bookkeeping, StreamInv, TypeInv
  <2>3. OneUnderWay => 1 .. written \subseteq returned
    BY <2>1, AllReturned
  <2>4. written' - 1 = written
    BY <2>1 DEF Bookkeeping
  <2>5. OneUnderWay' => 1 .. (written' - 1) \subseteq returned'
    BY <2>1, <2>3, <2>4 DEF OneUnderWay
  <2>6. QED
    BY <2>1, <2>2, <2>5 DEF Bookkeeping
<1>5. ASSUME NEW t \in Tokens, GetResponse(t) \/ HasResponse(t)
      PROVE  Bookkeeping'
  <2>1. /\ t <= written /\ t \notin returned /\ call'.token = t
        /\ polls' \in 0 .. Polls
        /\ UNCHANGED <<workload, written, ends, malformed, closed, responses, returned>>
    BY <1>5 DEF GetResponse, HasResponse, network, Bookkeeping
  <2>2. t \in 1 .. written
    BY <2>1 DEF Tokens, Bookkeeping
  <2>3. QED
    BY <2>1, <2>2 DEF Bookkeeping, OneUnderWay
<1>6. QED
  BY <1>1, <1>2, <1>3, <1>4, <1>5 DEF Outside

LEMMA WithinCallBookkeeping ==
    ASSUME Bookkeeping, WithinCall
    PROVE  Bookkeeping'
<1>1. call.token \in (1 .. written) \ returned
  BY DEF Bookkeeping, WithinCall
<1>2. UNCHANGED <<workload, written, ends, malformed, closed, polls>>
  BY DEF WithinCall
<1>3. returned \subseteq returned' /\ returned' \subseteq 1 .. written
  BY <1>1 DEF WithinCall, Bookkeeping
<1>4. call'.at # "app" => call'.token \in (1 .. written) \ returned'
  BY <1>1 DEF WithinCall
<1>5. \A d, e \in responses' : d.token = e.token => d = e
  <2>1. CASE responses' = responses
    BY <2>1 DEF Bookkeeping
  <2>2. ASSUME NEW t \in Nat, NEW piece, responses' = Kept(t, piece)
        PROVE  \A d, e \in responses' : d.token = e.token => d = e
    <3>1. responses' = responses \/ (Found(t) = {} /\ responses' = responses \union {Entry(t, piece)})
      BY <2>2 DEF Kept
    <3>2. Entry(t, piece).token = t
      BY DEF Entry
    <3>3. QED
      BY <3>1, <3>2 DEF Found, Bookkeeping
  <2>3. QED
    BY <2>1, <2>2 DEF WithinCall
<1>6. QED
  BY <1>2, <1>3, <1>4, <1>5 DEF Bookkeeping, OneUnderWay
-----------------------------------------------------------------------------
(***************************************************************************)
(* The count of the responses, and their sizes.                            *)
(***************************************************************************)
LEMMA SameCounting ==
    ASSUME Counting, UNCHANGED <<workload, ends, leftStart, frame, lastTokenRead>>,
           call'.at \in {"read", "parse"} => call.at \in {"read", "parse"}
    PROVE  Counting'
BY DEF Counting, CountFollowsFraming, Start, Speaks, OneSize

\* A search starts without a size, and while it reads on it ends.
LEMMA NotParsingCounting ==
    ASSUME Counting, UNCHANGED <<workload, ends, leftStart, lastTokenRead>>,
           frame' \in Nat, call'.at \in {"read", "parse"} => frame' = 0
    PROVE  Counting'
BY DEF Counting, CountFollowsFraming, Start, Speaks

LEMMA AnswerCounting ==
    ASSUME StreamInv, Counting, Answer, NotHttp
    PROVE  Counting'
<1>1. PICK b \in workload.bodies : ends' = Append(ends, Start(Len(ends) + 1) + HeaderSize + b)
  BY DEF Answer
<1>2. UNCHANGED <<workload, leftStart, call, frame, lastTokenRead>>
  BY DEF Answer, NotHttp
<1>3. Len(ends) \in Nat
  BY DEF StreamInv, TypeInv
<1>4. /\ Len(ends') = Len(ends) + 1
      /\ \A t \in 1 .. Len(ends) : ends'[t] = ends[t]
      /\ ends'[Len(ends) + 1] = Start(Len(ends) + 1) + HeaderSize + b
  BY <1>1 DEF StreamInv, TypeInv
<1>5. \A t \in 1 .. Len(ends) + 1 : Start(t)' = Start(t)
  BY <1>3, <1>4 DEF Start
<1>6. ASSUME NEW c, workload.bodies = {c}, NEW t \in 1 .. Len(ends')
      PROVE  ends'[t] = Start(t)' + HeaderSize + c
  <2>1. t \in 1 .. Len(ends) \/ t = Len(ends) + 1
    BY <1>3, <1>4
  <2>2. CASE t \in 1 .. Len(ends)
    <3>1. ends[t] = Start(t) + HeaderSize + c
      BY <1>6, <2>2 DEF Counting
    <3>2. Start(t)' = Start(t) /\ ends'[t] = ends[t]
      BY <1>3, <1>4, <1>5, <2>2
    <3>3. QED
      BY <3>1, <3>2
  <2>3. CASE t = Len(ends) + 1
    <3>1. b = c /\ Start(t)' = Start(t)
      BY <1>3, <1>5, <1>6, <2>3
    <3>2. QED
      BY <1>4, <2>3, <3>1
  <2>4. QED
    BY <2>1, <2>2, <2>3
<1>7. ASSUME Speaks("http")
      PROVE  lastTokenRead' <= Len(ends') /\ CountFollowsFraming'
  <2>1. lastTokenRead \in Nat /\ lastTokenRead <= Len(ends) /\ CountFollowsFraming
    BY <1>7 DEF Counting
  <2>2. lastTokenRead = 0 \/ lastTokenRead \in 1 .. Len(ends)
    BY <1>3, <2>1
  <2>3. QED
    BY <1>2, <1>3, <1>4, <1>7, <2>1, <2>2 DEF CountFollowsFraming, Speaks
<1>8. QED
  BY <1>2, <1>6, <1>7 DEF Counting, Speaks, OneSize

LEMMA OutsideCounting ==
    ASSUME StreamInv, Counting, Outside, NotHttp
    PROVE  Counting'
<1>1. CASE Answer
  BY <1>1, AnswerCounting
<1>2. CASE Arrive \/ CloseConnection \/ WriteRequest
  BY <1>2, SameCounting DEF Arrive, CloseConnection, WriteRequest, NotHttp
<1>3. ASSUME NEW t \in Tokens, GetResponse(t) \/ HasResponse(t)
      PROVE  Counting'
  <2>1. call'.at = "search" /\ UNCHANGED <<workload, ends, leftStart>>
    BY <1>3 DEF GetResponse, HasResponse, network
  <2>2. QED
    BY <2>1, SameCounting DEF NotHttp
<1>4. QED
  BY <1>1, <1>2, <1>3 DEF Outside

\* Without HTTP only the sizes of the responses are counted.
LEMMA BinaryCounting ==
    ASSUME StreamInv, Counting, Binary!BinaryNext, NotHttp
    PROVE  Counting'
<1>1. ~Speaks("http")
  BY DEF Binary!BinaryNext, Binary!Socket, Binary!ReadOn, Binary!TakeResponse,
     Binary!KeepResponse, Binary!ReturnAnyhow, Binary!Parsing, Binary!Speaks, Speaks
<1>2. UNCHANGED <<workload, ends>>
  BY BinaryWithinCall DEF WithinCall
<1>3. QED
  BY <1>1, <1>2 DEF Counting, Start, Speaks, NotHttp

\* When the response that was asked for is taken, either no other has been sent or
\* the next one has its size.
LEMMA TakeCounting ==
    ASSUME IInv, TakeResponse
    PROVE  Counting'
<1>1. Parsing /\ Complete /\ AskedFor /\ ReaderOK(Frame)
  BY DEF TakeResponse
<1>2. Speaks("http") /\ call.at = "parse"
  BY <1>1 DEF Parsing
<1>3. /\ Front \in 1 .. Len(ends) /\ leftStart = Start(Front)
      /\ Front = lastTokenRead + 1
  BY <1>2, CountedFront DEF IInv
<1>4. /\ FrameSize = ends[Front] - leftStart /\ FrameSize \in Nat \ {0}
      /\ Frame = Response(Front) /\ Front = call.token
  BY <1>1, <1>2, Measured DEF IInv
<1>5. /\ leftStart' = ends[Front] /\ frame' = FrameSize /\ lastTokenRead' = Front
      /\ call' = [call EXCEPT !.wasReceived = TRUE, !.at = AfterResponse(ends[Front], TRUE)]
      /\ UNCHANGED <<workload, ends>>
  BY <1>3, <1>4 DEF TakeResponse, ReaderOK, Response, Counted, network
<1>6. call'.at = IF leftEnd > ends[Front] THEN "parse" ELSE "done"
  BY <1>5 DEF AfterResponse, IInv, StreamInv, TypeInv, Calls
<1>7. Len(ends) \in Nat
  BY DEF IInv, StreamInv, TypeInv
<1>8. ASSUME call'.at \in {"read", "parse"}
      PROVE  \E b \in Nat \ {0} : OneSize(b)' /\ frame' = HeaderSize + b
  <2>1. leftEnd > ends[Front]
    BY <1>6, <1>8
  <2>2. ~OneUnderWay
    <3> SUFFICES ASSUME OneUnderWay PROVE FALSE
      OBVIOUS
    <3>1. /\ Front \notin returned /\ Front \in 1 .. written /\ Len(ends) <= written
          /\ 1 .. (written - 1) \subseteq returned /\ written \in Nat
      BY <1>2, <1>4 DEF IInv, Bookkeeping
    <3>2. Front = Len(ends)
      BY <1>3, <1>7, <3>1
    <3>3. arrived <= ends[Front] /\ leftEnd <= arrived
      BY <1>3, <3>2, <2>1 DEF IInv, StreamInv, TypeInv, InStep
    <3>4. ends[Front] \in Nat /\ leftEnd \in Nat /\ arrived \in Nat
      BY <1>3 DEF IInv, StreamInv, TypeInv
    <3>5. QED
      BY <2>1, <3>3, <3>4
  <2>3. PICK b \in Nat \ {0} : OneSize(b)
    BY <1>2, <2>2 DEF IInv, Orderly, Aligned
  <2>4. ends[Front] = Start(Front) + HeaderSize + b
    BY <1>3, <2>3 DEF IInv, Counting, OneSize
  <2>5. Start(Front) \in Nat /\ HeaderSize \in Nat
    BY <1>3, ClientAssumption DEF IInv, StreamInv, TypeInv
  <2>6. FrameSize = HeaderSize + b
    BY <1>3, <1>4, <2>4, <2>5
  <2>7. QED
    BY <1>5, <2>3, <2>6 DEF OneSize
<1>9. \A b : workload'.bodies = {b} =>
         \A t \in 1 .. Len(ends') : ends'[t] = Start(t)' + HeaderSize + b
  BY <1>5 DEF IInv, Counting, Start
<1>10. /\ frame' \in Nat /\ lastTokenRead' \in Nat /\ lastTokenRead' <= Len(ends')
       /\ CountFollowsFraming'
  BY <1>3, <1>4, <1>5 DEF CountFollowsFraming
<1>11. QED
  BY <1>8, <1>9, <1>10 DEF Counting

LEMMA HttpCounting ==
    ASSUME IInv, HttpNext
    PROVE  Counting'
<1> call \in Calls /\ Counting /\ frame \in Nat
  BY DEF IInv, StreamInv, TypeInv, Counting
<1>1. CASE StartSearch
  BY <1>1, NotParsingCounting DEF StartSearch, FindNothing, network
<1>2. CASE Socket
  <2>1. CASE FindKept
    <3>1. call'.at \in {"done", "exception"}
      BY <2>1 DEF FindKept, Calls
    <3>2. UNCHANGED <<workload, ends, leftStart, frame, lastTokenRead>>
      BY <1>2, <2>1 DEF Socket, FindKept, network
    <3>3. QED
      BY <3>1, <3>2, SameCounting
  <2>2. CASE ReadFails
    BY <1>2, <2>2, SameCounting, AppOfCalls DEF Socket, ReadFails, network
  <2>3. CASE ReadSome
    BY <1>2, <2>3, SameCounting DEF Socket, ReadSome, network
  <2>4. QED
    BY <1>2, <2>1, <2>2, <2>3 DEF Socket
<1>3. CASE ReadOn
  BY <1>3, SameCounting DEF ReadOn, ReaderReadOn, network, Calls
<1>4. CASE TakeResponse
  BY <1>4, TakeCounting
<1>5. CASE TakeError
  BY <1>5, NotParsingCounting, AppOfCalls DEF TakeError, CountedAfterThrow, network
<1>6. CASE KeepResponse
  <2>1. Speaks("http") /\ call.at = "parse" /\ Keeps
    BY <1>6, HttpKeeps DEF KeepResponse, Parsing, IInv
  <2>2. /\ Front \in 1 .. Len(ends) /\ leftStart = Start(Front)
        /\ Front = lastTokenRead + 1
    BY <2>1, CountedFront DEF IInv
  <2>3. leftStart' = ends[Front] /\ UNCHANGED <<workload, ends>>
    BY <2>1 DEF Keeps, ReaderWrongReply, Response, network
  <2>4. frame' = 0 /\ lastTokenRead' = Front
    BY <1>6, <2>2 DEF KeepResponse, Counted
  <2>5. lastTokenRead' \in Nat /\ lastTokenRead' <= Len(ends') /\ CountFollowsFraming'
    BY <2>2, <2>3, <2>4 DEF CountFollowsFraming
  <2>6. QED
    BY <2>3, <2>4, <2>5 DEF Counting, Start, Speaks
<1>7. CASE SearchAgain
  BY <1>7, SameCounting DEF SearchAgain, network, Calls
<1>8. CASE ReturnDone
  BY <1>8, SameCounting, AppOfCalls DEF ReturnDone, Return, network
<1>9. CASE GiveUp \/ FindMalformed
  BY <1>9, SameCounting DEF GiveUp, FindMalformed, Disconnect, network, Calls
<1>10. QED
  BY <1>1, <1>2, <1>3, <1>4, <1>5, <1>6, <1>7, <1>8, <1>9 DEF HttpNext
-----------------------------------------------------------------------------
(***************************************************************************)
(* A call ends only when no complete response is left to be looked at.     *)
(***************************************************************************)
LEMMA SameWaiting ==
    ASSUME Waiting, UNCHANGED <<ends, leftStart, leftEnd>>, returned \subseteq returned',
           call.at # "parse" \/ call'.at = "parse"
    PROVE  Waiting'
BY DEF Waiting, HeadersFit, NoneWaits, Start

LEMMA AnswerWaiting ==
    ASSUME StreamInv, Waiting, Answer
    PROVE  Waiting'
<1>1. PICK b \in workload.bodies : ends' = Append(ends, Start(Len(ends) + 1) + HeaderSize + b)
  BY DEF Answer
<1>2. UNCHANGED <<leftStart, leftEnd, call, returned>>
  BY DEF Answer
<1>3. b \in Nat /\ HeaderSize \in Nat \ {0}
  BY ClientAssumption DEF StreamInv, TypeInv
<1>4. Len(ends) \in Nat /\ Start(Len(ends) + 1) \in Nat
  BY Starts DEF StreamInv, TypeInv
<1> DEFINE new == Start(Len(ends) + 1) + HeaderSize + b
<1>5. new \in Nat /\ Start(Len(ends) + 1) + HeaderSize <= new
  BY <1>3, <1>4
<1> HIDE DEF new
<1>6. /\ Len(ends') = Len(ends) + 1
      /\ \A t \in 1 .. Len(ends) : ends'[t] = ends[t]
      /\ ends'[Len(ends) + 1] = new
  BY <1>1, <1>5 DEF StreamInv, TypeInv, new
<1>7. \A t \in 1 .. Len(ends) + 1 : Start(t)' = Start(t)
  BY <1>4, <1>6 DEF Start
<1>8. \A t \in 1 .. Len(ends') : t \in 1 .. Len(ends) \/ t = Len(ends) + 1
  BY <1>4, <1>6
<1>9. HeadersFit'
  <2>1. \A t \in 1 .. Len(ends') : t \in 1 .. Len(ends) + 1
    BY <1>6
  <2>2. \A t \in 1 .. Len(ends) : Start(t) + HeaderSize <= ends'[t]
    BY <1>6 DEF Waiting, HeadersFit
  <2>3. QED
    BY <1>5, <1>6, <1>7, <1>8, <2>1, <2>2 DEF HeadersFit
<1>10. leftEnd < new
  <2>1. arrived <= Start(Len(ends) + 1)
    <3>1. CASE arrived = 0
      BY <1>4, <3>1
    <3>2. CASE arrived > 0
      BY <1>4, <3>2 DEF StreamInv, InStep, Start
    <3>3. QED
      BY <3>1, <3>2 DEF StreamInv, TypeInv
  <2>2. leftEnd <= arrived /\ leftEnd \in Nat /\ arrived \in Nat
    BY DEF StreamInv, TypeInv
  <2>3. QED
    BY <1>3, <1>4, <1>5, <2>1, <2>2
<1>11. NoneWaits'
  BY <1>2, <1>6, <1>8, <1>10 DEF Waiting, NoneWaits
<1>12. QED
  BY <1>9, <1>11 DEF Waiting

LEMMA OutsideWaiting ==
    ASSUME StreamInv, Waiting, Outside
    PROVE  Waiting'
<1>1. CASE Answer
  BY <1>1, AnswerWaiting
<1>2. CASE Arrive \/ CloseConnection \/ WriteRequest
  <2>1. UNCHANGED <<ends, leftStart, leftEnd, call, returned>>
    BY <1>2 DEF Arrive, CloseConnection, WriteRequest
  <2>2. QED
    BY <2>1, SameWaiting
<1>3. CASE \E t \in Tokens : GetResponse(t) \/ HasResponse(t)
  <2>1. UNCHANGED <<ends, leftStart, leftEnd, returned>> /\ call.at = "app"
    BY <1>3 DEF GetResponse, HasResponse, network
  <2>2. QED
    BY <2>1, SameWaiting
<1>4. QED
  BY <1>1, <1>2, <1>3 DEF Outside

\* The reader reads on only if the response at the front has not come in full;
\* the later ones end behind it.
LEMMA ReadOnWaiting ==
    ASSUME StreamInv, Waiting, call.at = "parse", UNCHANGED <<ends, leftStart, leftEnd>>,
           leftEnd - leftStart < HeaderSize \/ leftEnd < ends[Front]
    PROVE  Waiting'
<1>1. PICK f \in 1 .. Len(ends) : Front = f /\ leftStart = Start(f)
  BY FrontLemma DEF StreamInv, NotEmpty
<1>2. leftStart \in Nat /\ leftEnd \in Nat /\ ends[f] \in Nat /\ HeaderSize \in Nat
  BY ClientAssumption DEF StreamInv, TypeInv
<1>3. leftStart + HeaderSize <= ends[f]
  BY <1>1 DEF Waiting, HeadersFit
<1>4. leftEnd < ends[f]
  <2>1. CASE leftEnd < ends[Front]
    BY <1>1, <2>1
  <2>2. CASE leftEnd - leftStart < HeaderSize
    BY <1>2, <1>3, <2>2
  <2>3. QED
    BY <2>1, <2>2
<1>5. ASSUME NEW t \in 1 .. Len(ends), leftStart < ends[t]
      PROVE  leftEnd < ends[t]
  <2>1. ends[t] \in Nat /\ (f < t => ends[f] < ends[t])
    BY DEF StreamInv, TypeInv, Ascending
  <2>2. ends[t] <= leftStart \/ f <= t
    BY <1>1, Starts DEF StreamInv
  <2>3. t = f \/ f < t
    BY <1>2, <1>5, <2>1, <2>2
  <2>4. QED
    BY <1>2, <1>4, <2>1, <2>3
<1>6. NoneWaits'
  BY <1>5 DEF NoneWaits
<1>7. QED
  BY <1>6 DEF Waiting, HeadersFit, Start

\* After a response was cut off, the search ends only if nothing is left.
LEMMA CutOffWaiting ==
    ASSUME StreamInv, Waiting, call.at = "parse", UNCHANGED <<ends, leftEnd>>,
           leftStart' = ends[Front], NEW received, call'.at = AfterResponse(ends[Front], received)
    PROVE  Waiting'
<1>1. PICK f \in 1 .. Len(ends) : Front = f
  BY FrontLemma DEF StreamInv, NotEmpty
<1>2. leftEnd \in Nat /\ ends[f] \in Nat /\ \A t \in 1 .. Len(ends) : ends[t] \in Nat
  BY DEF StreamInv, TypeInv
<1>3. call'.at # "parse" => leftEnd <= ends[f]
  BY <1>1, <1>2 DEF AfterResponse
<1>4. NoneWaits'
  BY <1>1, <1>2, <1>3 DEF NoneWaits
<1>5. QED
  BY <1>4 DEF Waiting, HeadersFit, Start

\* A response was taken, or kept.
LEMMA CutOffByReader ==
    ASSUME StreamInv, Waiting, Takes \/ Keeps
    PROVE  Waiting'
<1> call \in Calls
  BY DEF StreamInv, TypeInv
<1>1. CASE Takes
  <2>1. /\ call.at = "parse" /\ UNCHANGED <<ends, leftEnd>> /\ leftStart' = ends[Front]
        /\ call' = [call EXCEPT !.wasReceived = TRUE, !.at = AfterResponse(ends[Front], TRUE)]
    BY <1>1 DEF Takes, ReaderOK, Response, network
  <2>2. call'.at = AfterResponse(ends[Front], TRUE)
    BY <2>1 DEF Calls
  <2>3. QED
    BY <2>1, <2>2, CutOffWaiting
<1>2. CASE Keeps
  <2>1. /\ call.at = "parse" /\ UNCHANGED <<ends, leftEnd>> /\ leftStart' = ends[Front]
        /\ call' = [call EXCEPT !.at = AfterResponse(ends[Front], call.wasReceived)]
    BY <1>2 DEF Keeps, ReaderWrongReply, Response, network
  <2>2. call'.at = AfterResponse(ends[Front], call.wasReceived)
    BY <2>1 DEF Calls
  <2>3. QED
    BY <2>1, <2>2, CutOffWaiting
<1>3. QED
  BY <1>1, <1>2

LEMMA ReadSomeWaiting ==
    ASSUME StreamInv, Waiting, ReadSome
    PROVE  Waiting'
<1>1. ends' = ends /\ leftStart' = leftStart /\ call' = [call EXCEPT !.at = "parse"]
  BY DEF ReadSome, network
<1>2. call'.at = "parse"
  BY <1>1 DEF StreamInv, TypeInv, Calls
<1>3. QED
  BY <1>1, <1>2 DEF Waiting, HeadersFit, NoneWaits, Start

LEMMA BinaryWaiting ==
    ASSUME StreamInv, Bookkeeping, Waiting, Binary!BinaryNext
    PROVE  Waiting'
<1>1. returned \subseteq returned'
  BY BinaryWithinCall DEF WithinCall
<1>2. CASE Binary!FindKept
  <2>1. UNCHANGED <<ends, leftStart, leftEnd>> /\ call.at = "search"
    BY <1>2 DEF Binary!FindKept, Binary!network
  <2>2. QED
    BY <1>1, <2>1, SameWaiting
<1>3. CASE Binary!FindNothing \/ Binary!ReadNothing \/ Binary!FailToRead
  <2>1. UNCHANGED <<ends, leftStart, leftEnd>> /\ call.at \in {"search", "read"}
    BY <1>3 DEF Binary!FindNothing, Binary!ReadNothing, Binary!FailToRead,
       Binary!NothingAvailable, Binary!ReadFails, Binary!network
  <2>2. QED
    BY <1>1, <2>1, SameWaiting
<1>4. CASE Binary!ReadSome
  BY <1>4, ReadSomeWaiting DEF Binary!ReadSome, ReadSome, Binary!network, network
<1>5. CASE Binary!ReadOn
  <2>1. call.at = "parse" /\ UNCHANGED <<ends, leftStart, leftEnd>>
    BY <1>5 DEF Binary!ReadOn, Binary!ReaderReadOn, Binary!network
  <2>2. ~(leftEnd - leftStart >= HeaderSize /\ leftEnd >= ends[Front])
    BY <1>5 DEF Binary!ReadOn, Binary!Complete, Binary!Left, Binary!Front,
       Binary!BeginningAt, Binary!Start, Binary!None, Front, BeginningAt, Start, None
  <2>3. PICK f \in 1 .. Len(ends) : Front = f
    BY <2>1, FrontLemma DEF StreamInv, NotEmpty
  <2>4. /\ leftEnd \in Nat /\ leftStart \in Nat /\ HeaderSize \in Nat
        /\ ends[Front] \in Nat
    BY <2>3, ClientAssumption DEF StreamInv, TypeInv
  <2>5. leftEnd - leftStart < HeaderSize \/ leftEnd < ends[Front]
    BY <2>2, <2>4
  <2>6. QED
    BY <2>1, <2>5, ReadOnWaiting
<1>6. CASE Binary!TakeResponse \/ Binary!KeepResponse
  BY <1>6, BinaryTakes, BinaryKeeps, CutOffByReader
<1>7. CASE Binary!ReturnAnyhow
  <2>1. UNCHANGED <<ends, leftStart, leftEnd>> /\ call.at = "done"
    BY <1>7 DEF Binary!ReturnAnyhow, Binary!Return, Binary!network
  <2>2. QED
    BY <1>1, <2>1, SameWaiting
<1>8. QED
  BY <1>2, <1>3, <1>4, <1>5, <1>6, <1>7 DEF Binary!BinaryNext, Binary!Socket

\* The response that was thrown is the last one: one request is under way.
LEMMA ErrorWaiting ==
    ASSUME IInv, TakeError
    PROVE  Waiting'
<1>1. /\ Speaks("http") /\ call.at = "parse" /\ AskedFor /\ workload.errors
      /\ returned' = returned \union {call.token}
      /\ UNCHANGED <<ends, leftStart, leftEnd>>
  BY DEF TakeError, Parsing, network
<1>2. Front \in 1 .. Len(ends) /\ leftStart = Start(Front) /\ Front = call.token
  BY <1>1, CountedFront, Measured DEF IInv
<1>3. OneUnderWay
  BY <1>1 DEF IInv, Orderly, Aligned, OneSize
<1>4. /\ Front \in (1 .. written) \ returned /\ 1 .. (written - 1) \subseteq returned
      /\ Len(ends) <= written /\ written \in Nat
  BY <1>1, <1>2, <1>3 DEF IInv, Bookkeeping
<1>5. Front = Len(ends)
  BY <1>2, <1>4
<1>6. ASSUME NEW t \in 1 .. Len(ends), leftStart < ends[t]
      PROVE  t \in returned'
  <2>1. ends[t] <= Start(Front) \/ Front <= t
    BY <1>2, Starts DEF IInv, StreamInv
  <2>2. ends[t] \in Nat /\ leftStart \in Nat
    BY DEF IInv, StreamInv, TypeInv
  <2>3. t = Front
    BY <1>2, <1>5, <1>6, <2>1, <2>2
  <2>4. QED
    BY <1>1, <1>2, <2>3
<1>7. QED
  BY <1>1, <1>6 DEF IInv, Waiting, HeadersFit, NoneWaits, Start

LEMMA HttpWaiting ==
    ASSUME IInv, HttpNext
    PROVE  Waiting'
<1> StreamInv /\ Counting /\ Waiting
  BY DEF IInv
<1>1. returned \subseteq returned'
  BY HttpWithinCall DEF WithinCall, StreamInv, TypeInv, Counting
<1>2. CASE StartSearch \/ SearchAgain \/ ReturnDone \/ (Socket /\ (FindKept \/ ReadFails))
  <2>1. UNCHANGED <<ends, leftStart, leftEnd>> /\ call.at \in {"search", "done", "read"}
    BY <1>2 DEF StartSearch, SearchAgain, ReturnDone, Return, FindNothing, FindKept, ReadFails,
       network
  <2>2. QED
    BY <1>1, <2>1, SameWaiting
<1>3. CASE Socket /\ ReadSome
  BY <1>3, ReadSomeWaiting
<1>4. CASE ReadOn
  <2>1. Speaks("http") /\ call.at = "parse" /\ UNCHANGED <<ends, leftStart, leftEnd>>
    BY <1>4 DEF ReadOn, Parsing, ReaderReadOn, network
  <2>2. leftEnd - leftStart < HeaderSize \/ leftEnd < ends[Front]
    BY <1>4, <2>1, Measured DEF ReadOn, IInv, Bookkeeping
  <2>3. QED
    BY <2>1, <2>2, ReadOnWaiting
<1>5. CASE TakeResponse
  BY <1>5, HttpTakes, CutOffByReader
<1>6. CASE TakeError
  BY <1>6, ErrorWaiting
<1>7. CASE KeepResponse
  BY <1>7, HttpKeeps, CutOffByReader
<1>8. ~GiveUp /\ ~FindMalformed
  <2>1. malformed = None
    BY DEF IInv, Bookkeeping
  <2>2. QED
    BY <2>1 DEF GiveUp, FindMalformed, KeptMalformed
<1>9. QED
  BY <1>2, <1>3, <1>4, <1>5, <1>6, <1>7, <1>8 DEF HttpNext, Socket
-----------------------------------------------------------------------------
(***************************************************************************)
(* Every step keeps the invariant.                                         *)
(***************************************************************************)
LEMMA InitIInv ==
    ASSUME Init, Orderly
    PROVE  IInv
<1>1. call \in Calls /\ call.at = "app"
  BY AppOfCalls DEF Init, ClientInit
<1>2. /\ ends = <<>> /\ Len(ends) = 0 /\ arrived = 0 /\ leftStart = 0 /\ leftEnd = 0
      /\ responses = {} /\ handed = {} /\ returned = {} /\ written = 0 /\ polls = 0
      /\ malformed = None /\ closed = FALSE /\ workload \in Workloads /\ frame = 0 /\ lastTokenRead = 0
  BY DEF Init, ClientInit
<1>3. StreamInv
  <2>1. TypeInv /\ NotEmpty
    BY <1>1, <1>2 DEF TypeInv, NotEmpty
  <2>2. Ascending /\ NothingDropped
    BY <1>2 DEF Ascending, NothingDropped
  <2>3. InStep
    <3>1. 0 \in 0 .. Len(ends) /\ leftStart = Start(0 + 1)
      BY <1>2 DEF Start
    <3>2. QED
      BY <1>2, <3>1 DEF InStep
  <2>4. KeptResponsesWhole /\ RightResponse
    BY <1>2 DEF KeptResponsesWhole, RightResponse
  <2>5. QED
    BY <2>1, <2>2, <2>3, <2>4 DEF StreamInv
<1>4. Bookkeeping
  <2>1. written \in 0 .. Requests /\ polls \in 0 .. Polls /\ Len(ends) <= written
    BY <1>2, ClientAssumption
  <2>2. 1 .. (written - 1) \subseteq returned /\ returned \subseteq 1 .. written
    BY <1>2
  <2>3. malformed = None /\ closed \in BOOLEAN /\ \A d, e \in responses : d.token = e.token => d = e
    BY <1>2
  <2>4. QED
    BY <1>1, <2>1, <2>2, <2>3 DEF Bookkeeping
<1>5. Counting
  BY <1>1, <1>2 DEF Counting, CountFollowsFraming
<1>6. Waiting
  BY <1>2 DEF Waiting, HeadersFit, NoneWaits
<1>7. QED
  BY <1>3, <1>4, <1>5, <1>6 DEF IInv

\* A call, and what the outside does between calls, are all that happens.
LEMMA NextBookkeeping ==
    ASSUME IInv, Next
    PROVE  Bookkeeping' /\ workload' = workload
<1> StreamInv /\ Bookkeeping /\ call \in Calls /\ lastTokenRead \in Nat
  BY DEF IInv, StreamInv, TypeInv, Counting
<1>1. CASE Outside
  <2>1. workload' = workload
    BY <1>1 DEF Outside, Answer, Arrive, CloseConnection, WriteRequest, GetResponse, HasResponse
  <2>2. QED
    BY <1>1, <2>1, OutsideBookkeeping DEF IInv
<1>2. CASE Binary!BinaryNext \/ HttpNext
  <2>1. WithinCall
    BY <1>2, BinaryWithinCall, HttpWithinCall
  <2>2. QED
    BY <2>1, WithinCallBookkeeping DEF WithinCall
<1>3. QED
  BY <1>1, <1>2 DEF Next, Client

LEMMA StepIInv ==
    ASSUME IInv, [Next]_vars
    PROVE  IInv'
<1> StreamInv /\ Bookkeeping /\ Counting /\ Waiting
  BY DEF IInv
<1>1. StreamInv'
  BY StepStream
<1>2. CASE UNCHANGED vars
  BY <1>1, <1>2 DEF vars, IInv, Orderly, Aligned, Speaks, OneUnderWay, OneSize, Bookkeeping, Counting,
     CountFollowsFraming, Waiting, HeadersFit, NoneWaits, Start
<1>3. CASE Next
  <2>1. Bookkeeping' /\ workload' = workload
    BY <1>3, NextBookkeeping
  <2>2. Orderly'
    BY <2>1 DEF IInv, Orderly, Aligned, Speaks, OneUnderWay, OneSize
  <2>3. Counting' /\ Waiting'
    <3>1. CASE Outside /\ NotHttp
      BY <3>1, OutsideCounting, OutsideWaiting
    <3>2. CASE Binary!BinaryNext /\ NotHttp
      BY <3>2, BinaryCounting, BinaryWaiting
    <3>3. CASE HttpNext
      BY <3>3, HttpCounting, HttpWaiting
    <3>4. QED
      BY <1>3, <3>1, <3>2, <3>3 DEF Next, Client
  <2>4. QED
    BY <1>1, <2>1, <2>2, <2>3 DEF IInv
<1>4. QED
  BY <1>2, <1>3

\* The inductive invariant holds in every state of an orderly program: one whose
\* client is the binary one, or HTTP with one request at a time or one size and a
\* server that sends nothing but HTTP.
THEOREM Inductive ==
    Spec /\ Orderly => []IInv
<1>1. Init /\ Orderly => IInv
  BY InitIInv
<1>2. IInv /\ [Next]_vars => IInv'
  BY StepIInv
<1>3. QED
  BY <1>1, <1>2, PTL DEF Spec

\* Types, and that there is never more than one entry for a token in _responses.
THEOREM TypeCorrect ==
    Spec /\ Orderly => []TypeOK
<1>1. IInv => TypeOK
  <2> SUFFICES ASSUME IInv PROVE TypeOK
    OBVIOUS
  <2>1. StreamInv /\ Bookkeeping /\ Counting
    BY DEF IInv
  <2>2. 1 .. written \subseteq Tokens
    BY <2>1, ClientAssumption DEF Bookkeeping, Tokens
  <2>3. ASSUME NEW e \in responses
        PROVE  e.token \in Nat /\ Cardinality(Found(e.token)) = 1
    <3>1. Found(e.token) = {e}
      BY <2>1 DEF Found, Bookkeeping
    <3>2. e.token \in Nat
      BY <2>1 DEF StreamInv, KeptResponsesWhole
    <3>3. QED
      BY <3>1, <3>2, FS_Singleton
  <2>4. \A h \in handed : h.token \in Tokens
    <3>1. Len(ends) \in Nat /\ Len(ends) <= written /\ written \in Nat
      BY <2>1 DEF StreamInv, TypeInv, Bookkeeping
    <3>2. \A h \in handed : h.token \in 1 .. written
      BY <2>1, <3>1 DEF StreamInv, RightResponse
    <3>3. QED
      BY <2>2, <3>2
  <2>5. returned \subseteq Tokens
    BY <2>1, <2>2 DEF Bookkeeping
  <2>6. malformed \in 0 .. Len(ends)
    BY <2>1 DEF Bookkeeping, StreamInv, TypeInv, None
  <2>7. QED
    BY <2>1, <2>3, <2>4, <2>5, <2>6 DEF TypeOK, ClientTypeOK, StreamInv, TypeInv, Bookkeeping,
       Counting, Calls
<1>2. QED
  BY <1>1, Inductive, PTL

\* Whatever searchRequests() keeps under a token in _responses is the response
\* to that request, complete and with nothing of its neighbours.
THEOREM KeptWhole ==
    Spec /\ Orderly => []KeptResponsesWhole
<1>1. IInv => KeptResponsesWhole
  BY DEF IInv, StreamInv
<1>2. QED
  BY <1>1, Inductive, PTL

\* The callback of a getResponse() or hasResponse() is only ever given the body of
\* the response to the request with its token, unless that has no Content-Length.
THEOREM RightOne ==
    Spec /\ Orderly => []RightResponse
<1>1. IInv => RightResponse
  BY DEF IInv, StreamInv
<1>2. QED
  BY <1>1, Inductive, PTL

\* A response that searchRequests() has cut off _leftovers was handed over or
\* is kept.
THEOREM NothingIsDropped ==
    Spec /\ Orderly => []NothingDropped
<1>1. IInv => NothingDropped
  BY DEF IInv, StreamInv
<1>2. QED
  BY <1>1, Inductive, PTL

\* Between calls no complete response waits in _leftovers, where nothing would
\* look at it before more bytes come, unless it is an error that was thrown.
THEOREM NothingIsOverlooked ==
    Spec /\ Orderly => []NothingOverlooked
<1>1. IInv => NothingOverlooked
  <2> SUFFICES ASSUME IInv, call.at = "app",
                      NEW t \in 1 .. Len(ends), leftStart < ends[t], ends[t] <= leftEnd
               PROVE  t \in returned
    BY DEF NothingOverlooked
  <2>1. leftEnd < ends[t] \/ t \in returned
    BY DEF IInv, Waiting, NoneWaits
  <2>2. ends[t] \in Nat /\ leftEnd \in Nat
    BY DEF IInv, StreamInv, TypeInv
  <2>3. QED
    BY <2>1, <2>2
<1>2. QED
  BY <1>1, Inductive, PTL

\* _lastTokenRead of HttpClient counts the responses that were cut off
\* _leftovers: they begin with the response after the last one counted.
THEOREM CountFollows ==
    Spec /\ Orderly => []CountFollowsFraming
<1>1. IInv => CountFollowsFraming
  BY DEF IInv, Counting, CountFollowsFraming
<1>2. QED
  BY <1>1, Inductive, PTL

\* The assertion of searchRequests() ("First it was WRONG_REPLY, now it is
\* READ_ON?") holds: no call ends with the exception of a program error.
THEOREM NoCallThrows ==
    Spec /\ Orderly => []NeverThrows
<1>1. IInv => NeverThrows
  BY DEF IInv, StreamInv, TypeInv, Calls, NeverThrows
<1>2. QED
  BY <1>1, Inductive, PTL
-----------------------------------------------------------------------------
(***************************************************************************)
(* As long as the server sends nothing but HTTP, getResponse() of HTTP     *)
(* returns only after it has handed over a response.                       *)
(***************************************************************************)
AnyCalls ==
    [op : {"none", "get", "has"}, token : Tokens \union {None},
     at : {"app", "search", "read", "parse", "done", "exception"}, wasReceived : BOOLEAN]

HandedFor(c) == \E h \in handed : h.op = c.op /\ h.token = c.token

HasResult == call.at # "app" /\ call.wasReceived => HandedFor(call)

ResultInv == Speaks("http") /\ call \in AnyCalls /\ HasResult /\ WaitsForResponse

LEMMA SameResults ==
    ASSUME ResultInv, UNCHANGED <<workload, returned>>, handed \subseteq handed',
           call' \in AnyCalls,
           \/ call'.at = "app" \/ ~call'.wasReceived
           \/ call.at # "app" /\ call' = [call EXCEPT !.at = call'.at]
    PROVE  ResultInv'
<1>1. WaitsForResponse'
  BY DEF ResultInv, WaitsForResponse
<1>2. HasResult'
  <2>1. CASE call'.at = "app" \/ ~call'.wasReceived
    BY <2>1 DEF HasResult
  <2>2. CASE call.at # "app" /\ call' = [call EXCEPT !.at = call'.at]
    <3>1. /\ call'.op = call.op /\ call'.token = call.token
          /\ call'.wasReceived = call.wasReceived
      BY <2>2 DEF ResultInv, AnyCalls
    <3>2. QED
      BY <2>2, <3>1 DEF ResultInv, HasResult, HandedFor
  <2>3. QED
    BY <2>1, <2>2
<1>3. QED
  BY <1>1, <1>2 DEF ResultInv, Speaks

\* The callback is called for the response that was found.
LEMMA HandedResult ==
    ASSUME ResultInv, UNCHANGED <<workload, returned>>, call' \in AnyCalls,
           call'.op = call.op, call'.token = call.token,
           NEW piece, Handing(piece)
    PROVE  ResultInv'
<1> DEFINE new == [op |-> call.op, token |-> call.token, body |-> HandedBody(piece)]
<1>1. handed' = handed \union {new} /\ new.op = call.op /\ new.token = call.token
  BY DEF Handing
<1> HIDE DEF new
<1>2. WaitsForResponse'
  BY <1>1 DEF ResultInv, WaitsForResponse
<1>3. HasResult'
  BY <1>1 DEF HasResult, HandedFor
<1>4. QED
  BY <1>2, <1>3 DEF ResultInv, Speaks

\* A getResponse() that returns has called its callback.
LEMMA ReturnedResult ==
    ASSUME ResultInv, UNCHANGED workload, call' = App, handed \subseteq handed',
           returned' = returned \union {call.token},
           \E h \in handed' : h.op = "get" /\ h.token = call.token
    PROVE  ResultInv'
<1>1. call' \in AnyCalls /\ call'.at = "app"
  BY DEF App, None, AnyCalls
<1>2. WaitsForResponse'
  BY DEF ResultInv, WaitsForResponse
<1>3. QED
  BY <1>1, <1>2 DEF ResultInv, HasResult, Speaks

LEMMA OutsideResults ==
    ASSUME ResultInv, Outside
    PROVE  ResultInv'
<1>1. CASE Answer \/ Arrive \/ CloseConnection \/ WriteRequest
  <2>1. UNCHANGED <<workload, call, handed, returned>>
    BY <1>1 DEF Answer, Arrive, CloseConnection, WriteRequest
  <2>2. QED
    BY <2>1 DEF ResultInv, Speaks, HasResult, HandedFor, WaitsForResponse
<1>2. ASSUME NEW t \in Tokens, GetResponse(t) \/ HasResponse(t)
      PROVE  ResultInv'
  <2>1. UNCHANGED <<workload, handed, returned>>
    BY <1>2 DEF GetResponse, HasResponse
  <2>2. call' \in AnyCalls /\ ~call'.wasReceived
    <3>1. PICK o \in {"get", "has"} :
             call' = [op |-> o, token |-> t, at |-> "search", wasReceived |-> FALSE]
      BY <1>2 DEF GetResponse, HasResponse
    <3>2. t \in Tokens \union {None}
      OBVIOUS
    <3>3. call' \in AnyCalls
      BY <3>1, <3>2 DEF AnyCalls
    <3>4. QED
      BY <3>1, <3>3
  <2>3. QED
    BY <2>1, <2>2, SameResults
<1>3. QED
  BY <1>1, <1>2 DEF Outside

LEMMA HttpResults ==
    ASSUME ResultInv, malformed = None, HttpNext
    PROVE  ResultInv'
<1> call \in AnyCalls
  BY DEF ResultInv
<1>1. App \in AnyCalls /\ App.at = "app"
  BY DEF App, None, AnyCalls
<1>2. CASE StartSearch \/ SearchAgain \/ ReadOn
  <2>1. /\ UNCHANGED <<workload, handed, returned>> /\ call.at # "app"
        /\ call' \in {[call EXCEPT !.at = "read"], [call EXCEPT !.at = "search"],
                      [call EXCEPT !.at = "done"]}
    BY <1>2 DEF StartSearch, FindNothing, SearchAgain, ReadOn, ReaderReadOn
  <2>2. call' \in AnyCalls /\ call' = [call EXCEPT !.at = call'.at]
    BY <2>1 DEF AnyCalls
  <2>3. QED
    BY <2>1, <2>2, SameResults
<1>3. CASE Socket
  <2>1. CASE FindKept
    <3>1. PICK e \in Found(call.token) :
             IF Whole(e.piece)
             THEN /\ Handing(Response(BeginningAt(e.piece.from)))
                  /\ call' = [call EXCEPT !.at = "done", !.wasReceived = TRUE]
             ELSE /\ call' = [call EXCEPT !.at = "exception"]
                  /\ UNCHANGED handed
      BY <2>1 DEF FindKept
    <3>2. UNCHANGED <<workload, returned>> /\ call.at = "search"
      BY <2>1 DEF FindKept
    <3>3. CASE Whole(e.piece)
      <4>1. Handing(Response(BeginningAt(e.piece.from)))
        BY <3>1, <3>3
      <4>2. call' \in AnyCalls /\ call'.op = call.op /\ call'.token = call.token
        BY <3>1, <3>3 DEF AnyCalls
      <4>3. QED
        BY <3>2, <4>1, <4>2, HandedResult
    <3>4. CASE ~Whole(e.piece)
      <4>1. call' = [call EXCEPT !.at = "exception"] /\ handed' = handed
        BY <3>1, <3>4
      <4>2. call' \in AnyCalls /\ call' = [call EXCEPT !.at = call'.at]
        BY <4>1 DEF AnyCalls
      <4>3. QED
        BY <3>2, <4>1, <4>2, SameResults
    <3>5. QED
      BY <3>3, <3>4
  <2>2. CASE ReadSome
    <3>1. /\ UNCHANGED <<workload, handed, returned>> /\ call.at = "read"
          /\ call' = [call EXCEPT !.at = "parse"]
      BY <2>2 DEF ReadSome
    <3>2. call' \in AnyCalls /\ call' = [call EXCEPT !.at = call'.at]
      BY <3>1 DEF AnyCalls
    <3>3. QED
      BY <3>1, <3>2, SameResults
  <2>3. CASE ReadFails
    BY <1>1, <2>3, SameResults DEF ReadFails
  <2>4. QED
    BY <1>3, <2>1, <2>2, <2>3 DEF Socket
<1>4. CASE TakeResponse
  <2>1. /\ Handing(Frame) /\ UNCHANGED <<workload, returned>>
        /\ call' = [call EXCEPT !.wasReceived = TRUE, !.at = AfterResponse(Frame.to, TRUE)]
    BY <1>4 DEF TakeResponse, ReaderOK
  <2>2. AfterResponse(Frame.to, TRUE) \in {"parse", "done"}
    BY DEF AfterResponse
  <2>3. call' \in AnyCalls /\ call'.op = call.op /\ call'.token = call.token
    BY <2>1, <2>2 DEF AnyCalls
  <2>4. QED
    BY <2>1, <2>3, HandedResult
<1>5. CASE TakeError
  <2>1. /\ call.op = "get" /\ call' = App /\ UNCHANGED workload /\ Handing(Frame)
        /\ returned' = returned \union {call.token}
    BY <1>5 DEF TakeError
  <2>2. \E h \in handed' : h.op = "get" /\ h.token = call.token
    <3> DEFINE new == [op |-> call.op, token |-> call.token, body |-> HandedBody(Frame)]
    <3>1. new \in handed' /\ new.op = "get" /\ new.token = call.token
      BY <2>1 DEF Handing
    <3>2. QED
      BY <3>1
  <2>3. handed \subseteq handed'
    BY <2>1 DEF Handing
  <2>4. QED
    BY <2>1, <2>2, <2>3, ReturnedResult
<1>6. CASE KeepResponse
  <2>1. /\ UNCHANGED <<workload, handed, returned>> /\ call.at # "app"
        /\ call' \in {[call EXCEPT !.at = "exception"],
                      [call EXCEPT !.at = AfterResponse(Frame.to, call.wasReceived)]}
    BY <1>6 DEF KeepResponse, Parsing, ReaderWrongReply
  <2>2. AfterResponse(Frame.to, call.wasReceived) \in {"parse", "done", "read"}
    BY DEF AfterResponse
  <2>3. call' \in AnyCalls /\ call' = [call EXCEPT !.at = call'.at]
    BY <2>1, <2>2 DEF AnyCalls
  <2>4. QED
    BY <2>1, <2>3, SameResults
<1>7. CASE ReturnDone
  <2>1. /\ call.at = "done" /\ call.wasReceived /\ call' = App /\ UNCHANGED <<workload, handed>>
        /\ returned' = IF call.op = "get" THEN returned \union {call.token} ELSE returned
    BY <1>7 DEF ReturnDone, Return
  <2>2. CASE call.op = "get"
    <3>1. \E h \in handed' : h.op = "get" /\ h.token = call.token
      BY <2>1, <2>2 DEF ResultInv, HasResult, HandedFor
    <3>2. QED
      BY <2>1, <2>2, <3>1, ReturnedResult
  <2>3. CASE call.op # "get"
    BY <1>1, <2>1, <2>3, SameResults
  <2>4. QED
    BY <2>2, <2>3
<1>8. ~GiveUp /\ ~FindMalformed
  BY DEF GiveUp, FindMalformed, KeptMalformed
<1>9. QED
  BY <1>2, <1>3, <1>4, <1>5, <1>6, <1>7, <1>8 DEF HttpNext

LEMMA StepResults ==
    ASSUME ResultInv, malformed = None, [Next]_vars
    PROVE  ResultInv'
<1>1. CASE Outside
  BY <1>1, OutsideResults
<1>2. CASE HttpNext
  BY <1>2, HttpResults
<1>3. ~Binary!BinaryNext
  BY DEF Binary!BinaryNext, Binary!Socket, Binary!ReadOn, Binary!TakeResponse,
     Binary!KeepResponse, Binary!ReturnAnyhow, Binary!Parsing, Binary!Speaks, Speaks, ResultInv
<1>4. CASE UNCHANGED vars
  BY <1>4 DEF vars, ResultInv, Speaks, HasResult, HandedFor, WaitsForResponse
<1>5. QED
  BY <1>1, <1>2, <1>3, <1>4 DEF Next, Client

\* The protocol stays the same, and a response stays malformed.
LEMMA StaysMalformed ==
    ASSUME [Next]_vars
    PROVE  /\ workload' = workload
           /\ malformed # None => malformed' = malformed
<1>1. CASE Outside
  BY <1>1 DEF Outside, Answer, Arrive, CloseConnection, WriteRequest, GetResponse, HasResponse,
     network
<1>2. CASE HttpNext
  BY <1>2 DEF HttpNext, StartSearch, FindNothing, Socket, FindKept, ReadSome, ReadFails,
     ReadOn, ReaderReadOn, TakeResponse, ReaderOK, TakeError, KeepResponse,
     ReaderWrongReply, GiveUp, FindMalformed, Disconnect, SearchAgain, ReturnDone, Return,
     network
<1>3. CASE Binary!BinaryNext
  BY <1>3 DEF Binary!BinaryNext, Binary!Socket, Binary!FindKept, Binary!FindNothing,
     Binary!ReadSome, Binary!FailToRead, Binary!ReadFails, Binary!ReadNothing,
     Binary!NothingAvailable, Binary!ReadOn, Binary!ReaderReadOn, Binary!TakeResponse,
     Binary!ReaderOK, Binary!KeepResponse, Binary!ReaderWrongReply, Binary!ReturnAnyhow,
     Binary!Return, Binary!network
<1>4. CASE UNCHANGED vars
  BY <1>4 DEF vars
<1>5. QED
  BY <1>1, <1>2, <1>3, <1>4 DEF Next, Client

\* getResponse() of HttpClient returns, or throws the error it was sent, only after
\* its callback was given a response, unless the server has sent what is not HTTP;
\* that of the binary client may return without.
THEOREM HttpWaits ==
    Spec /\ Aligned => []HttpWaitsForResponse
<1> DEFINE Results == ~Speaks("http") \/ malformed # None \/ ResultInv
<1>1. Init => Results
  BY DEF Init, ClientInit, App, None, AnyCalls, ResultInv, HasResult, WaitsForResponse
<1>2. Results /\ [Next]_vars => Results'
  BY StepResults, StaysMalformed DEF Speaks
<1>3. Results => HttpWaitsForResponse
  BY DEF ResultInv, HttpWaitsForResponse
<1>4. QED
  BY <1>1, <1>2, <1>3, PTL DEF Spec
=============================================================================
