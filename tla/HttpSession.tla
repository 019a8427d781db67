---------------------------- MODULE HttpSession ----------------------------
(***************************************************************************)
(* HttpServer::Session (src/bomba_http.hpp): one connection of an HTTP     *)
(* server.  The receive buffer calls respond() with the bytes it keeps;    *)
(* respond() parses a header, waits for the body, lets a responder write   *)
(* the response, and tells how many bytes it has consumed.  Its ParseState *)
(* outlives the call, so that a header is not parsed again while its body  *)
(* arrives.                                                                *)
(*                                                                         *)
(* The buffer is used as MessageStream promises: each call is given the    *)
(* stream from the first byte that was not consumed.  Requests have a      *)
(* header of one size; only POST requests have a body.                     *)
(***************************************************************************)
EXTENDS Integers, Sequences, ByteStream

CONSTANTS
    HeaderSize,    \* bytes up to the end of the empty line
    Requests,      \* the requests the client may send
    StreamLength   \* BOUND: how many bytes the client sends

NoLength == -1     \* bodySize when no Content-Length was found

\* What a responder does: whether it starts a response, of known size (streamed)
\* or of unknown size (buffered until it is complete), and how it ends.
Behaviours == [writes : {"nothing", "known", "unknown"},
               ends : {"true", "false", "throws"}]

RequestTypes == {"GET", "POST", "WEIRD"}

ASSUME RequestsAssumption ==
    /\ HeaderSize \in Nat \ {0} /\ StreamLength \in Nat
    /\ \A r \in Requests :
        /\ r.type \in RequestTypes
        /\ r.length \in Nat \union {NoLength}
        /\ r.type # "POST" => r.length <= 0
        /\ r.close \in BOOLEAN
        /\ r.responder \in Behaviours

VARIABLES
    request,         \* the request the stream continues with
    received,        \* how many bytes arrived
    consumed,        \* how many bytes respond() has consumed
    parsePosition,   \* _state
    bodySize,
    requestType,
    ending,
    phase,           \* "reading", "responding" while the buffer is fed, "closed"
    last             \* the last request that was answered, if one was, and what
                     \* was written for it

state == <<parsePosition, bodySize, requestType, ending>>
vars == <<request, received, consumed, parsePosition, bodySize,
          requestType, ending, phase, last>>
-----------------------------------------------------------------------------
Body(r) == IF r.length = NoLength THEN 0 ELSE r.length
Size(r) == HeaderSize + Body(r)
Left == received - consumed

Init ==
    /\ request \in Requests
    /\ received = 0 /\ consumed = 0
    /\ parsePosition = 0 /\ bodySize = NoLength
    /\ requestType = "UNINVESTIGATED" /\ ending = "OK"
    /\ phase = "reading"
    /\ last = [request |-> request, answered |-> FALSE, written |-> <<>>]

\* Bytes arrive, and the buffer starts to feed them.
Arrive ==
    /\ phase = "reading"
    /\ received' \in (received + 1) .. StreamLength
    /\ phase' = "responding"
    /\ UNCHANGED <<request, consumed, state, last>>

\* The client, or the network, ends the connection.
Disconnected ==
    /\ phase = "reading"
    /\ phase' = "closed"
    /\ UNCHANGED <<request, received, consumed, state, last>>
-----------------------------------------------------------------------------
(***************************************************************************)
(* respond().  A header is parsed if no body size is known; "connection:   *)
(* close" in it is remembered in ending.                                   *)
(***************************************************************************)
\* Fault: a byte is read after the header before it is taken as complete.
FaultHeaderKnown == bodySize # NoLength \/ Left > HeaderSize

HeaderKnown == bodySize # NoLength \/ Left >= HeaderSize

Position == IF bodySize # NoLength THEN parsePosition ELSE HeaderSize
Type == IF bodySize # NoLength THEN requestType ELSE request.type
ParsedSize == IF bodySize # NoLength THEN bodySize ELSE request.length
ParsedEnding == IF bodySize = NoLength /\ request.close THEN "DISCONNECT" ELSE ending

\* A request that is not a POST has no body, whatever its header says.
BodySize == IF Type = "POST" THEN ParsedSize ELSE 0

\* Fault: the body is not waited for.
FaultBodyRead == TRUE

BodyRead == Type # "POST" \/ Left >= Position + BodySize

\* Fault: the state of the request that was answered stays.
FaultRestored == UNCHANGED <<bodySize, requestType>> /\ parsePosition' = 0

\* restore(); what else is in _state stays as it is.
Restored ==
    /\ parsePosition' = 0
    /\ bodySize' = NoLength
    /\ requestType' = "UNINVESTIGATED"

\* The header is not complete: it will be parsed again from its start.  Its line
\* "connection: close" may have been among what was there.
HeaderIncomplete ==
    /\ phase = "responding"
    /\ ~HeaderKnown
    /\ Restored
    /\ ending' \in {ending} \union (IF request.close THEN {"DISCONNECT"} ELSE {})
    /\ phase' = "reading"
    /\ UNCHANGED <<request, received, consumed, last>>

\* A POST request without Content-Length ends the session.
LengthMissing ==
    /\ phase = "responding"
    /\ HeaderKnown
    /\ Type = "POST" /\ BodySize = NoLength
    /\ parsePosition' = Position
    /\ requestType' = Type
    /\ ending' = ParsedEnding
    /\ phase' = "closed"
    /\ UNCHANGED <<request, received, consumed, bodySize, last>>

\* The body is not complete: what was parsed is kept for the next call.
BodyIncomplete ==
    /\ phase = "responding"
    /\ HeaderKnown
    /\ BodySize # NoLength
    /\ ~BodyRead
    /\ parsePosition' = Position
    /\ bodySize' = BodySize
    /\ requestType' = Type
    /\ ending' = ParsedEnding
    /\ phase' = "reading"
    /\ UNCHANGED <<request, received, consumed, last>>
-----------------------------------------------------------------------------
\* What the WriteStarter sends while the responder runs.  A known size is sent
\* ahead, and what was streamed is flushed even while an exception leaves the
\* filler; a response of unknown size is sent when its filler has returned.
Streamed(b) ==
    IF b.writes = "known" \/ (b.writes = "unknown" /\ b.ends # "throws")
    THEN <<"200">>
    ELSE <<>>

\* Fault: the 204 is sent even if the responder has written a response.
FaultConcluded(b, type) ==
    CASE b.ends = "throws" -> <<"500">>
      [] b.ends = "false" -> IF type = "GET" THEN <<"404">> ELSE <<"400">>
      [] b.ends = "true" -> <<"204">>

\* What respond() adds when the responder has returned, or thrown.
Concluded(b, type) ==
    CASE b.ends = "throws" -> <<"500">>
      [] b.ends = "false" -> IF type = "GET" THEN <<"404">> ELSE <<"400">>
      [] b.ends = "true" -> IF b.writes # "nothing" THEN <<>> ELSE <<"204">>

Written(type) ==
    IF type = "WEIRD" THEN <<"501">>
    ELSE Streamed(request.responder) \o Concluded(request.responder, type)

\* Fault: the body of the request is not consumed.
FaultConsuming == Position

Consuming == Position + BodySize

\* The request is complete: it is answered and consumed.  The buffer feeds what
\* is left, unless the reaction is DISCONNECT.
Answer ==
    /\ phase = "responding"
    /\ HeaderKnown
    /\ BodySize # NoLength
    /\ BodyRead
    /\ last' = [request |-> request, answered |-> TRUE, written |-> Written(Type)]
    /\ ending' = ParsedEnding
    /\ Restored
    /\ IF ParsedEnding = "DISCONNECT"
       THEN /\ phase' = "closed"
            /\ UNCHANGED <<consumed, request>>
       ELSE /\ consumed' = consumed + Consuming
            /\ request' \in Requests
            /\ phase' = IF Left > Consuming THEN "responding" ELSE "reading"
    /\ UNCHANGED received

Next ==
    \/ Arrive
    \/ Disconnected
    \/ HeaderIncomplete
    \/ LengthMissing
    \/ BodyIncomplete
    \/ Answer

Spec == Init /\ [][Next]_vars
-----------------------------------------------------------------------------
TypeOK ==
    /\ request \in Requests
    /\ received \in Nat /\ consumed \in Nat
    /\ consumed <= received
    /\ parsePosition \in {0, HeaderSize}
    /\ bodySize \in Nat \union {NoLength}
    /\ requestType \in RequestTypes \union {"UNINVESTIGATED"}
    /\ ending \in {"OK", "DISCONNECT"}
    /\ phase \in {"reading", "responding", "closed"}
    /\ last.request \in Requests

\* While the session is open, _state is that of the request at the front of what
\* is left, or it is fresh: no call continues with what an earlier request left,
\* nor does a request end the session because an earlier one should have.
StateIsOfFront ==
    phase # "closed" =>
        /\ ending = "DISCONNECT" => request.close
        /\ IF bodySize = NoLength
           THEN parsePosition = 0 /\ requestType = "UNINVESTIGATED"
           ELSE /\ Left >= HeaderSize
                /\ parsePosition = HeaderSize
                /\ bodySize = request.length
                /\ requestType = request.type

\* A connection that waits for input has answered every request that has arrived
\* in full: respond() does not wait for a byte after it.
NothingUnanswered == phase = "reading" => Left < Size(request)

\* The response a request should get, by what it is and what its responder does.
Expected(r) ==
    CASE r.type = "WEIRD" -> "501"
      [] r.type # "WEIRD" /\ r.responder.ends = "throws" -> "500"
      [] r.type = "GET" /\ r.responder.ends = "false" -> "404"
      [] r.type = "POST" /\ r.responder.ends = "false" -> "400"
      [] r.type # "WEIRD" /\ r.responder.ends = "true" ->
            IF r.responder.writes = "nothing" THEN "204" ELSE "200"

\* A responder that reports no error after it has begun a response: what it
\* streamed ahead stands, and one of unknown size is not sent if it fails.
Sound(b) == /\ b.ends = "false" => b.writes = "nothing"
            /\ b.ends = "throws" => b.writes # "known"

\* A request that was answered, and one that was taken off the stream was, has got
\* exactly one response if its responder is sound, and the one it should get: a
\* client that counts responses, as HttpClient does, pairs them with its requests.
\* (A POST request without Content-Length gets none: it ends the session, and
\* nothing behind it is read.)
OneResponseEach ==
    /\ consumed > 0 => last.answered
    /\ last.answered /\ Sound(last.request.responder) =>
            last.written = <<Expected(last.request)>>

\* README, error handling: the toplevel protocol "catches all exceptions and turns
\* them into Error 500 responses".
ExceptionIs500 ==
    last.answered /\ last.request.type # "WEIRD"
        /\ last.request.responder.ends = "throws" => last.written = <<"500">>

\* A session consumes whole requests off the stream, in order: it is a responder
\* of the kind the receive buffer is specified for.
MS == INSTANCE MessageStream
        WITH MessageLengths <- {Size(r) : r \in Requests},
             pending <- Stream(consumed, received),
             msgLength <- Size(request),
             open <- phase # "closed"
ImplementsStream == MS!Spec
=============================================================================
