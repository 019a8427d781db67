------------------------- MODULE SyncNetworkClient -------------------------
(***************************************************************************)
(* SyncNetworkClient (src/bomba_sync_client.hpp): requests go out over one *)
(* connection, their responses come back in the order of the requests, and *)
(* the application asks for them in any order.  searchRequests() reads the *)
(* stream, lets a reader of the protocol cut it into responses, and keeps  *)
(* the responses that were not asked for yet.                              *)
(*                                                                         *)
(* This module has what is common to the protocols: the application, the   *)
(* network, the state of the client and what searchRequests() does with    *)
(* each answer of the reader.  HttpClient and BinaryClient complete it     *)
(* with their readers.                                                     *)
(*                                                                         *)
(* Requests are numbered from 1 in the order they are sent.  Bytes are     *)
(* named by their position in the stream; a piece of the stream is given   *)
(* by its ends: [from |-> a, to |-> b] is the bytes a + 1 .. b.            *)
(***************************************************************************)
EXTENDS Integers, Sequences, FiniteSets

CONSTANTS
    Requests,      \* BOUND: how many requests the application sends
    HeaderSize,    \* bytes before the body of a response
    ReadSize,      \* the size of responseBuffer
    Polls,         \* BOUND: how many times hasResponse() is called
    Workloads      \* how the client is used: the protocol, how many requests may be
                   \* under way,
                   \* the sizes of the bodies of their responses, and for
                   \* HTTP if an empty body has a Content-Length, if a
                   \* response may be an error, and if one of them may have
                   \* a header that is not HTTP

ASSUME ClientAssumption ==
    /\ Requests \in Nat /\ Polls \in Nat
    /\ HeaderSize \in Nat \ {0} /\ ReadSize \in Nat \ {0}
    /\ \A w \in Workloads : /\ w.protocol \in {"http", "binary"}
                            /\ w.underWay \in Nat /\ w.bodies \subseteq Nat
                            /\ w.malformed => w.protocol = "http"

VARIABLES
    workload,      \* the member of Workloads this run of the program has
    written,       \* how many requests were written to the socket
    ends,          \* where in the stream the responses the server wrote end
    malformed,     \* the response whose header is not HTTP, or None
    arrived,       \* how many bytes of the stream arrived at the client's socket
    closed,        \* whether the server ended the connection
    leftStart,     \* _leftovers is the bytes leftStart + 1 .. leftEnd
    leftEnd,
    responses,     \* _responses: the unread responses by their tokens
    call,          \* the call in progress
    handed,        \* what was handed to the callbacks of the application
    returned,      \* the requests whose getResponse() ended with their response
    polls          \* how many times hasResponse() was called

network == <<written, ends, malformed, arrived, closed>>
clientVars == <<workload, written, ends, malformed, arrived, closed, leftStart,
                leftEnd, responses, call, handed, returned, polls>>
-----------------------------------------------------------------------------
Tokens == 1 .. Requests

Speaks(protocol) == workload.protocol = protocol

Start(t) == IF t = 1 THEN 0 ELSE ends[t - 1]

\* The response to request t, as the server wrote it, and as a map entry.
Response(t) == [from |-> Start(t), to |-> ends[t]]
Entry(t, piece) == [token |-> t, piece |-> piece]

None == 0

\* What the callback of the application is given of a response: its body.  For an
\* HTTP response without Content-Length bodySize is -1, and the span ends one byte
\* before it begins.
Body(piece) == [from |-> piece.from + HeaderSize, to |-> piece.to]
NoLength(piece) ==
    Speaks("http") /\ ~workload.emptyHasLength /\ piece.to = piece.from + HeaderSize
HandedBody(piece) ==
    IF NoLength(piece) THEN [Body(piece) EXCEPT !.to = piece.to - 1] ELSE Body(piece)

\* The response that begins at position p of the stream, or None.
BeginningAt(p) ==
    IF \E t \in 1 .. Len(ends) : Start(t) = p
    THEN CHOOSE t \in 1 .. Len(ends) : Start(t) = p
    ELSE None

\* Does the piece hold all of the response that it begins with?
Whole(piece) ==
    LET t == BeginningAt(piece.from) IN t # None /\ ends[t] <= piece.to

Left == leftEnd - leftStart

App == [op |-> "none", token |-> None, at |-> "app", wasReceived |-> FALSE]
Found(t) == {e \in responses : e.token = t}
-----------------------------------------------------------------------------
ClientInit ==
    /\ workload \in Workloads
    /\ written = 0 /\ ends = <<>> /\ malformed = None /\ arrived = 0 /\ closed = FALSE
    /\ leftStart = 0 /\ leftEnd = 0
    /\ responses = {}
    /\ call = App
    /\ handed = {} /\ returned = {}
    /\ polls = 0

\* The server answers the requests in order, with bodies of any size ...
Answer ==
    /\ ~closed
    /\ Len(ends) < written
    /\ \E b \in workload.bodies :
        ends' = Append(ends, Start(Len(ends) + 1) + HeaderSize + b)
    /\ \/ malformed' = malformed
       \/ workload.malformed /\ malformed = None /\ malformed' = Len(ends) + 1
    /\ UNCHANGED <<workload, written, arrived, closed, leftStart, leftEnd,
                   responses, call, handed, returned, polls>>

\* ... the stream arrives in pieces that respect no boundary ...
Arrive ==
    /\ ends # <<>>
    /\ arrived' \in (arrived + 1) .. ends[Len(ends)]
    /\ UNCHANGED <<workload, written, ends, malformed, closed, leftStart, leftEnd,
                   responses, call, handed, returned, polls>>

\* ... and the connection may end, cutting off what the server has not written.
CloseConnection ==
    /\ ~closed
    /\ closed' = TRUE
    /\ UNCHANGED <<workload, written, ends, malformed, arrived, leftStart, leftEnd,
                   responses, call, handed, returned, polls>>

\* writeRequest(), between the calls that ask for responses.
WriteRequest ==
    /\ call.at = "app"
    /\ ~closed
    /\ written < Requests
    /\ written - Cardinality(returned) < workload.underWay
    /\ written' = written + 1
    /\ UNCHANGED <<workload, ends, malformed, arrived, closed, leftStart, leftEnd,
                   responses, call, handed, returned, polls>>

\* getResponse() of a request that was sent, whose response was not taken yet.
GetResponse(t) ==
    /\ call.at = "app"
    /\ t <= written
    /\ t \notin returned
    /\ call' = [op |-> "get", token |-> t, at |-> "search", wasReceived |-> FALSE]
    /\ UNCHANGED <<workload, network, leftStart, leftEnd, responses, handed,
                   returned, polls>>

\* hasResponse(), which Future::is_ready() calls until it has the response.
HasResponse(t) ==
    /\ call.at = "app"
    /\ polls < Polls
    /\ t <= written
    /\ t \notin returned
    /\ polls' = polls + 1
    /\ call' = [op |-> "has", token |-> t, at |-> "search", wasReceived |-> FALSE]
    /\ UNCHANGED <<workload, network, leftStart, leftEnd, responses, handed, returned>>
-----------------------------------------------------------------------------
(***************************************************************************)
(* The steps of searchRequests().  A step that ends the search goes to     *)
(* "done": what the caller of it does then is up to the protocol.          *)
(***************************************************************************)
Handing(piece) ==
    handed' = handed \union
        {[op |-> call.op, token |-> call.token, body |-> HandedBody(piece)]}

\* A response that was kept is read, and stays kept.  If the reader does not find
\* it whole, logicError("First it was WRONG_REPLY, now it is READ_ON?") throws.
FindKept ==
    /\ call.at = "search"
    /\ \E e \in Found(call.token) :
        IF Whole(e.piece)
        THEN /\ Handing(Response(BeginningAt(e.piece.from)))
             /\ call' = [call EXCEPT !.at = "done", !.wasReceived = TRUE]
        ELSE /\ call' = [call EXCEPT !.at = "exception"]
             /\ UNCHANGED handed
    /\ UNCHANGED <<workload, network, leftStart, leftEnd, responses, returned, polls>>

FindNothing ==
    /\ call.at = "search"
    /\ Found(call.token) = {}
    /\ call' = [call EXCEPT !.at = "read"]
    /\ UNCHANGED <<workload, network, leftStart, leftEnd, responses, handed,
                   returned, polls>>

\* read_some(): what has arrived, up to the size of the buffer.
ReadSome ==
    /\ call.at = "read"
    /\ arrived > leftEnd
    /\ leftEnd' = IF arrived - leftEnd > ReadSize THEN leftEnd + ReadSize ELSE arrived
    /\ call' = [call EXCEPT !.at = "parse"]
    /\ UNCHANGED <<workload, network, leftStart, responses, handed, returned, polls>>

\* tryToGetResponse(): nothing is available(), so do not wait.
NothingAvailable ==
    /\ call.at = "read"
    /\ arrived = leftEnd
    /\ call' = [call EXCEPT !.at = "done"]
    /\ UNCHANGED <<workload, network, leftStart, leftEnd, responses, handed,
                   returned, polls>>

\* read_some() ends with an error: remoteError() throws to the application, which
\* may go on with the responses it has.
ReadFails ==
    /\ call.at = "read"
    /\ closed
    /\ arrived = leftEnd
    /\ call' = App
    /\ UNCHANGED <<workload, network, leftStart, leftEnd, responses, handed,
                   returned, polls>>

\* Fault: wasReceived is not looked at; fault: it ends the inner loop, too.
FaultNeverDone(to, received) == IF leftEnd > to THEN "parse" ELSE "read"
FaultDoneAtOnce(to, received) ==
    IF received THEN "done" ELSE IF leftEnd > to THEN "parse" ELSE "read"

\* After a response was cut off: look at the rest, or read on, or end.
AfterResponse(to, received) ==
    IF leftEnd > to THEN "parse" ELSE IF received THEN "done" ELSE "read"

\* The reader says OK: it has taken the response the call asked for.
ReaderOK(piece) ==
    /\ call.at = "parse"
    /\ Handing(piece)
    /\ leftStart' = piece.to
    /\ call' = [call EXCEPT !.wasReceived = TRUE, !.at = AfterResponse(piece.to, TRUE)]
    /\ UNCHANGED <<workload, network, leftEnd, responses, returned, polls>>

\* Fault: the response is not kept; fault: all of _leftovers is kept.
FaultNotKept(t, piece) == responses
FaultKeptTooMuch(t, piece) ==
    responses \union {Entry(t, [from |-> leftStart, to |-> leftEnd])}

\* _responses.insert(): an entry the token already has stays.
Kept(t, piece) ==
    IF Found(t) = {} THEN responses \union {Entry(t, piece)} ELSE responses

\* The reader says WRONG_REPLY: it found a response that is to be kept.
ReaderWrongReply(t, piece) ==
    /\ call.at = "parse"
    /\ responses' = Kept(t, piece)
    /\ leftStart' = piece.to
    /\ call' = [call EXCEPT !.at = AfterResponse(piece.to, call.wasReceived)]
    /\ UNCHANGED <<workload, network, leftEnd, handed, returned, polls>>

\* The reader says READ_ON: the search ends, with or without the response.
ReaderReadOn ==
    /\ call.at = "parse"
    /\ call' = [call EXCEPT !.at = "done"]
    /\ UNCHANGED <<workload, network, leftStart, leftEnd, responses, handed,
                   returned, polls>>

\* The call of the application returns.
Return ==
    /\ call.at = "done"
    /\ returned' = IF call.op = "get" THEN returned \union {call.token} ELSE returned
    /\ call' = App
    /\ UNCHANGED <<workload, network, leftStart, leftEnd, responses, handed, polls>>
-----------------------------------------------------------------------------
ClientTypeOK ==
    /\ workload \in Workloads
    /\ written \in 0 .. Requests
    /\ ends \in Seq(Nat) /\ Len(ends) <= written /\ malformed \in 0 .. Len(ends)
    /\ arrived \in Nat /\ closed \in BOOLEAN
    /\ leftStart \in Nat /\ leftEnd \in Nat
    /\ leftStart <= leftEnd /\ leftEnd <= arrived
    /\ \A e \in responses : e.token \in Nat /\ Cardinality(Found(e.token)) = 1
    /\ call \in [op : {"none", "get", "has"}, token : Tokens \union {None},
                 at : {"app", "search", "read", "parse", "done", "exception"},
                 wasReceived : BOOLEAN]
    /\ \A h \in handed : h.token \in Tokens
    /\ returned \subseteq Tokens
    /\ polls \in 0 .. Polls

\* Whatever is kept under a token is that request's response, complete and with
\* nothing of its neighbours: pairing and framing survive any order of asking.
KeptResponsesWhole ==
    \A e \in responses : e.token \in 1 .. Len(ends) /\ e.piece = Response(e.token)

\* A callback is only ever given the body of the response to its own request: all
\* of it and nothing else.  Left out is a response without Content-Length, whose
\* callback is called, with a span of length -1 instead of an empty one.
RightResponse ==
    \A h \in handed :
        /\ h.token \in 1 .. Len(ends)
        /\ NoLength(Response(h.token)) \/ h.body = Body(Response(h.token))

\* Nothing is promised of a response that is not HTTP, and of those behind it: the
\* client never gets past it.
Readable(t) == malformed = None \/ t < malformed

\* A response that was cut off the stream was handed over or is kept: later
\* getResponse() calls for it can succeed.
NothingDropped ==
    \A t \in 1 .. Len(ends) :
        ends[t] <= leftStart =>
            \/ Found(t) # {}
            \/ \E h \in handed : h.token = t

\* Between calls no complete response waits in _leftovers, where no search
\* would see it before more bytes arrive, unless it was an error that was thrown.
NothingOverlooked ==
    call.at = "app" =>
        \A t \in 1 .. Len(ends) :
            leftStart < ends[t] /\ ends[t] <= leftEnd /\ Readable(t) => t \in returned

\* getResponse() returns only after it has handed over the response.
WaitsForResponse ==
    \A t \in returned : \E h \in handed : h.op = "get" /\ h.token = t

\* The state a search leaves behind does not make getResponse() hang: it
\* returns, or throws, if its response was not taken away by hasResponse() and
\* can be read.
GetReturns ==
    \A t \in Tokens :
        (call.op = "get" /\ call.token = t /\ t \notin {h.token : h \in handed})
            ~> (call.at = "app" \/ ~Readable(t))
=============================================================================
