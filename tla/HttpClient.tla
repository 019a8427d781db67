----------------------------- MODULE HttpClient -----------------------------
(***************************************************************************)
(* HttpClient (src/bomba_http.hpp) over SyncNetworkClient.  Responses have *)
(* no token: the n-th one in the stream is that of the n-th request.  A    *)
(* call searches until it has its response, each time with a new           *)
(* ParseState; within a search the ParseState is replaced after a response *)
(* that is kept, and not after the one that was asked for.                 *)
(*                                                                         *)
(* hasResponse() is getResponse() with another callback: it waits.         *)
(***************************************************************************)
EXTENDS SyncNetworkClient

VARIABLES
    frame,           \* the size of the response that the ParseState of the
                     \* search knows, 0 as long as it knows none
    lastTokenRead    \* _lastTokenRead

vars == <<workload, written, ends, malformed, arrived, closed, leftStart, leftEnd,
          responses, call, handed, returned, polls, frame, lastTokenRead>>

-----------------------------------------------------------------------------
Parsing == call.at = "parse" /\ Speaks("http")

Front == BeginningAt(leftStart)

\* A header that begins at a response and is complete can be parsed if it is HTTP.
\* (What is parsed from the middle of a response on is not modelled: the run that
\* gets there shows the step before it.)
HeaderKnown == frame # 0 \/ (Front \notin {None, malformed} /\ Left >= HeaderSize)

FrameSize == IF frame # 0 THEN frame ELSE ends[Front] - leftStart
Frame == [from |-> leftStart, to |-> leftStart + FrameSize]

\* A response without a body has no Content-Length, either, when it is a "204 No
\* Content" of HttpServer.  The ParseState of one that was taken parses on behind
\* its header, where the next response has no header: it reads on or gives up.
ParsesOn == frame = HeaderSize /\ ~workload.emptyHasLength

\* Fault: the size of the body is not looked at.
FaultComplete == HeaderKnown

\* An empty body counts as complete however few bytes there are.
Complete ==
    /\ HeaderKnown /\ ~ParsesOn
    /\ FrameSize = HeaderSize \/ Left >= FrameSize

\* Fault: the response at the front is always the one asked for.
FaultAskedFor == TRUE

AskedFor == call.token = lastTokenRead + 1

Counted == lastTokenRead + 1

ReadOn ==
    /\ Parsing
    /\ HeaderKnown \/ (Front # None /\ Left < HeaderSize)
    /\ ~Complete
    /\ ReaderReadOn
    /\ UNCHANGED <<frame, lastTokenRead>>

TakeResponse ==
    /\ Parsing
    /\ Complete
    /\ AskedFor
    /\ ReaderOK(Frame)
    /\ frame' = FrameSize
    /\ lastTokenRead' = Counted

\* Fault: the count is increased before the callback is called.
FaultCountedBefore == Counted

CountedAfterThrow == lastTokenRead

\* The callback throws when the response is an error (RemoteError).  The
\* exception goes through searchRequests(): nothing is taken off _leftovers.
TakeError ==
    /\ Parsing
    /\ workload.errors
    /\ Complete
    /\ AskedFor
    /\ call.op = "get"
    /\ Handing(Frame)
    /\ returned' = returned \union {call.token}
    /\ call' = App
    /\ frame' = 0
    /\ lastTokenRead' = CountedAfterThrow
    /\ UNCHANGED <<workload, network, leftStart, leftEnd, responses, polls>>

\* A frame longer than what is left cannot be copied: the vector's constructor
\* throws.
KeepResponse ==
    /\ Parsing
    /\ Complete
    /\ ~AskedFor
    /\ IF FrameSize <= Left
       THEN ReaderWrongReply(lastTokenRead + 1, Frame)
       ELSE /\ call' = [call EXCEPT !.at = "exception"]
            /\ UNCHANGED <<workload, network, leftStart, leftEnd, responses, handed,
                           returned, polls>>
    /\ frame' = 0
    /\ lastTokenRead' = Counted

\* The parser says DISCONNECT: done is set (wasReceived stands for it here), and
\* getResponse() will return without calling back.  Nothing is taken off
\* _leftovers or out of _responses: the next call meets the same header.
Disconnect ==
    /\ call' = [call EXCEPT !.at = "done", !.wasReceived = TRUE]
    /\ UNCHANGED <<workload, network, leftStart, leftEnd, responses, handed,
                   returned, polls, frame, lastTokenRead>>

\* A header that is not HTTP is found to be so, at its end or before.
GiveUp ==
    /\ Parsing
    /\ frame = 0
    /\ Front # None /\ Front = malformed
    /\ Disconnect

\* It was kept, cut off by a ParseState that knew the size of the one before it.
KeptMalformed ==
    \E e \in Found(call.token) : BeginningAt(e.piece.from) \in {malformed} \ {None}

FindMalformed ==
    /\ Speaks("http")
    /\ call.at = "search"
    /\ KeptMalformed
    /\ Disconnect

\* while (!done): a search that ended without the response is followed by another.
SearchAgain ==
    /\ call.at = "done"
    /\ Speaks("http")
    /\ ~call.wasReceived
    /\ call' = [call EXCEPT !.at = "search"]
    /\ UNCHANGED <<workload, network, leftStart, leftEnd, responses, handed,
                   returned, polls, frame, lastTokenRead>>

\* Fault: the call returns after one search.
FaultReturnDone == Speaks("http") /\ Return /\ UNCHANGED <<frame, lastTokenRead>>

ReturnDone ==
    /\ Speaks("http")
    /\ call.wasReceived
    /\ Return
    /\ UNCHANGED <<frame, lastTokenRead>>

StartSearch == Speaks("http") /\ FindNothing /\ frame' = 0 /\ UNCHANGED lastTokenRead

\* What is kept, and what can be read, are the same for every protocol.
Socket ==
    /\ Speaks("http")
    /\ (FindKept /\ ~KeptMalformed) \/ ReadSome \/ ReadFails
    /\ UNCHANGED <<frame, lastTokenRead>>

HttpNext ==
    \/ StartSearch \/ Socket
    \/ ReadOn \/ TakeResponse \/ TakeError \/ KeepResponse
    \/ GiveUp \/ FindMalformed
    \/ SearchAgain \/ ReturnDone
-----------------------------------------------------------------------------
\* The count of responses read, by which HTTP pairs them, follows the framing:
\* what _leftovers begin with is response lastTokenRead + 1, and nothing else.
CountFollowsFraming ==
    Speaks("http") =>
        leftStart = (IF lastTokenRead = 0 THEN 0 ELSE ends[lastTokenRead])

\* test "Testing HTTP out of order", "Should not throw exceptions", and the
\* assertion in searchRequests(), "First it was WRONG_REPLY, now it is READ_ON?".
NeverThrows == call.at # "exception"

\* getResponse() of HTTP returns only after it has handed over the response, however
\* many searches it takes, as long as the server sends nothing but HTTP: the one way
\* out of its loop without a call of the callback is DISCONNECT.
HttpWaitsForResponse == Speaks("http") /\ malformed = None => WaitsForResponse
=============================================================================
