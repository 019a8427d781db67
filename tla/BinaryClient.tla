---------------------------- MODULE BinaryClient ----------------------------
(***************************************************************************)
(* BinaryProtocolClient (src/bomba_binary_protocol.hpp) over               *)
(* SyncNetworkClient.  A response starts with its token and its size.      *)
(* getResponse() searches once; hasResponse() searches without waiting,    *)
(* with the same reader.                                                   *)
(***************************************************************************)
EXTENDS SyncNetworkClient

Parsing == call.at = "parse" /\ Speaks("binary")

Front == BeginningAt(leftStart)

\* Fault: the response is taken for complete once its header can be read.
FaultComplete == Left >= HeaderSize

\* The bytes at hand hold the token, the size, and as many bytes as it says.
Complete == Left >= HeaderSize /\ leftEnd >= ends[Front]

\* Fault: the first response that comes is taken for the one asked for.
FaultAskedFor == TRUE

AskedFor == Front = call.token

ReadOn ==
    /\ Parsing
    /\ ~Complete
    /\ ReaderReadOn

TakeResponse ==
    /\ Parsing
    /\ Complete
    /\ AskedFor
    /\ ReaderOK(Response(Front))

KeepResponse ==
    /\ Parsing
    /\ Complete
    /\ ~AskedFor
    /\ ReaderWrongReply(Front, Response(Front))

\* read_some() waits or fails in getResponse(); hasResponse() asks for what is
\* available first.
FailToRead == call.op = "get" /\ ReadFails
ReadNothing == call.op = "has" /\ NothingAvailable

Socket ==
    /\ Speaks("binary")
    /\ \/ FindKept \/ FindNothing
       \/ ReadSome \/ FailToRead \/ ReadNothing

ReturnAnyhow == Speaks("binary") /\ Return

BinaryNext == Socket \/ ReadOn \/ TakeResponse \/ KeepResponse \/ ReturnAnyhow
-----------------------------------------------------------------------------
\* test "Testing binary RPC out of order", "Should not throw exceptions nor get
\* stuck", and README, "blocks until it's received": getResponse() returns only
\* after it has handed over the response.
GetWaitsForResponse == Speaks("binary") => WaitsForResponse
=============================================================================
