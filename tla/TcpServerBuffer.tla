-------------------------- MODULE TcpServerBuffer --------------------------
(***************************************************************************)
(* TcpServerBuffer (src/bomba_tcp_server.hpp) and the session loop that    *)
(* drives it.                                                              *)
(*                                                                         *)
(* A session reads from its socket into space(), a region of a fixed array *)
(* or, for messages that do not fit there, of a growing vector, and calls  *)
(* receive().  receive() feeds the kept bytes to the responder, message by *)
(* message, and then decides where the next read may write.  Positions in  *)
(* the two stores are offsets from 0, as in the code; the stores are       *)
(* sequences, so the byte at offset k is store[k + 1].                     *)
(*                                                                         *)
(* A byte is named by its position in the stream of the connection, and 0  *)
(* stands for a byte no read has written (the code zero-fills both stores).*)
(* The responder is any protocol that can tell from the bytes it is fed    *)
(* whether they begin with a complete message; msgLength is the length of  *)
(* the message the stream continues with.                                  *)
(***************************************************************************)
EXTENDS Integers, Sequences, ByteStream

CONSTANTS
    ResponseMaxSize,    \* the most one read may take into the empty array
    ResponseBufferSize, \* the size of the array
    MessageLengths,     \* the lengths of the messages the peer may send
    StreamLength        \* BOUND: how many bytes the peer sends

ASSUME SizesAssumption ==
    /\ ResponseMaxSize \in Nat \ {0}
    /\ ResponseBufferSize \in Nat
    /\ ResponseBufferSize >= ResponseMaxSize

ASSUME MessagesAssumption ==
    /\ MessageLengths \subseteq Nat \ {0}
    /\ MessageLengths # {}
    /\ StreamLength \in Nat

VARIABLES
    array,       \* _responseArray
    vector,      \* _longLeftovers, <<>> when unused
    keptStart,   \* _keptStart
    keptEnd,     \* _keptEnd
    space,       \* _responseBuffer: which store, from which offset, how long
    phase,       \* "reading": async_receive is pending; "feeding": in receive()
    readStart,   \* previousReadStart, a local variable of receive()
    received,    \* how many bytes the reads have delivered
    parsed,      \* how many bytes the responder has consumed as messages
    msgLength    \* the length of the message that starts at byte parsed + 1

stores == <<array, vector, keptStart, keptEnd, space>>
vars == <<array, vector, keptStart, keptEnd, space, phase, readStart,
          received, parsed, msgLength>>
-----------------------------------------------------------------------------
Zeros(n) == [i \in 1 .. n |-> 0]

\* store with bytes written over it from offset k on (memcpy, memmove, a read).
Overwrite(store, k, bytes) ==
    [i \in 1 .. Len(store) |->
        IF i > k /\ i <= k + Len(bytes) THEN bytes[i - k] ELSE store[i]]

\* The bytes of store from offset a up to, but not including, offset b.
Slice(store, a, b) == SubSeq(store, a + 1, b)

Least(a, b) == IF a <= b THEN a ELSE b

\* The store that is in use, and what readBuffer feeds to the responder.
Store == IF vector = <<>> THEN array ELSE vector
Kept == Slice(Store, keptStart, keptEnd)

InArray(offset, length) == [in |-> "array", offset |-> offset, length |-> length]
InVector(offset, length) == [in |-> "vector", offset |-> offset, length |-> length]

-----------------------------------------------------------------------------
(***************************************************************************)
(* The decisions and small moves of receive().  Each is preceded by a      *)
(* faulty variant, the mistake that the property it breaks is there for.   *)
(***************************************************************************)

\* resize(_keptEnd): shrink the vector to the n bytes that were filled.
FaultShrunkTooFar(v, n) == Slice(v, 0, n - 1)
FaultNotShrunk(v, n) == v
Shrunk(v, n) == Slice(v, 0, n)

\* Does the parsing loop stop after a message that ends at offset start?
FaultOneMessagePerRead(start) == TRUE
LoopEnds(start) == start >= keptEnd

\* Do the leftovers of the vector go back to the array?
FaultVectorKept(left) == FALSE
FitsArray(left) == Len(left) <= ResponseBufferSize

\* Is there more room before the kept bytes than behind them?
FaultMoveOnlyWhenFull(start, end) == start > 0 /\ end = ResponseBufferSize
MoreSpaceAtStart(start, end) == start > ResponseBufferSize - end

\* memmove: the kept bytes go to the front of the array.
FaultNotMoved(arr, start, end) == arr
Compacted(arr, start, end) == Overwrite(arr, 0, Slice(arr, start, end))

\* How much one read may take behind kept bytes that were moved by start.
FaultWholeRead(start) == ResponseMaxSize
SpaceAfterMove(start) == Least(start, ResponseMaxSize)
-----------------------------------------------------------------------------
Init ==
    /\ array = Zeros(ResponseBufferSize)
    /\ vector = <<>>
    /\ keptStart = 0
    /\ keptEnd = 0
    /\ space = InArray(0, ResponseMaxSize)
    /\ phase = "reading"
    /\ readStart = 0
    /\ received = 0
    /\ parsed = 0
    /\ msgLength \in MessageLengths

(***************************************************************************)
(* The pending read completes with n bytes and receive() is called.  When  *)
(* the vector is in use, it is shrunk to the bytes actually read.          *)
(***************************************************************************)
Receive(n) ==
    /\ phase = "reading"
    /\ n \in 1 .. space.length
    /\ received + n <= StreamLength
    /\ LET bytes == Stream(received, received + n)
       IN  IF space.in = "array"
           THEN /\ array' = Overwrite(array, space.offset, bytes)
                /\ UNCHANGED vector
           ELSE /\ vector' = Shrunk(Overwrite(vector, space.offset, bytes), keptEnd + n)
                /\ UNCHANGED array
    /\ keptEnd' = keptEnd + n
    /\ readStart' = keptStart
    /\ received' = received + n
    /\ phase' = "feeding"
    /\ UNCHANGED <<keptStart, space, parsed, msgLength>>

\* The read fails, or ends with no data: the session is cancelled.
Fail ==
    /\ phase = "reading"
    /\ phase' = "closed"
    /\ UNCHANGED <<stores, readStart, received, parsed, msgLength>>
-----------------------------------------------------------------------------
(***************************************************************************)
(* The end of receive(): bytes start .. end - 1 of the array arr are still *)
(* to be parsed; choose where the next read writes.                        *)
(***************************************************************************)
FullArrayToVector(arr, start, end) ==
    /\ start = 0 /\ end = ResponseBufferSize
    /\ vector' = arr \o Zeros(ResponseBufferSize)
    /\ space' = InVector(end, ResponseBufferSize)
    /\ array' = arr
    /\ keptStart' = start /\ keptEnd' = end

StartAfresh(arr, start, end) ==
    /\ start = end
    /\ space' = InArray(0, ResponseMaxSize)
    /\ array' = arr /\ vector' = <<>>
    /\ keptStart' = 0 /\ keptEnd' = 0

MoveToFront(arr, start, end) ==
    /\ start # end
    /\ MoreSpaceAtStart(start, end)
    /\ array' = Compacted(arr, start, end)
    /\ vector' = <<>>
    /\ space' = InArray(end - start, SpaceAfterMove(start))
    /\ keptStart' = 0 /\ keptEnd' = end - start

ReadBehind(arr, start, end) ==
    /\ start # end
    /\ ~(start = 0 /\ end = ResponseBufferSize)
    /\ ~MoreSpaceAtStart(start, end)
    /\ space' = InArray(end, Least(ResponseBufferSize - end, ResponseMaxSize))
    /\ array' = arr /\ vector' = <<>>
    /\ keptStart' = start /\ keptEnd' = end

SettleArray(arr, start, end) ==
    \/ FullArrayToVector(arr, start, end)
    \/ StartAfresh(arr, start, end)
    \/ MoveToFront(arr, start, end)
    \/ ReadBehind(arr, start, end)

\* Long leftovers stay in the vector: make room behind them.
GrowVector(leftovers, start) ==
    /\ vector' = leftovers \o Zeros(ResponseBufferSize)
    /\ keptStart' = start
    /\ keptEnd' = Len(leftovers)
    /\ space' = InVector(Len(leftovers), ResponseBufferSize)
    /\ UNCHANGED array

\* The end of receive() when parsing stopped at offset start.  Leftovers in the
\* vector of which something was parsed go back to the array if they fit there.
Settle(start) ==
    LET left == Slice(vector, start, Len(vector))
    IN  \/ /\ vector = <<>>
           /\ SettleArray(array, start, keptEnd)
        \/ /\ vector # <<>>
           /\ start = readStart
           /\ GrowVector(vector, start)
        \/ /\ vector # <<>>
           /\ start # readStart
           /\ IF FitsArray(left)
              THEN SettleArray(Overwrite(array, 0, left), 0, Len(left))
              ELSE GrowVector(left, 0)
-----------------------------------------------------------------------------
(***************************************************************************)
(* One round of the loop of receive(): readBuffer feeds the kept bytes.    *)
(***************************************************************************)

\* READ_ON: no complete message is left; receive() ends, the session reads on.
FeedIncomplete ==
    /\ phase = "feeding"
    /\ keptEnd - keptStart < msgLength
    /\ Settle(keptStart)
    /\ phase' = "reading"
    /\ UNCHANGED <<readStart, received, parsed, msgLength>>

\* OK: a message was parsed; the loop goes on unless nothing is kept any more.
FeedMessage ==
    /\ phase = "feeding"
    /\ keptEnd - keptStart >= msgLength
    /\ parsed' = parsed + msgLength
    /\ msgLength' \in MessageLengths
    /\ IF LoopEnds(keptStart + msgLength)
       THEN /\ Settle(keptStart + msgLength)
            /\ phase' = "reading"
       ELSE /\ keptStart' = keptStart + msgLength
            /\ UNCHANGED <<array, vector, keptEnd, space, phase>>
    /\ UNCHANGED <<readStart, received>>

\* DISCONNECT: the responder gives up; receive() returns false at once.
FeedDisconnect ==
    /\ phase = "feeding"
    /\ phase' = "closed"
    /\ UNCHANGED <<stores, readStart, received, parsed, msgLength>>

Feed == FeedIncomplete \/ FeedMessage \/ FeedDisconnect

Next ==
    \/ \E n \in 1 .. StreamLength : Receive(n)
    \/ Fail
    \/ FeedIncomplete
    \/ FeedMessage
    \/ FeedDisconnect

Spec == Init /\ [][Next]_vars

\* The handler runs to its end: nothing waits inside receive().
FairSpec == Spec /\ WF_vars(Feed)
-----------------------------------------------------------------------------
TypeOK ==
    /\ array \in Seq(Nat) /\ Len(array) = ResponseBufferSize
    /\ vector \in Seq(Nat)
    /\ keptStart \in Nat /\ keptEnd \in Nat
    /\ keptStart <= keptEnd /\ keptEnd <= Len(Store)
    /\ space \in [in : {"array", "vector"}, offset : Nat, length : Nat]
    /\ phase \in {"reading", "feeding", "closed"}
    /\ readStart \in Nat
    /\ received \in Nat /\ parsed \in Nat
    /\ msgLength \in MessageLengths

\* What the buffer holds for the responder is the stream from the end of the
\* last parsed message to the last byte that was read: whichever store it is
\* in, and however often readBuffer, memmove and memcpy shifted it.
StreamIntact == Kept = Stream(parsed, received)

\* The region handed to async_receive is not empty (a read into an empty region
\* ends with length 0, which receive() takes for the end of the stream), lies
\* in the live store and continues the kept bytes, so that no read overwrites
\* a byte that is still to be parsed or leaves a gap.
SpaceUsable ==
    phase = "reading" =>
        /\ space.length > 0
        /\ space.in = (IF vector = <<>> THEN "array" ELSE "vector")
        /\ space.offset = keptEnd
        /\ space.offset + space.length <= Len(Store)

\* A session that waits for the peer holds no complete message: a request
\* that came in one read with another one is answered without further input.
NoMessageLeftBehind == phase = "reading" => keptEnd - keptStart < msgLength

\* A waiting session owns heap memory only for a message that does not fit the
\* array, and no more than that message and one more read need.
VectorOnlyWhenNeeded ==
    phase = "reading" /\ vector # <<>> =>
        /\ keptStart = 0
        /\ keptEnd >= ResponseBufferSize
        /\ Len(vector) < msgLength + ResponseBufferSize

\* While the session waits, _keptStart is below half of the array (the code
\* fears, at its declaration, that it "can become extremely large").
KeptStartBounded == phase = "reading" => 2 * keptStart < ResponseBufferSize

\* The buffer is a message stream: every step of it is one of MessageStream on
\* the kept bytes, or is invisible there, the compaction of the stores included.
MS == INSTANCE MessageStream WITH pending <- Kept, open <- phase # "closed"
ImplementsStream == MS!Spec

\* A message whose last byte has been read is parsed, or the session is closed,
\* even if the peer never sends another byte.
EveryMessageParsed ==
    \A k \in 1 .. StreamLength :
        (received >= k /\ parsed < k /\ parsed + msgLength = k)
            ~> (parsed >= k \/ phase = "closed")
=============================================================================
