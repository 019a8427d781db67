--------------------------- MODULE MessageStream ---------------------------
(***************************************************************************)
(* What a server-side receive buffer promises to the protocol above it: a  *)
(* byte stream that arrives in pieces is handed over as whole messages, in *)
(* order, without losing, duplicating or reordering a byte, until the      *)
(* connection is closed.                                                   *)
(***************************************************************************)
EXTENDS Naturals, Sequences, ByteStream

CONSTANT MessageLengths    \* the lengths a message of the protocol may have

VARIABLES
    pending,      \* the bytes that arrived and belong to no handed-over message
    received,     \* how many bytes arrived
    msgLength,    \* the length of the message at the front of the stream
    open          \* whether the connection is still served

absVars == <<pending, received, msgLength, open>>

Init ==
    /\ pending = <<>>
    /\ received = 0
    /\ msgLength \in MessageLengths
    /\ open = TRUE

\* A piece of the stream, of any length, arrives.
Arrive ==
    /\ open
    /\ received' \in Nat
    /\ received' > received
    /\ pending' = pending \o Stream(received, received')
    /\ UNCHANGED <<msgLength, open>>

\* The message at the front is complete and is handed over.
HandOver ==
    /\ open
    /\ Len(pending) >= msgLength
    /\ pending' = SubSeq(pending, msgLength + 1, Len(pending))
    /\ msgLength' \in MessageLengths
    /\ UNCHANGED <<received, open>>

\* Either side gives the connection up.
Close ==
    /\ open
    /\ open' = FALSE
    /\ UNCHANGED <<pending, received, msgLength>>

Next ==
    \/ Arrive
    \/ HandOver
    \/ Close

Spec == Init /\ [][Next]_absVars
=============================================================================
