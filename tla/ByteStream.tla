----------------------------- MODULE ByteStream -----------------------------
(***************************************************************************)
(* Bytes are named by their position in the stream, 1, 2, 3, ...: two      *)
(* different bytes are never mistaken for each other.                      *)
(***************************************************************************)
EXTENDS Integers, Sequences

\* The bytes of the stream after position a, up to position b.
Stream(a, b) == [i \in 1 .. (b - a) |-> a + i]
=============================================================================
