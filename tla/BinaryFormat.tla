---------------------------- MODULE BinaryFormat ----------------------------
(***************************************************************************)
(* BinaryFormat with LittleEndianNumberFormat                              *)
(* (src/bomba_binary_protocol.hpp): numbers as wide as their types, sizes  *)
(* before strings, arrays and maps, and objects without names.             *)
(***************************************************************************)
EXTENDS Integers, Sequences, SequencesExt

CONSTANTS
    SizeBytes,   \* sizeof(SizeType), 1, 2 or (within TLC's integers) 3
    MaxDepth     \* how deep arrays may be nested for the reader, at least 1

NoName == <<>>

\* prepareNumber(): a negative number is its two's complement.
LittleEndian(n, bytes) == [i \in 1 .. bytes |-> (n \div 256 ^ (i - 1)) % 256]

\* Fault: the byte that has the sign is not taken for it.
FaultSigned(n, bytes) == n
Signed(n, bytes) == IF n >= 128 * 256 ^ (bytes - 1) THEN n - 256 ^ bytes ELSE n

Size(n) == LittleEndian(n, SizeBytes)
Text(call) ==
    CASE call.call = "int" -> LittleEndian(call.value, call.type.bytes)
      [] call.call = "string" -> Size(Len(call.value)) \o call.value
      [] call.call = "bool" -> IF call.value THEN <<1>> ELSE <<0>>
      [] call.call = "optional" -> IF call.present THEN <<1>> ELSE <<0>>
      [] call.call = "startArray" -> Size(call.size)
      [] call.call = "startObject" -> IF call.known THEN <<>> ELSE Size(call.size)
      [] call.call = "member" ->
            IF call.known THEN <<>> ELSE Size(Len(call.name)) \o call.name
      [] call.call \in {"element", "endArray", "endObject"} -> <<>>
-----------------------------------------------------------------------------
\* "sizes" has _sizes up to _depth.
Input(text) == [text |-> text, at |-> 0, good |-> TRUE, sizes |-> <<>>]
Result(in, value) == [in |-> in, value |-> value]

Failed(in) == [in EXCEPT !.good = FALSE]

\* The next n bytes.
Taken(in, n) == IF in.at + n > Len(in.text) THEN Failed(in) ELSE [in EXCEPT !.at = @ + n]
Bytes(in, n) == SubSeq(in.text, in.at + 1, in.at + n)

ReadUnsigned(in, n) ==
    Result(Taken(in, n), FoldRight(LAMBDA byte, rest : 256 * rest + byte, Bytes(in, n), 0))

ReadInt(in, type) ==
    LET number == ReadUnsigned(in, type.bytes)
    IN Result(number.in, Signed(number.value, type.bytes))

ReadString(in) ==
    LET length == ReadUnsigned(in, SizeBytes)
    IN IF ~length.in.good THEN Result(length.in, <<>>)
       ELSE Result(Taken(length.in, length.value), Bytes(length.in, length.value))

ReadBool(in) == Result(Taken(in, 1), Bytes(in, 1) # <<0>>)
ReadPresent(in) == ReadBool(in)

StartReadingArray(in) ==
    LET size == ReadUnsigned(in, SizeBytes)
    IN IF Len(in.sizes) = MaxDepth THEN Failed(in)
       ELSE [size.in EXCEPT !.sizes = Append(@, size.value)]

\* The element that is asked about is counted off before the question is answered.
NextArrayElement(in) ==
    LET left == in.sizes[Len(in.sizes)] - 1
    IN Result([in EXCEPT !.sizes[Len(in.sizes)] = left], left > 0)
EndReadingArray(in) ==
    IF in.sizes = <<>> THEN in ELSE [in EXCEPT !.sizes = Front(@)]

\* An object whose layout is known goes on for as long as the callback wants.
OpenObject(in, known) == IF known THEN Result(in, 0) ELSE ReadUnsigned(in, SizeBytes)
NextMember(in, known, size, index) ==
    IF known THEN Result(in, <<NoName>>)
    ELSE IF index = size THEN Result(in, <<>>)
    ELSE LET name == ReadString(in) IN Result(name.in, <<name.value>>)
CloseObject(in, known) == in

SkipObjectElement(in) == Failed(in)
=============================================================================
