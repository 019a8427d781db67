---------------------------- MODULE Serialisation ---------------------------
(***************************************************************************)
(* What can be serialised and how it is written: TypedSerialiser           *)
(* (src/bomba_core.hpp) and Serialisable (src/bomba_object.hpp).  Neither  *)
(* knows a format: they make calls of IStructuredOutput, which a format    *)
(* turns into text.  Here a value of a type is the sequence of the calls   *)
(* that write it.                                                          *)
(*                                                                         *)
(* Names and strings are sequences of bytes, an optional is a sequence of  *)
(* at most one value, a map is a function, an object the sequence of its   *)
(* members' values.                                                        *)
(***************************************************************************)
EXTENDS Integers, Sequences, SequencesExt

Number(bytes) == [is |-> "int", bytes |-> bytes]
String == [is |-> "string"]
Bool == [is |-> "bool"]
Optional(of) == [is |-> "optional", of |-> of]
Vector(of) == [is |-> "vector", of |-> of]
Array(of, size) == [is |-> "array", of |-> of, size |-> size]
Map(of) == [is |-> "map", of |-> of]
Member(name, type) == [name |-> name, type |-> type]
Class(members) == [is |-> "class", members |-> members]

\* A new value of a type: what resize(), emplace_back() or operator[] make.
RECURSIVE Default(_)
Default(type) ==
    CASE type.is = "int" -> 0
      [] type.is = "bool" -> FALSE
      [] type.is = "array" -> [i \in 1 .. type.size |-> Default(type.of)]
      [] type.is = "class" -> [i \in 1 .. Len(type.members) |-> Default(type.members[i].type)]
      [] OTHER -> <<>>
-----------------------------------------------------------------------------
\* "known" is the flag OBJECT_LAYOUT_KNOWN; a class sets it for its members too.
StartArray(size) == [call |-> "startArray", size |-> size]
Element(index) == [call |-> "element", index |-> index]
EndArray == [call |-> "endArray"]
StartObject(size, known) == [call |-> "startObject", size |-> size, known |-> known]
Introduce(name, index, known) ==
    [call |-> "member", name |-> name, index |-> index, known |-> known]
EndObject == [call |-> "endObject"]

RECURSIVE Calls(_, _, _)

OptionalCalls(value, type, known) ==
    <<[call |-> "optional", present |-> value # <<>>]>>
        \o FlattenSeq([i \in DOMAIN value |-> Calls(value[i], type.of, known)])

\* Of std::array and of what is like std::vector.
ArrayCalls(value, type, known) ==
    <<StartArray(Len(value))>>
        \o FlattenSeq([i \in DOMAIN value |->
                <<Element(i - 1)>> \o Calls(value[i], type.of, known)])
        \o <<EndArray>>

MapCalls(value, type, known) ==
    LET names == SetToSeq(DOMAIN value)
    IN <<StartObject(Len(names), known)>>
        \o FlattenSeq([i \in DOMAIN names |->
                <<Introduce(names[i], i - 1, known)>>
                    \o Calls(value[names[i]], type.of, known)])
        \o <<EndObject>>

\* Serialisable::serialiseInternal
ClassCalls(value, type) ==
    <<StartObject(Len(value), TRUE)>>
        \o FlattenSeq([i \in DOMAIN value |->
                <<Introduce(type.members[i].name, i - 1, TRUE)>>
                    \o Calls(value[i], type.members[i].type, TRUE)])
        \o <<EndObject>>

\* TypedSerialiser<T>::serialiseMember
Calls(value, type, known) ==
    CASE type.is \in {"int", "string", "bool"} ->
            <<[call |-> type.is, type |-> type, value |-> value]>>
      [] type.is = "optional" -> OptionalCalls(value, type, known)
      [] type.is \in {"vector", "array"} -> ArrayCalls(value, type, known)
      [] type.is = "map" -> MapCalls(value, type, known)
      [] type.is = "class" -> ClassCalls(value, type)
=============================================================================
