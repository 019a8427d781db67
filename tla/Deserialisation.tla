--------------------------- MODULE Deserialisation --------------------------
(***************************************************************************)
(* How a value is read: TypedSerialiser (src/bomba_core.hpp) and           *)
(* Serialisable (src/bomba_object.hpp, as GCC compiles them), over the     *)
(* calls of IStructuredInput that a format implements.                     *)
(*                                                                         *)
(* A call takes the state of the input and returns it changed with what it *)
(* read.  An input that is not good any more has thrown: reading ends.     *)
(***************************************************************************)
EXTENDS Serialisation

CONSTANTS
    ReadInt(_, _),           \* readInt, with the type of the number
    ReadString(_),
    ReadBool(_),
    ReadPresent(_),          \* the part of readOptional that precedes the value
    StartReadingArray(_),
    NextArrayElement(_),
    EndReadingArray(_),
    \* readObject, in the parts that precede, separate and follow the members:
    OpenObject(_, _),        \* with OBJECT_LAYOUT_KNOWN; returns the size if it can tell
    NextMember(_, _, _, _),  \* with the flag, the size and the index;
                             \* returns the name in a sequence: empty at the end
    CloseObject(_, _),
    SkipObjectElement(_),
    NoName,                  \* what stands for the name if the format has none
    StopsAtLast              \* whether readObject ends when the callback returns false

Read(in, value) == [in |-> in, value |-> value]

\* The member a name or, without names, an index means: the first of that name.
IsMember(type, name, index, i) ==
    IF name = NoName THEN i = index + 1 ELSE type.members[i].name = name

\* deserialiseInternal's callback returns false: it has read the last one.
LastMember(type, index) == index >= Len(type.members) - 1

\* What the vector had before does not stay behind what was read.
Resized(value, index) == IF Len(value) > index THEN SubSeq(value, 1, index) ELSE value

RECURSIVE Value(_, _, _), Elements(_, _, _, _), Entries(_, _, _, _, _, _), Members(_, _, _, _, _)

\* while (in.nextArrayElement(flags)); of an array only while there is place.
Elements(in, type, value, index) ==
    LET next == NextArrayElement(in)
        longer == IF index < Len(value) THEN value ELSE Append(value, Default(type.of))
        element == Value(next.in, type.of, longer[index + 1])
    IN IF type.is = "array" /\ index >= type.size THEN Read(in, value)
       ELSE IF ~next.in.good \/ ~next.value THEN
            Read(next.in, IF type.is = "vector" THEN Resized(value, index) ELSE value)
       ELSE Elements(element.in, type, [longer EXCEPT ![index + 1] = element.value], index + 1)

\* The elements of a map: those it had are updated, those not in the text dropped.
Entries(in, type, old, value, size, index) ==
    LET next == NextMember(in, FALSE, size, index)
        name == next.value[1]
        entry == Value(next.in, type.of,
                    IF name \in DOMAIN value THEN value[name]
                    ELSE IF name \in DOMAIN old THEN old[name] ELSE Default(type.of))
    IN IF ~next.in.good \/ next.value = <<>> THEN Read(next.in, value)
       ELSE Entries(entry.in, type, old,
                    [n \in DOMAIN value \union {name} |->
                        IF n = name THEN entry.value ELSE value[n]],
                    size, index + 1)

\* The members of an object: deserialiseInternal and ObjectInfo::deserialise.
Members(in, type, value, size, index) ==
    LET next == NextMember(in, TRUE, size, index)
        meant == {i \in DOMAIN value : IsMember(type, next.value[1], index, i)}
        i == CHOOSE i \in meant : \A j \in meant : i <= j
        member == IF meant = {} THEN Read(SkipObjectElement(next.in), <<>>)
                  ELSE Value(next.in, type.members[i].type, value[i])
        updated == IF meant = {} THEN value ELSE [value EXCEPT ![i] = member.value]
    IN IF ~next.in.good \/ next.value = <<>> THEN Read(next.in, value)
       ELSE IF ~member.in.good \/ (StopsAtLast /\ LastMember(type, index))
       THEN Read(member.in, updated)
       ELSE Members(member.in, type, updated, size, index + 1)

\* An optional is given a value before the one in it is read.
OptionalValue(in, type, old) ==
    LET present == ReadPresent(in)
        was == IF old = <<>> THEN Default(type.of) ELSE old[1]
        inside == Value(present.in, type.of, was)
    IN IF ~present.in.good THEN Read(present.in, old)
       ELSE IF ~present.value THEN Read(present.in, <<>>)
       ELSE Read(inside.in, <<inside.value>>)

ArrayValue(in, type, old) ==
    LET elements == Elements(StartReadingArray(in), type, old, 0)
    IN Read(EndReadingArray(elements.in), elements.value)

MapValue(in, type, old) ==
    LET open == OpenObject(in, FALSE)
        entries == Entries(open.in, type, old, <<>>, open.value, 0)
    IN Read(CloseObject(entries.in, FALSE), entries.value)

ClassValue(in, type, old) ==
    LET open == OpenObject(in, TRUE)
        members == Members(open.in, type, old, open.value, 0)
    IN Read(CloseObject(members.in, TRUE), members.value)

\* TypedSerialiser<T>::deserialiseMember over a value that may be in use already.
Value(in, type, old) ==
    IF ~in.good THEN Read(in, old)
    ELSE CASE type.is = "int" -> ReadInt(in, type)
      [] type.is = "string" -> ReadString(in)
      [] type.is = "bool" -> ReadBool(in)
      [] type.is = "optional" -> OptionalValue(in, type, old)
      [] type.is \in {"vector", "array"} -> ArrayValue(in, type, old)
      [] type.is = "map" -> MapValue(in, type, old)
      [] type.is = "class" -> ClassValue(in, type, old)
=============================================================================
