------------------------------- MODULE Formats ------------------------------
(***************************************************************************)
(* A value on its way from one program to another: the serialiser makes    *)
(* calls, the format turns each into text, the text goes through an output *)
(* buffer, and a reader with its own idea of the type reads what the       *)
(* buffer holds or sent, over a value it may have used before.             *)
(***************************************************************************)
EXTENDS OutputBuffer

CONSTANTS
    Messages,   \* what may be sent: records of the format, the sender's type, the value
                \* and the reader's type ("type")
    Rounds      \* bound: how often a buffer is used

Json == INSTANCE JsonFormat
Binary == INSTANCE BinaryFormat WITH SizeBytes <- 2, MaxDepth <- 3
Url == INSTANCE UrlEncoding

FromJson == INSTANCE Deserialisation WITH
    ReadInt <- Json!ReadInt, ReadString <- Json!ReadString, ReadBool <- Json!ReadBool,
    ReadPresent <- Json!ReadPresent, StartReadingArray <- Json!StartReadingArray,
    NextArrayElement <- Json!NextArrayElement, EndReadingArray <- Json!EndReadingArray,
    OpenObject <- Json!OpenObject, NextMember <- Json!NextMember,
    CloseObject <- Json!CloseObject, SkipObjectElement <- Json!SkipObjectElement,
    NoName <- <<>>, StopsAtLast <- TRUE
FromBinary == INSTANCE Deserialisation WITH
    ReadInt <- Binary!ReadInt, ReadString <- Binary!ReadString, ReadBool <- Binary!ReadBool,
    ReadPresent <- Binary!ReadPresent, StartReadingArray <- Binary!StartReadingArray,
    NextArrayElement <- Binary!NextArrayElement, EndReadingArray <- Binary!EndReadingArray,
    OpenObject <- Binary!OpenObject, NextMember <- Binary!NextMember,
    CloseObject <- Binary!CloseObject, SkipObjectElement <- Binary!SkipObjectElement,
    NoName <- Binary!NoName, StopsAtLast <- TRUE
FromUrl == INSTANCE Deserialisation WITH
    ReadInt <- Url!ReadInt, ReadString <- Url!ReadString, ReadBool <- Url!ReadBool,
    ReadPresent <- Url!ReadPresent, StartReadingArray <- Url!StartReadingArray,
    NextArrayElement <- Url!NextArrayElement, EndReadingArray <- Url!EndReadingArray,
    OpenObject <- Url!OpenObject, NextMember <- Url!NextMember,
    CloseObject <- Url!CloseObject, SkipObjectElement <- Url!SkipObjectElement,
    NoName <- <<>>, StopsAtLast <- FALSE

VARIABLES
    message,   \* what is sent
    calls,     \* the calls of the serialiser that are still to come
    output,    \* the state of the format's Output
    got,       \* what was read, and over which value: <<>> before
    round      \* how often the buffer was used

vars == <<bufferVars, message, calls, output, got, round>>
-----------------------------------------------------------------------------
CallsOf(m) == FromJson!Calls(m.value, m.sent, FALSE)
OutputOf(m) == IF m.format = "url" THEN Url!NewOutput ELSE Json!NewOutput

Init ==
    /\ BufferInit
    /\ message \in Messages
    /\ calls = CallsOf(message) /\ output = OutputOf(message)
    /\ got = <<>>
    /\ round = 1

\* The JSON of a program that writes no white space.
CompactText(call) ==
    LET text == Json!Text([depth |-> 0, skipNewline |-> TRUE], call)
    IN IF call.call = "string" THEN text ELSE SelectSeq(text, LAMBDA byte : byte # 32)

Text(call) ==
    CASE message.format = "json" -> Json!Text(output, call)
      [] message.format = "compact" -> CompactText(call)
      [] message.format = "url" -> Url!Text(output, call)
      [] message.format = "binary" -> Binary!Text(call)

\* What of a text comes as spans: the numbers and words, and everything in binary.
Spans(call) ==
    IF message.format = "binary" \/ call.call \in {"int", "bool", "optional"} THEN Len(Text(call))
    ELSE 0

\* A call of the serialiser.
WriteCall ==
    /\ calls # <<>>
    /\ calls' = Tail(calls)
    /\ output' = IF message.format = "url" THEN Url!Output(output, Head(calls))
                 ELSE Json!Output(output, Head(calls))
    /\ LET text == Text(Head(calls))
           fits == kind # "nonExpanding" \/ Len(text) - Spans(Head(calls)) <= free
       IN IF fits THEN AddSpan(text) ELSE AddCharsOutside(text)
    /\ UNCHANGED <<message, got, round>>

Copy == CopyStep /\ UNCHANGED <<message, calls, output, got, round>>

\* The sender is through: a streaming buffer is destroyed.
FinishWriting ==
    /\ calls = <<>>
    /\ Finish
    /\ UNCHANGED <<message, calls, output, got, round>>

Written ==
    /\ calls = <<>> /\ adding = <<>>
    /\ kind = "streaming" => size = sizeAtLastFlush

Received == IF kind = "streaming" THEN sent ELSE View

Reading(old) ==
    CASE message.format \in {"json", "compact"} ->
            FromJson!Value(Json!Input(Received), message.type, old)
      [] message.format = "url" -> FromUrl!Value(Url!Input(Received), message.type, old)
      [] message.format = "binary" -> FromBinary!Value(Binary!Input(Received), message.type, old)

\* The reader reads over a new value or one it got before.  A NonExpandingBuffer may
\* hold less than all: what is read then is anybody's guess.
Receive(old) ==
    /\ Written /\ got = <<>> /\ ~overrun
    /\ kind = "nonExpanding" => Len(added) <= StaticSize
    /\ got' = <<[old |-> old, read |-> Reading(old)]>>
    /\ UNCHANGED <<bufferVars, message, calls, output, round>>

\* The buffer is used again, for the same kind of message.
Again ==
    /\ Written /\ round < Rounds
    /\ Clear
    /\ message' \in {m \in Messages : m.type = message.type /\ m.format = message.format}
    /\ calls' = CallsOf(message') /\ output' = OutputOf(message')
    /\ got' = <<>>
    /\ round' = round + 1

OldValues ==
    {FromJson!Default(message.type)}
        \union {m.value : m \in {n \in Messages : n.sent = message.type /\ n.type = message.type}}

Next ==
    \/ WriteCall
    \/ Copy
    \/ FinishWriting
    \/ \E old \in OldValues : Receive(old)
    \/ Again

Spec == Init /\ [][Next]_vars
-----------------------------------------------------------------------------
\* The members that are looked at: except in a form, an object of a class is taken to
\* end after as many as the class has, whichever they are.
LookedAt ==
    {j \in DOMAIN message.value :
        message.format = "url" \/ j <= Len(message.type.members)}

\* What the reader has then: what was sent; of an object the members it knows.
Meant(old) ==
    IF message.sent = message.type THEN message.value
    ELSE [i \in DOMAIN old |->
            LET sender == {j \in LookedAt :
                              message.sent.members[j].name = message.type.members[i].name}
            IN IF sender = {} THEN old[i] ELSE message.value[CHOOSE j \in sender : TRUE]]

ReadToEnd(result) == result.in.at >= Len(Received)

ReadWell(result, old) ==
    /\ result.in.good
    /\ result.value = Meant(old)

ReadAsWritten(format) ==
    (got # <<>> /\ message.format = format /\ message.sent = message.type)
        => ReadWell(got[1].read, got[1].old) /\ ReadToEnd(got[1].read)

\* What a type's serialiser writes in JSON its deserialiser reads as the same
\* value and to the last byte, whatever the target had before: the loops of both
\* sides count, escape and separate alike.
JsonRoundTrip == ReadAsWritten("json") /\ ReadAsWritten("compact")

\* The same of the binary format, as far as there is no array, and no map inside of a
\* class: numbers keep their sign and strings their bytes at the width of their types.
BinaryRoundTrip == ReadAsWritten("binary")

\* The same of the encoding of forms: whatever UTF-8 a string has, though mangled in
\* two ways, with marks that mean something to the format, comes out as it was.
UrlRoundTrip == ReadAsWritten("url")

\* An object whose names are in the text is read by them.  Of the members that are
\* looked at every known one gets its value, in whatever order they come; those that
\* are missing keep the value they had; unknown ones are stepped over to exactly the
\* next member.  In JSON that is as many members as the class has: an unknown one
\* beside all known ones hides the last of them, whose value is not read, and the
\* rest of the object is left in the text.
ReadByName ==
    (got # <<>> /\ message.sent # message.type) =>
        /\ ReadWell(got[1].read, got[1].old)
        /\ LookedAt = DOMAIN message.value => ReadToEnd(got[1].read)

\* A buffer never writes past its array.
NoOverrun == ~overrun
=============================================================================
