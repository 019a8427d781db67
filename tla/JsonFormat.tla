----------------------------- MODULE JsonFormat -----------------------------
(***************************************************************************)
(* BasicJson (src/bomba_json.hpp).  Output turns the calls of a serialiser *)
(* into text; it keeps the depth, and whether the next line break is left  *)
(* out.  Input is a text and a position in it.                             *)
(***************************************************************************)
EXTENDS Ascii

NewOutput == [depth |-> 0, skipNewline |-> FALSE]

\* newLine(), and the output after it.
Line(out) ==
    IF out.skipNewline THEN <<>> ELSE <<NewLine>> \o [i \in 1 .. out.depth |-> Tab]
AfterLine(out) == [out EXCEPT !.skipNewline = FALSE]

\* Fault: a quote in a string is not escaped.
FaultEscaped(byte) == IF byte \in {Backslash, NewLine} THEN <<Backslash, byte>> ELSE <<byte>>
Escaped(byte) ==
    IF byte \in {Backslash, NewLine, Quote} THEN <<Backslash, byte>> ELSE <<byte>>

Quoted(string) ==
    <<Quote>> \o FlattenSeq([i \in DOMAIN string |-> Escaped(string[i])]) \o <<Quote>>

Comma(index) == IF index > 0 THEN <<44>> ELSE <<>>

Opened(out, size) == [depth |-> out.depth + 1, skipNewline |-> out.skipNewline \/ size = 0]
Closed(out) == [out EXCEPT !.depth = @ - 1]

\* What a call writes.
Text(out, call) ==
    CASE call.call = "int" -> Decimal(call.value)
      [] call.call = "string" -> Quoted(call.value)
      [] call.call = "bool" ->
            IF call.value THEN <<116, 114, 117, 101>> ELSE <<102, 97, 108, 115, 101>>
      [] call.call = "optional" -> IF call.present THEN <<>> ELSE <<110, 117, 108, 108>>
      [] call.call = "startArray" -> <<91>>
      [] call.call = "element" -> Comma(call.index) \o Line(out)
      [] call.call = "endArray" -> Line(Closed(out)) \o <<93>>
      [] call.call = "startObject" -> <<123>>
      [] call.call = "member" ->
            Comma(call.index) \o Line(out) \o Quoted(call.name) \o <<Space, 58, Space>>
      [] call.call = "endObject" -> Line(Closed(out)) \o <<125>>

\* What it leaves of the output.
Output(out, call) ==
    CASE call.call \in {"startArray", "startObject"} -> Opened(out, call.size)
      [] call.call \in {"element", "member"} -> AfterLine(out)
      [] call.call \in {"endArray", "endObject"} -> AfterLine(Closed(out))
      [] OTHER -> out
-----------------------------------------------------------------------------
Input(text) == [text |-> text, at |-> 0, good |-> TRUE]
Result(in, value) == [in |-> in, value |-> value]

Failed(in) == [in EXCEPT !.good = FALSE]
AtEnd(in) == in.at >= Len(in.text)

\* 0 stands at the end of the text.
Peek(in) == IF AtEnd(in) THEN 0 ELSE in.text[in.at + 1]

\* getChar()
Past(in) == IF AtEnd(in) THEN Failed(in) ELSE [in EXCEPT !.at = @ + 1]

\* Commas and colons are taken for white space.
EatWhitespace(in) ==
    [in EXCEPT !.at = FirstNotOf(in.text, in.at, {Space, Tab, NewLine, Return, 44, 58})]

\* The characters "word", one getChar() each.
Expected(in, word) ==
    IF SubSeq(in.text, in.at + 1, in.at + Len(word)) = word
    THEN [in EXCEPT !.at = @ + Len(word)] ELSE Failed(in)

\* A number that ends the text is an error: peekChar() wants a byte behind it.
ReadInt(in, type) ==
    LET start == EatWhitespace(in)
        end == NumberEnd(in.text, start.at)
        rest == FirstNotOf(in.text, end, Digits \union {45, 46, 69, 101})
    IN Result([in EXCEPT !.at = rest,
                         !.good = end > start.at /\ rest < Len(in.text)],
              NumberAt(in.text, start.at))

\* readString() up to the closing quote.  An escaped byte that is not among those it
\* knows is dropped.
ReadString(in) ==
    LET start == EatWhitespace(in)
        Take(s, byte) ==
            CASE s.closed -> s
              [] s.escaped ->
                    [s EXCEPT !.escaped = FALSE, !.at = @ + 1,
                        !.string = IF byte \in {Backslash, Quote} THEN Append(@, byte)
                                   ELSE IF byte = 110 THEN Append(@, NewLine) ELSE @]
              [] byte = Backslash -> [s EXCEPT !.escaped = TRUE, !.at = @ + 1]
              [] byte = Quote -> [s EXCEPT !.closed = TRUE, !.at = @ + 1]
              [] OTHER -> [s EXCEPT !.string = Append(@, byte), !.at = @ + 1]
        taken == FoldLeft(Take,
                    [string |-> <<>>, at |-> start.at + 1, escaped |-> FALSE, closed |-> FALSE],
                    SubSeq(in.text, start.at + 2, Len(in.text)))
    IN Result([in EXCEPT !.at = taken.at, !.good = Peek(start) = Quote /\ taken.closed],
              taken.string)

ReadBool(in) ==
    LET start == EatWhitespace(in)
    IN Result(Expected(start, IF Peek(start) = 116 THEN <<116, 114, 117, 101>>
                              ELSE <<102, 97, 108, 115, 101>>),
              Peek(start) = 116)

\* readOptional(): a value that begins with n is a null.
ReadPresent(in) ==
    LET start == EatWhitespace(in)
    IN IF Peek(start) = 110 THEN Result(Expected(start, <<110, 117, 108, 108>>), FALSE)
       ELSE Result(start, TRUE)

Open(in, bracket) ==
    LET start == EatWhitespace(in)
    IN IF Peek(start) = bracket THEN Past(start) ELSE Failed(start)

StartReadingArray(in) == Open(in, 91)
NextArrayElement(in) ==
    LET next == EatWhitespace(in)
    IN Result(IF AtEnd(next) THEN Failed(next) ELSE next, Peek(next) # 93)
EndReadingArray(in) == Past(EatWhitespace(in))

OpenObject(in, known) == Result(Open(in, 123), 0)
NextMember(in, known, size, index) ==
    LET next == EatWhitespace(in)
        name == ReadString(next)
    IN IF AtEnd(next) THEN Result(Failed(next), <<>>)
       ELSE IF Peek(next) = 125 THEN Result(next, <<>>)
       ELSE Result(name.in, <<name.value>>)
CloseObject(in, known) == Past(EatWhitespace(in))

\* Fault: a comma between the elements of a skipped value ends it.
FaultEndsSkipped(byte, depth) == byte \in {Space, Tab, Return, NewLine, 44}
EndsSkipped(byte, depth) == depth = 0 /\ byte \in {Space, Tab, Return, NewLine, 44}

\* skipObjectElement(): over a value by its brackets.  A string is left at its first
\* backslash, and a bracket that closes what the value is in is taken for its own.
SkipObjectElement(in) ==
    LET start == EatWhitespace(in)
        Take(s, byte) ==
            CASE s.done -> s
              [] s.inString ->
                    [s EXCEPT !.at = @ + 1, !.inString = byte \notin {Quote, Backslash}]
              [] byte \in {123, 91} -> [s EXCEPT !.at = @ + 1, !.depth = @ + 1]
              [] byte \in {125, 93} ->
                    [s EXCEPT !.at = @ + 1, !.depth = @ - 1, !.done = s.depth <= 1]
              [] EndsSkipped(byte, s.depth) -> [s EXCEPT !.done = TRUE]
              [] OTHER -> [s EXCEPT !.at = @ + 1, !.inString = byte = Quote]
        taken == FoldLeft(Take,
                    [at |-> start.at, depth |-> 0, inString |-> FALSE, done |-> FALSE],
                    SubSeq(in.text, start.at + 1, Len(in.text)))
    IN [in EXCEPT !.at = taken.at, !.good = ~AtEnd(start) /\ ~taken.inString]
=============================================================================
