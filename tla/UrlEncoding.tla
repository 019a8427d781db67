---------------------------- MODULE UrlEncoding -----------------------------
(***************************************************************************)
(* mangleHttpResponse, demangleHttpResponse and HtmlMessageEncoding        *)
(* (src/bomba_http.hpp): an object without objects and arrays inside, the  *)
(* way forms and query strings have it.  Strings are in UTF-8.             *)
(***************************************************************************)
EXTENDS Ascii

Ampersand == 38
Equals == 61
Hash == 35

HexDigit(n) == IF n < 10 THEN 48 + n ELSE 97 + n - 10
HexDigits == Digits \union 97 .. 102 \union 65 .. 70
HexValue(byte) ==
    IF byte \in Digits THEN byte - 48 ELSE IF byte >= 97 THEN byte - 87 ELSE byte - 55

\* encodeOne(): letters, digits and the marks .*-_^\~'`|<>[]{}() stay.
Plain == Digits \union 97 .. 122 \union 65 .. 90
    \union {46, 42, 45, 95, 94, 92, 126, 39, 96, 124, 60, 62, 91, 93, 123, 125, 40, 41}
Encoded(byte) ==
    IF byte \in Plain THEN <<byte>>
    ELSE <<37, HexDigit(byte \div 16), HexDigit(byte % 16)>>

\* The length of the code point that begins with a byte above 127, and its value.
CodeLength(byte) ==
    CASE byte \in 192 .. 223 -> 2
      [] byte \in 224 .. 239 -> 3
      [] OTHER -> 4
Code(bytes) ==
    FoldLeft(LAMBDA code, byte : 64 * code + (byte % 64),
             Head(bytes) % (CASE Len(bytes) = 2 -> 32 [] Len(bytes) = 3 -> 16 [] OTHER -> 8),
             Tail(bytes))

\* A code point above 255 is written as the number of a character of HTML.
MangledCode(code) ==
    IF code > 255
    THEN Encoded(Ampersand) \o Encoded(Hash) \o Decimal(code) \o Encoded(59)
    ELSE Encoded(code)

RECURSIVE Mangled(_)
Mangled(string) ==
    IF string = <<>> THEN <<>>
    ELSE LET length == CodeLength(Head(string))
             After(n) == Mangled(SubSeq(string, n + 1, Len(string)))
         IN CASE Head(string) = Space -> <<43>> \o After(1)
              [] Head(string) # Space /\ Head(string) < 128 -> Encoded(Head(string)) \o After(1)
              [] Head(string) > 127 /\ Len(string) < length -> <<>>
              [] Head(string) > 127 /\ Len(string) >= length ->
                    MangledCode(Code(SubSeq(string, 1, length))) \o After(length)

\* Fault: what does not fit into two bytes is taken to begin one bit further up.
FaultUtf8Long(code) == code > 4096
Utf8Long(code) == code > 2048

\* utf8Encode()
Utf8(code) ==
    IF code < 128 THEN <<code>>
    ELSE (IF ~Utf8Long(code) THEN <<192 + code \div 64>>
          ELSE (IF code >= 65536 THEN <<240 + code \div 262144, 128 + ((code \div 4096) % 64)>>
                ELSE <<224 + code \div 4096>>)
               \o <<128 + ((code \div 64) % 64)>>)
         \o <<128 + (code % 64)>>

\* urlDecode() of the two digits behind position "at".
UrlDecoded(string, at) ==
    IF at + 3 > Len(string) \/ string[at + 2] \notin HexDigits THEN 0
    ELSE IF string[at + 3] \notin HexDigits THEN HexValue(string[at + 2])
    ELSE 16 * HexValue(string[at + 2]) + HexValue(string[at + 3])

\* Where the number of a character of HTML ends that begins the string, 0 if none does.
ReferenceEnd(string) ==
    IF /\ UrlDecoded(string, 0) = Ampersand /\ Len(string) > 8
       /\ UrlDecoded(string, 3) = Hash /\ string[7] \in Digits
    THEN LET end == FirstNotOf(string, 7, Digits)
         IN IF SubSeq(string, end + 1, end + 3) \in {<<37, 51, 98>>, <<37, 51, 66>>}
            THEN end ELSE 0
    ELSE 0

RECURSIVE Demangled(_)
Demangled(string) ==
    IF string = <<>> THEN <<>>
    ELSE LET end == ReferenceEnd(string)
             After(n) == Demangled(SubSeq(string, n + 1, Len(string)))
         IN CASE Head(string) = 43 -> <<Space>> \o After(1)
              [] Head(string) = 37 ->
                    IF end > 0 THEN Utf8(Unsigned(SubSeq(string, 7, end))) \o After(end + 3)
                    ELSE Utf8(UrlDecoded(string, 0)) \o After(3)
              [] OTHER -> <<Head(string)>> \o After(1)
-----------------------------------------------------------------------------
\* Output keeps how many members it has written; it throws at what it cannot write
\* (an array, an object inside, a false, a null): no such call is made here.
NewOutput == [members |-> -1]

Text(out, call) ==
    CASE call.call = "int" -> Decimal(call.value)
      [] call.call = "string" -> Mangled(call.value)
      [] call.call = "bool" -> <<116, 114, 117, 101>>
      [] call.call = "member" ->
            (IF out.members # 0 THEN <<Ampersand>> ELSE <<>>) \o call.name \o <<Equals>>
      [] OTHER -> <<>>

Output(out, call) ==
    CASE call.call = "startObject" -> [members |-> 0]
      [] call.call = "member" -> [members |-> out.members + 1]
      [] call.call = "endObject" -> NewOutput
      [] OTHER -> out
-----------------------------------------------------------------------------
Input(text) == [text |-> text, at |-> 0, good |-> TRUE, objectStarted |-> FALSE]
Result(in, value) == [in |-> in, value |-> value]

Failed(in) == [in EXCEPT !.good = FALSE]

\* Behind a member that has no = the position is past the end of the text.
Outside(in) == in.at > Len(in.text)

\* getEnd()
ValueEnd(in) == FirstOf(in.text, in.at, {Ampersand})
AtValueEnd(in) == [in EXCEPT !.at = ValueEnd(in)]

ReadInt(in, type) ==
    IF Outside(in) \/ NumberEnd(in.text, in.at) = in.at THEN Result(Failed(in), 0)
    ELSE Result(AtValueEnd(in), NumberAt(in.text, in.at))

ReadString(in) ==
    IF Outside(in) THEN Result(Failed(in), <<>>)
    ELSE Result(AtValueEnd(in), Demangled(SubSeq(in.text, in.at + 1, ValueEnd(in))))

\* A bool that is there is true, whatever its text.
ReadBool(in) == Result(IF Outside(in) THEN in ELSE AtValueEnd(in), TRUE)

ReadPresent(in) == Result(in, TRUE)

StartReadingArray(in) == Failed(in)
NextArrayElement(in) == Result(Failed(in), FALSE)
EndReadingArray(in) == Failed(in)

OpenObject(in, known) ==
    Result(IF in.objectStarted THEN Failed(in) ELSE [in EXCEPT !.objectStarted = TRUE], 0)

NextMember(in, known, size, index) ==
    LET behind == IF index = 0 THEN in.at ELSE in.at + 1
        start == IF behind < Len(in.text) /\ in.text[behind + 1] = Ampersand
                 THEN behind + 1 ELSE behind
        end == FirstOf(in.text, start, {Equals})
    IN IF behind >= Len(in.text) THEN Result([in EXCEPT !.at = behind], <<>>)
       ELSE Result([in EXCEPT !.at = end + 1], <<Demangled(SubSeq(in.text, start + 1, end))>>)
CloseObject(in, known) == [in EXCEPT !.objectStarted = FALSE]

\* An empty value is not seen as one: what is skipped then is the next member.
SkipObjectElement(in) ==
    LET start == IF in.at < Len(in.text) /\ in.text[in.at + 1] = Ampersand
                 THEN in.at + 1 ELSE in.at
    IN IF Outside(in) THEN in ELSE [in EXCEPT !.at = FirstOf(in.text, start, {Ampersand})]
=============================================================================
