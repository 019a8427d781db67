------------------------------- MODULE Ascii --------------------------------
(***************************************************************************)
(* The bytes the text formats of this project write and look for, and the  *)
(* numbers std::to_chars and std::from_chars make of them (external).      *)
(***************************************************************************)
EXTENDS Integers, Sequences, SequencesExt, FiniteSetsExt

Tab == 9
NewLine == 10
Return == 13
Space == 32
Quote == 34
Backslash == 92
Digits == 48 .. 57

RECURSIVE Decimal(_)
Decimal(n) ==
    IF n < 0 THEN <<45>> \o Decimal(-n)
    ELSE IF n < 10 THEN <<48 + n>>
    ELSE Append(Decimal(n \div 10), 48 + (n % 10))

\* The first position from "at" (counted from 0) on where the text ends or has a
\* byte out of "bytes".
FirstOf(text, at, bytes) ==
    Min({i \in at .. Len(text) : i = Len(text) \/ text[i + 1] \in bytes})

FirstNotOf(text, at, bytes) ==
    Min({i \in at .. Len(text) : i = Len(text) \/ text[i + 1] \notin bytes})

\* std::from_chars: how far the number reaches that begins at "at", "at" if none does.
NumberEnd(text, at) ==
    LET digits == IF at < Len(text) /\ text[at + 1] = 45 THEN at + 1 ELSE at
        end == FirstNotOf(text, digits, Digits)
    IN IF end = digits THEN at ELSE end

Unsigned(digits) == FoldLeft(LAMBDA n, digit : 10 * n + (digit - 48), 0, digits)

NumberAt(text, at) ==
    LET number == SubSeq(text, at + 1, NumberEnd(text, at))
    IN IF number = <<>> THEN 0
       ELSE IF Head(number) = 45 THEN -Unsigned(Tail(number)) ELSE Unsigned(number)
=============================================================================
