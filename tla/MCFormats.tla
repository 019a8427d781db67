------------------------------ MODULE MCFormats -----------------------------
EXTENDS Formats, FiniteSets

S == INSTANCE Serialisation

A == 97
B == 98
C == 99
X == 120


\* Types without names of their own, in every format but url.
Numbers == S!Class(<<S!Member(<<A>>, S!Number(1)), S!Member(<<B>>, S!Number(2))>>)
NumbersValues == {<<n, m>> : n \in {-128, 0, 127}, m \in {-1, 300}}

Words == S!Class(<<S!Member(<<A>>, S!String), S!Member(<<B, C>>, S!Bool)>>)
WordsValues == {<<s, b>> : s \in {<<>>, <<A, 34, 92>>, <<123, 44, 58, 93>>}, b \in BOOLEAN}

Maybe == S!Class(<<S!Member(<<A>>, S!Optional(S!Number(2))),
                   S!Member(<<B>>, S!Optional(Words)),
                   S!Member(<<C>>, S!Number(1))>>)
MaybeValues ==
    {<<o, w, 7>> : o \in {<<>>, <<7000>>}, w \in {<<>>, << <<<<A>>, TRUE>> >>}}

List == S!Vector(S!Vector(S!Number(1)))
ListValues == {<<>>, <<<<>>>>, <<<<1, 22>>, <<3>>>>, <<<<>>, <<4>>, <<>>>>}

Pair == S!Class(<<S!Member(<<A>>, S!Array(S!String, 2)), S!Member(<<B>>, S!Vector(S!Bool))>>)
PairValues == {<<<<<<>>, <<A>>>>, v>> : v \in {<<>>, <<TRUE, FALSE>>}}

Table == S!Map(S!Number(2))
TableOf(names, n) == [name \in names |-> n + Len(name)]
TableValues == {<<>>, TableOf({<<A>>, <<B, 34>>}, 5), TableOf({<<B, 34>>, <<C>>, <<>>}, 300)}

Tables == S!Class(<<S!Member(<<A>>, Table), S!Member(<<B>>, Numbers)>>)
TablesValues == {<<t, <<1, 2>>>> : t \in TableValues}

Same(format, type, values) ==
    {[format |-> format, sent |-> type, type |-> type, value |-> v] : v \in values}

InJson ==
    UNION {Same(f, Numbers, NumbersValues) \union Same(f, Words, WordsValues)
           \union Same(f, Maybe, MaybeValues) \union Same(f, List, ListValues)
           \union Same(f, Pair, PairValues) \union Same(f, Tables, TablesValues)
           : f \in {"json", "compact"}}

InBinary ==
    Same("binary", Numbers, NumbersValues) \union Same("binary", Words, WordsValues)
    \union Same("binary", Maybe, MaybeValues) \union Same("binary", Table, TableValues)

\* U+00E9, U+0E01 and U+10348 in UTF-8, and what has to be encoded.
Utf8Strings == {<<>>, <<A, 32, 43>>, <<38, 61, 37>>, <<195, 169>>, <<224, 184, 129, A>>,
                <<240, 144, 141, 136>>}
Form == S!Class(<<S!Member(<<A>>, S!String), S!Member(<<B>>, S!Number(4)),
                  S!Member(<<C>>, S!Optional(S!String))>>)
FormValues == {<<s, n, <<t>>>> : s \in Utf8Strings, n \in {-5, 120}, t \in {<<>>, <<38>>}}
InUrl == Same("url", Form, FormValues)

\* The members of Words and an unknown one, in any order.
Known == <<S!Member(<<A>>, S!String), S!Member(<<B, C>>, S!Bool)>>
Unknown == {S!Member(<<X>>, S!Vector(Words)), S!Member(<<X>>, S!Number(1)),
            S!Member(<<X>>, S!Optional(S!String))}
ValueFor(type) ==
    CASE type.is = "string" -> <<91, A>>
      [] type.is = "bool" -> TRUE
      [] type.is = "int" -> 12
      [] type.is = "optional" -> <<>>
      [] type.is = "vector" -> <<<<<<44, 125>>, FALSE>>, <<<<>>, TRUE>>>>

Other(format, type, members) ==
    [format |-> format, type |-> type, sent |-> S!Class(members),
     value |-> [i \in 1 .. Len(members) |-> ValueFor(members[i].type)]]

\* An unknown member beside both known ones, at every place.
Beside(u) ==
    {<<u, Known[1], Known[2]>>, <<Known[2], u, Known[1]>>, <<Known[1], Known[2], u>>}

AnyOrder ==
    {<<>>, <<Known[2], Known[1]>>, <<Known[1]>>, <<Known[2]>>}
    \union {<<u, k>> : u \in Unknown, k \in {Known[1], Known[2]}}
    \union {<<k, u>> : u \in Unknown, k \in {Known[1], Known[2]}}
    \union UNION {Beside(u) : u \in Unknown}

AnyOrderCompact == {<<Known[2], Known[1]>>, <<Known[2]>>}
    \union {<<u, k>> : u \in Unknown, k \in {Known[1], Known[2]}}
    \union UNION {Beside(u) : u \in Unknown}

FormMembers == Form.members
UrlUnknown == S!Member(<<X>>, S!Number(1))
AnyOrderUrl ==
    {<<FormMembers[2], FormMembers[1]>>, <<FormMembers[1], UrlUnknown>>,
     <<UrlUnknown, FormMembers[2], FormMembers[1]>>,
     <<FormMembers[2], UrlUnknown, UrlUnknown, FormMembers[1]>>}

ByName ==
    {Other("json", Words, m) : m \in AnyOrder}
    \union {Other("compact", Words, m) : m \in AnyOrderCompact}
    \union {Other("url", Form, m) : m \in AnyOrderUrl}

const_Messages == InJson \union InBinary \union InUrl \union ByName
const_Kinds == {"streaming", "expanding", "nonExpanding"}
=============================================================================
