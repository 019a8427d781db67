------------------------- MODULE OutputBuffer_proof -------------------------
(***************************************************************************)
(* Output buffers: that no byte is lost, doubled or moved, proved for      *)
(* arrays of every size and for everything that may be added.              *)
(***************************************************************************)
EXTENDS OutputBuffer, TLAPS

Byte == 0 .. 255

TypeInv ==
    /\ kind \in {"streaming", "expanding", "nonExpanding"}
    /\ basic \in Seq(Byte) /\ Len(basic) = StaticSize
    /\ extended \in Seq(Byte)
    /\ begin \in Nat /\ free \in Nat /\ size \in Nat /\ sizeAtLastFlush \in Nat
    /\ adding \in Seq(Byte) /\ added \in Seq(Byte) /\ sent \in Seq(Byte)
    /\ overrun \in BOOLEAN
    /\ kind # "expanding" => extended = <<>>

\* What is still to be copied is the end of what was added.
AddingInv ==
    /\ Len(adding) <= Len(added)
    /\ added = Taken \o adding

\* What lies before the cursor.
Shown == SubSeq(InUse, 1, begin)

\* The counts of a streaming buffer say where the cursor is.
CountInv ==
    kind = "streaming" =>
        \/ sizeAtLastFlush <= size /\ begin = size - sizeAtLastFlush
        \/ Destroyed /\ adding = <<>>

ShownInv ==
    CASE kind = "streaming" -> IF Destroyed THEN sent = Taken ELSE sent \o Shown = Taken
      [] kind = "expanding" -> Shown = Taken
      [] kind = "nonExpanding" -> Shown = SubSeq(Taken, 1, Smaller(Len(Taken), StaticSize))

IInv == TypeInv /\ CursorRight /\ AddingInv /\ CountInv /\ ShownInv
-----------------------------------------------------------------------------
(***************************************************************************)
(* Sequences.                                                              *)
(***************************************************************************)
LEMMA SameElements ==
    ASSUME NEW S, NEW s \in Seq(S), NEW t \in Seq(S), Len(s) = Len(t),
           \A i \in 1 .. Len(s) : s[i] = t[i]
    PROVE  s = t
OBVIOUS

\* The first n elements of a sequence.
LEMMA FirstOf ==
    ASSUME NEW S, NEW s \in Seq(S), NEW n \in 0 .. Len(s)
    PROVE  /\ SubSeq(s, 1, n) \in Seq(S) /\ Len(SubSeq(s, 1, n)) = n
           /\ \A i \in 1 .. n : SubSeq(s, 1, n)[i] = s[i]
OBVIOUS

LEMMA PlacedLemma ==
    ASSUME NEW S, NEW memory \in Seq(S), NEW bytes \in Seq(S), NEW at \in Nat,
           at + Len(bytes) <= Len(memory)
    PROVE  /\ Placed(memory, at, bytes) \in Seq(S)
           /\ Len(Placed(memory, at, bytes)) = Len(memory)
           /\ SubSeq(Placed(memory, at, bytes), 1, at + Len(bytes)) = SubSeq(memory, 1, at) \o bytes
<1> DEFINE new == Placed(memory, at, bytes)
           head == SubSeq(memory, 1, at)
           n == at + Len(bytes)
<1>1. /\ new \in Seq(S) /\ Len(new) = Len(memory)
      /\ \A i \in 1 .. Len(memory) :
            new[i] = IF at < i /\ i <= at + Len(bytes) THEN bytes[i - at] ELSE memory[i]
  BY DEF Placed
<1>2. n \in 0 .. Len(new) /\ at \in 0 .. Len(memory)
  BY <1>1
<1>3. /\ SubSeq(new, 1, n) \in Seq(S) /\ Len(SubSeq(new, 1, n)) = n
      /\ \A i \in 1 .. n : SubSeq(new, 1, n)[i] = new[i]
  BY <1>1, <1>2, FirstOf
<1>4. /\ head \in Seq(S) /\ Len(head) = at
      /\ \A i \in 1 .. at : head[i] = memory[i]
  BY <1>2, FirstOf
<1> HIDE DEF new, head
<1>5. /\ head \o bytes \in Seq(S) /\ Len(head \o bytes) = n
      /\ \A i \in 1 .. n : (head \o bytes)[i] = IF i <= at THEN memory[i] ELSE bytes[i - at]
  <2>1. head \o bytes \in Seq(S) /\ Len(head \o bytes) = n
    <3>1. head \in Seq(S) /\ Len(head) = at /\ bytes \in Seq(S)
      BY <1>4
    <3>2. head \o bytes \in Seq(S)
      BY <3>1
    <3>3. Len(head \o bytes) = Len(head) + Len(bytes)
      BY <3>1
    <3>4. QED
      BY <3>1, <3>2, <3>3
  <2>2. ASSUME NEW i \in 1 .. n
        PROVE  (head \o bytes)[i] = IF i <= at THEN memory[i] ELSE bytes[i - at]
    <3>1. CASE i <= at
      BY <1>4, <3>1
    <3>2. CASE i > at
      BY <1>4, <3>2
    <3>3. i <= at \/ i > at
      OBVIOUS
    <3>4. QED
      BY <3>1, <3>2, <3>3
  <2>3. QED
    BY <2>1, <2>2
<1>6. \A i \in 1 .. n : SubSeq(new, 1, n)[i] = (head \o bytes)[i]
  <2> SUFFICES ASSUME NEW i \in 1 .. n PROVE SubSeq(new, 1, n)[i] = (head \o bytes)[i]
    OBVIOUS
  <2>1. i \in 1 .. Len(memory) /\ i <= at + Len(bytes)
    OBVIOUS
  <2>2. SubSeq(new, 1, n)[i] = IF at < i THEN bytes[i - at] ELSE memory[i]
    BY <1>1, <1>3, <2>1
  <2>3. QED
    BY <1>5, <2>2
<1>7. SubSeq(new, 1, n) = head \o bytes
  BY <1>3, <1>5, <1>6, SameElements
<1>8. QED
  BY <1>1, <1>7 DEF new, head

\* What is left when a part is cut off.
LEMMA Joins ==
    ASSUME NEW S, NEW s \in Seq(S), NEW t \in Seq(S)
    PROVE  /\ s \o t \in Seq(S) /\ Len(s \o t) = Len(s) + Len(t)
           /\ SubSeq(s, 1, Len(s)) = s /\ SubSeq(s, 1, 0) = <<>>
           /\ SubSeq(s \o t, 1, Len(s)) = s
           /\ SubSeq(s \o t, Len(s) + 1, Len(s \o t)) = t
           /\ s \o <<>> = s
<1>1. SubSeq(s, 1, Len(s)) = s
  <2>1. SubSeq(s, 1, Len(s)) \in Seq(S)
    BY FirstOf
  <2>2. QED
    BY <2>1, FirstOf, SameElements
<1>2. SubSeq(s \o t, 1, Len(s)) = s
  <2>1. Len(s) \in 0 .. Len(s \o t) /\ s \o t \in Seq(S)
    OBVIOUS
  <2>2. /\ SubSeq(s \o t, 1, Len(s)) \in Seq(S) /\ Len(SubSeq(s \o t, 1, Len(s))) = Len(s)
        /\ \A i \in 1 .. Len(s) : SubSeq(s \o t, 1, Len(s))[i] = (s \o t)[i]
    BY <2>1, FirstOf
  <2>3. \A i \in 1 .. Len(s) : (s \o t)[i] = s[i]
    OBVIOUS
  <2>4. QED
    BY <2>2, <2>3, SameElements
<1>3. SubSeq(s \o t, Len(s) + 1, Len(s \o t)) = t
  <2> DEFINE cut == SubSeq(s \o t, Len(s) + 1, Len(s \o t))
  <2>1. /\ cut \in Seq(S) /\ Len(cut) = Len(t)
        /\ \A i \in 1 .. Len(t) : cut[i] = (s \o t)[Len(s) + i]
    OBVIOUS
  <2>2. \A i \in 1 .. Len(t) : (s \o t)[Len(s) + i] = t[i]
    OBVIOUS
  <2> HIDE DEF cut
  <2>3. cut = t
    BY <2>1, <2>2, SameElements
  <2>4. QED
    BY <2>3 DEF cut
<1>4. s \o <<>> = s
  <2>1. s \o <<>> \in Seq(S) /\ Len(s \o <<>>) = Len(s)
    OBVIOUS
  <2>2. \A i \in 1 .. Len(s) : (s \o <<>>)[i] = s[i]
    OBVIOUS
  <2>3. QED
    BY <2>1, <2>2, SameElements
<1>5. SubSeq(s, 1, 0) = <<>>
  OBVIOUS
<1>6. QED
  BY <1>1, <1>2, <1>3, <1>4, <1>5

LEMMA JoinsInAnyOrder ==
    ASSUME NEW S, NEW s \in Seq(S), NEW t \in Seq(S), NEW u \in Seq(S)
    PROVE  (s \o t) \o u = s \o (t \o u)
<1>1. /\ (s \o t) \o u \in Seq(S) /\ s \o (t \o u) \in Seq(S)
      /\ Len((s \o t) \o u) = Len(s) + Len(t) + Len(u)
      /\ Len(s \o (t \o u)) = Len(s) + Len(t) + Len(u)
  OBVIOUS
<1>2. \A i \in 1 .. Len(s) + Len(t) + Len(u) : ((s \o t) \o u)[i] = (s \o (t \o u))[i]
  OBVIOUS
<1>3. QED
  BY <1>1, <1>2, SameElements

\* A sequence cut in two.
LEMMA Splits ==
    ASSUME NEW S, NEW s \in Seq(S), NEW n \in 0 .. Len(s)
    PROVE  /\ SubSeq(s, 1, n) \in Seq(S) /\ Len(SubSeq(s, 1, n)) = n
           /\ SubSeq(s, n + 1, Len(s)) \in Seq(S) /\ Len(SubSeq(s, n + 1, Len(s))) = Len(s) - n
           /\ s = SubSeq(s, 1, n) \o SubSeq(s, n + 1, Len(s))
<1> DEFINE head == SubSeq(s, 1, n)
           tail == SubSeq(s, n + 1, Len(s))
<1>1. /\ head \in Seq(S) /\ Len(head) = n /\ \A i \in 1 .. n : head[i] = s[i]
  BY FirstOf
<1>2. /\ Len(tail) = Len(s) - n /\ \A i \in 1 .. Len(s) - n : tail[i] = s[n + i]
  OBVIOUS
<1>3. tail \in Seq(S)
  OBVIOUS
<1> HIDE DEF head, tail
<1>4. head \o tail \in Seq(S) /\ Len(head \o tail) = Len(s)
  BY <1>1, <1>2, <1>3
<1>5. ASSUME NEW i \in 1 .. Len(s) PROVE s[i] = (head \o tail)[i]
  <2>1. CASE i <= n
    BY <1>1, <1>2, <1>3, <2>1
  <2>2. CASE i > n
    <3>1. i - n \in 1 .. Len(s) - n /\ n + (i - n) = i
      BY <2>2
    <3>2. (head \o tail)[i] = tail[i - n]
      BY <1>1, <1>2, <1>3, <2>2
    <3>3. QED
      BY <1>2, <3>1, <3>2
  <2>3. i <= n \/ i > n
    OBVIOUS
  <2>4. QED
    BY <2>1, <2>2, <2>3
<1>6. s = head \o tail
  BY <1>4, <1>5, SameElements
<1>7. QED
  BY <1>1, <1>2, <1>3, <1>6 DEF head, tail
-----------------------------------------------------------------------------
(***************************************************************************)
(* What the invariant says of the bytes.                                   *)
(***************************************************************************)
LEMMA Knows ==
    ASSUME IInv
    PROVE  /\ InUse \in Seq(Byte) /\ begin + free = Len(InUse)
           /\ Shown \in Seq(Byte) /\ Len(Shown) = begin
           /\ Taken \in Seq(Byte) /\ Len(Taken) = Len(added) - Len(adding)
           /\ adding = <<>> => Taken = added
<1>1. InUse \in Seq(Byte) /\ begin + free = Len(InUse)
  BY DEF IInv, TypeInv, CursorRight, InUse
<1>2. begin \in 0 .. Len(InUse)
  BY <1>1 DEF IInv, TypeInv
<1>3. Shown \in Seq(Byte) /\ Len(Shown) = begin
  BY <1>1, <1>2, FirstOf DEF Shown
<1>4. added \in Seq(Byte) /\ Len(added) - Len(adding) \in 0 .. Len(added)
  BY DEF IInv, TypeInv, AddingInv
<1>5. Taken \in Seq(Byte) /\ Len(Taken) = Len(added) - Len(adding)
  BY <1>4, FirstOf DEF Taken
<1>6. ASSUME adding = <<>> PROVE Taken = added
  <2>1. Taken = SubSeq(added, 1, Len(added))
    BY <1>4, <1>6 DEF Taken
  <2>2. QED
    BY <1>4, <2>1, Joins
<1>7. QED
  BY <1>1, <1>3, <1>5, <1>6

\* A part of what is added is copied: it comes behind what is shown, and behind what
\* was taken.
Piece == SubSeq(adding, 1, Fits)
Filled == Placed(InUse, begin, Piece)

LEMMA Copies ==
    ASSUME IInv, adding # <<>>
    PROVE  /\ Fits \in Nat /\ Fits <= Len(adding) /\ Fits <= free
           /\ Piece \in Seq(Byte) /\ Len(Piece) = Fits
           /\ SubSeq(adding, Fits + 1, Len(adding)) \in Seq(Byte)
           /\ Len(SubSeq(adding, Fits + 1, Len(adding))) = Len(adding) - Fits
           /\ added = (Taken \o Piece) \o SubSeq(adding, Fits + 1, Len(adding))
           /\ Filled \in Seq(Byte) /\ Len(Filled) = Len(InUse)
           /\ SubSeq(Filled, 1, begin + Fits) = Shown \o Piece
<1>1. Fits \in Nat /\ Fits <= Len(adding) /\ Fits <= free /\ Fits \in 0 .. Len(adding)
  BY DEF IInv, TypeInv, Fits, Smaller
<1>2. adding \in Seq(Byte)
  BY DEF IInv, TypeInv
<1> DEFINE left == SubSeq(adding, Fits + 1, Len(adding))
<1>3. /\ Piece \in Seq(Byte) /\ Len(Piece) = Fits
      /\ left \in Seq(Byte) /\ Len(left) = Len(adding) - Fits
      /\ adding = Piece \o left
  BY <1>1, <1>2, Splits DEF Piece
<1> HIDE DEF left
<1>4. added = (Taken \o Piece) \o left
  <2>1. added = Taken \o (Piece \o left) /\ Taken \in Seq(Byte)
    BY <1>3, Knows DEF IInv, AddingInv
  <2>2. Piece \in Seq(Byte) /\ left \in Seq(Byte)
    BY <1>3
  <2>3. (Taken \o Piece) \o left = Taken \o (Piece \o left)
    BY <2>1, <2>2, JoinsInAnyOrder
  <2>4. QED
    BY <2>1, <2>3
<1>5. begin + Len(Piece) <= Len(InUse) /\ begin \in Nat /\ InUse \in Seq(Byte)
  BY <1>1, <1>3, Knows DEF IInv, TypeInv
<1>6. /\ Filled \in Seq(Byte) /\ Len(Filled) = Len(InUse)
      /\ SubSeq(Filled, 1, begin + Len(Piece)) = SubSeq(InUse, 1, begin) \o Piece
  BY <1>3, <1>5, PlacedLemma DEF Filled
<1>7. QED
  BY <1>1, <1>3, <1>4, <1>6 DEF left, Shown

\* What was not taken stays: adding' and Taken' after a part was copied.
LEMMA TakenAfter ==
    ASSUME IInv, adding # <<>>, UNCHANGED added,
           adding' = SubSeq(adding, Fits + 1, Len(adding))
    PROVE  /\ AddingInv' /\ adding' \in Seq(Byte) /\ Len(adding') = Len(adding) - Fits
           /\ Taken' = Taken \o Piece
<1>1. /\ adding' \in Seq(Byte) /\ Len(adding') = Len(adding) - Fits /\ Fits \in Nat
      /\ Fits <= Len(adding)
      /\ added' = (Taken \o Piece) \o adding' /\ Piece \in Seq(Byte) /\ Len(Piece) = Fits
  BY Copies
<1>2. /\ Taken \in Seq(Byte) /\ Len(Taken) = Len(added) - Len(adding)
      /\ Len(added) \in Nat /\ Len(adding) \in Nat /\ Len(adding) <= Len(added)
  BY Knows DEF IInv, TypeInv, AddingInv
<1> DEFINE front == Taken \o Piece
<1>3. front \in Seq(Byte) /\ Len(front) = Len(added') - Len(adding')
  BY <1>1, <1>2
<1>4. added' = front \o adding'
  BY <1>1
<1>5. Len(adding') <= Len(added')
  <2>1. Len(adding') = Len(adding) - Fits /\ Fits \in Nat /\ added' = added
    BY <1>1
  <2>2. QED
    BY <1>2, <2>1
<1> HIDE DEF front
<1>6. SubSeq(front \o adding', 1, Len(front)) = front
  <2>1. front \in Seq(Byte) /\ adding' \in Seq(Byte)
    BY <1>1, <1>3
  <2> DEFINE left == adding'
  <2> HIDE DEF left
  <2>2. left \in Seq(Byte)
    BY <2>1 DEF left
  <2>3. SubSeq(front \o left, 1, Len(front)) = front
    BY <2>1, <2>2, Joins
  <2>4. QED
    BY <2>3 DEF left
<1>7. Taken' = front
  BY <1>3, <1>4, <1>6 DEF Taken
<1>8. AddingInv'
  BY <1>4, <1>5, <1>7 DEF AddingInv
<1>9. QED
  BY <1>1, <1>7, <1>8 DEF front

\* While a span is copied no buffer has been destroyed, and a buffer that drops
\* nothing holds all that was taken.
LEMMA WhileAdding ==
    ASSUME IInv, adding # <<>>
    PROVE  /\ kind = "streaming" => /\ begin = size - sizeAtLastFlush /\ sizeAtLastFlush <= size
                                    /\ sent \o Shown = Taken /\ ~Destroyed
           /\ kind # "streaming" /\ free > 0 => Shown = Taken
<1>1. ASSUME kind = "streaming"
      PROVE  /\ begin = size - sizeAtLastFlush /\ sizeAtLastFlush <= size
             /\ sent \o Shown = Taken /\ ~Destroyed
  BY <1>1 DEF IInv, TypeInv, CountInv, ShownInv, Destroyed
<1>2. ASSUME kind = "nonExpanding", free > 0
      PROVE  Shown = Taken
  <2>1. Shown = SubSeq(Taken, 1, Smaller(Len(Taken), StaticSize))
    BY <1>2 DEF IInv, ShownInv
  <2>2. begin < StaticSize /\ begin \in Nat
    BY <1>2, BufferAssumption DEF IInv, TypeInv, CursorRight, InUse
  <2>3. Taken \in Seq(Byte) /\ Len(Taken) \in Nat /\ Len(Shown) = begin
    BY Knows
  <2>4. Smaller(Len(Taken), StaticSize) \in 0 .. Len(Taken)
    BY <2>3, BufferAssumption DEF Smaller
  <2>5. Smaller(Len(Taken), StaticSize) = begin
    BY <2>1, <2>3, <2>4, FirstOf
  <2>6. Smaller(Len(Taken), StaticSize) = Len(Taken)
    BY <2>2, <2>3, <2>5, BufferAssumption DEF Smaller
  <2>7. QED
    BY <2>1, <2>3, <2>6, Joins
<1>3. ASSUME kind = "expanding" PROVE Shown = Taken
  BY <1>3 DEF IInv, ShownInv
<1>4. QED
  BY <1>1, <1>2, <1>3 DEF IInv, TypeInv
-----------------------------------------------------------------------------
(***************************************************************************)
(* Every step keeps the invariant.                                         *)
(***************************************************************************)
LEMMA AddIInv ==
    ASSUME IInv, ~Destroyed, NEW bytes \in Seq(Byte), AddSpan(bytes) \/ AddCharsOutside(bytes)
    PROVE  IInv'
<1>1. CASE AddSpan(bytes)
  <2>1. /\ adding = <<>> /\ adding' = bytes /\ added' = added \o bytes
        /\ UNCHANGED <<kind, basic, extended, begin, free, size, sizeAtLastFlush, overrun, sent>>
    BY <1>1 DEF AddSpan
  <2>2. added \in Seq(Byte) /\ Taken = added
    BY <2>1, Knows DEF IInv, TypeInv
  <2>3. /\ added' \in Seq(Byte) /\ Len(added') = Len(added) + Len(bytes)
        /\ SubSeq(added', 1, Len(added)) = added
    BY <2>1, <2>2, Joins
  <2>4. Len(added') - Len(adding') = Len(added)
    BY <2>1, <2>2, <2>3
  <2>5. Taken' = Taken
    BY <2>2, <2>3, <2>4 DEF Taken
  <2>6. Len(adding') <= Len(added')
    BY <2>1, <2>2, <2>3
  <2>7. AddingInv'
    BY <2>1, <2>2, <2>5, <2>6 DEF AddingInv
  <2>8. TypeInv' /\ CursorRight'
    BY <2>1, <2>3 DEF IInv, TypeInv, CursorRight, InUse
  <2>9. CountInv' /\ ShownInv'
    BY <2>1, <2>5 DEF IInv, CountInv, ShownInv, Shown, InUse, Destroyed
  <2>10. QED
    BY <2>7, <2>8, <2>9 DEF IInv
<1>2. CASE AddCharsOutside(bytes)
  BY <1>2 DEF AddCharsOutside, IInv, TypeInv, CursorRight, AddingInv, CountInv, ShownInv,
     InUse, Shown, Taken, Destroyed
<1>3. QED
  BY <1>1, <1>2

LEMMA CopyAllIInv ==
    ASSUME IInv, CopyAll
    PROVE  IInv'
<1>1. /\ adding # <<>> /\ Len(adding) < free
      /\ IF extended = <<>> THEN basic' = Filled /\ extended' = extended
                            ELSE extended' = Filled /\ basic' = basic
      /\ size' = size + Fits /\ adding' = SubSeq(adding, Fits + 1, Len(adding))
      /\ begin' = begin + Fits /\ free' = free - Fits
      /\ UNCHANGED <<kind, sizeAtLastFlush, overrun, added, sent>>
  BY DEF CopyAll, Copied, Filled, Piece, InUse
<1>2. Fits = Len(adding) /\ Len(adding) \in Nat \ {0} /\ free \in Nat
  BY <1>1 DEF Fits, Smaller, IInv, TypeInv
<1>3. /\ Filled \in Seq(Byte) /\ Len(Filled) = Len(InUse)
      /\ SubSeq(Filled, 1, begin + Fits) = Shown \o Piece
      /\ Piece \in Seq(Byte) /\ Len(Piece) = Fits
  BY <1>1, Copies
<1>4. AddingInv' /\ adding' \in Seq(Byte) /\ Taken' = Taken \o Piece
  BY <1>1, TakenAfter
<1>5. InUse' = Filled
  <2>1. CASE extended = <<>>
    BY <1>1, <2>1 DEF InUse
  <2>2. CASE extended # <<>>
    BY <1>1, <1>3, <2>2 DEF InUse, IInv, TypeInv
  <2>3. QED
    BY <2>1, <2>2
<1>6. Shown' = Shown \o Piece
  BY <1>1, <1>3, <1>5 DEF Shown
<1>7. TypeInv'
  <2>1. /\ basic' \in Seq(Byte) /\ Len(basic') = StaticSize /\ extended' \in Seq(Byte)
        /\ kind' # "expanding" => extended' = <<>>
    BY <1>1, <1>3 DEF IInv, TypeInv, InUse
  <2>2. begin' \in Nat /\ free' \in Nat /\ size' \in Nat
    BY <1>1, <1>2 DEF IInv, TypeInv
  <2>3. QED
    BY <1>1, <1>4, <2>1, <2>2 DEF IInv, TypeInv
<1>8. CursorRight'
  <2>1. begin + free = Len(InUse) /\ begin \in Nat
    BY DEF IInv, TypeInv, CursorRight
  <2>2. begin' + free' = Len(Filled) /\ free' > 0
    <3>1. begin' = begin + Fits /\ free' = free - Fits /\ Fits < free /\ Fits \in Nat
      BY <1>1, <1>2
    <3>2. Len(Filled) = Len(InUse) /\ free \in Nat
      BY <1>2, <1>3
    <3>3. QED
      BY <2>1, <3>1, <3>2
  <2>3. QED
    BY <1>5, <2>2 DEF CursorRight
<1>9. CASE kind = "streaming"
  <2>1. /\ begin = size - sizeAtLastFlush /\ sizeAtLastFlush <= size
        /\ sent \o Shown = Taken
    BY <1>1, <1>9, WhileAdding
  <2>2. /\ begin' = size' - sizeAtLastFlush' /\ sizeAtLastFlush' < size'
    BY <1>1, <1>2, <2>1 DEF IInv, TypeInv
  <2>3. CountInv' /\ ~Destroyed'
    <3>1. size' \in Nat /\ sizeAtLastFlush' \in Nat
      BY <1>7 DEF TypeInv
    <3>2. size' # sizeAtLastFlush' /\ sizeAtLastFlush' <= size'
      BY <2>2, <3>1
    <3>3. QED
      BY <2>2, <3>2 DEF CountInv, Destroyed
  <2>4. (sent \o Shown) \o Piece = sent \o (Shown \o Piece)
    <3>1. sent \in Seq(Byte) /\ Shown \in Seq(Byte) /\ Piece \in Seq(Byte)
      BY <1>3, Knows DEF IInv, TypeInv
    <3>2. QED
      BY <3>1, JoinsInAnyOrder
  <2>5. ShownInv'
    BY <1>1, <1>4, <1>6, <1>9, <2>1, <2>3, <2>4 DEF ShownInv
  <2>6. QED
    BY <1>4, <1>7, <1>8, <2>3, <2>5 DEF IInv
<1>10. CASE kind # "streaming"
  <2>1. Shown' = Taken'
    <3>1. Shown = Taken
      BY <1>1, <1>2, <1>10, WhileAdding
    <3>2. QED
      BY <1>4, <1>6, <3>1
  <2>2. CountInv'
    BY <1>1, <1>10 DEF CountInv
  <2>3. ASSUME kind = "nonExpanding"
        PROVE  Shown' = SubSeq(Taken', 1, Smaller(Len(Taken'), StaticSize))
    <3>1. Shown' \in Seq(Byte) /\ Len(Shown') = begin + Fits
      <4>1. Shown \in Seq(Byte) /\ Len(Shown) = begin
        BY Knows
      <4>2. Shown \o Piece \in Seq(Byte) /\ Len(Shown \o Piece) = begin + Fits
        <5>1. Piece \in Seq(Byte) /\ Len(Piece) = Fits
          BY <1>3
        <5>2. QED
          BY <4>1, <5>1
      <4>3. QED
        BY <1>6, <4>2
    <3>2. begin + Fits < StaticSize
      BY <1>1, <1>2, <2>3 DEF IInv, TypeInv, CursorRight, InUse
    <3>3. Smaller(Len(Taken'), StaticSize) = Len(Taken')
      BY <2>1, <3>1, <3>2, BufferAssumption DEF Smaller
    <3>4. QED
      BY <2>1, <3>1, <3>3, Joins
  <2>4. ShownInv'
    BY <1>1, <1>7, <1>10, <2>1, <2>3 DEF ShownInv, TypeInv
  <2>5. QED
    BY <1>4, <1>7, <1>8, <2>2, <2>4 DEF IInv
<1>11. QED
  BY <1>9, <1>10

\* What the three buffers do when they are full begins alike: the memory in use is
\* filled to its end.
LEMMA Fills ==
    ASSUME IInv, adding # <<>>, free <= Len(adding)
    PROVE  /\ Fits = free /\ free \in Nat /\ begin + free = Len(InUse)
           /\ Filled = Shown \o Piece /\ Filled \in Seq(Byte) /\ Len(Filled) = Len(InUse)
<1>1. Fits = free /\ free \in Nat
  BY DEF Fits, Smaller, IInv, TypeInv
<1>2. /\ Filled \in Seq(Byte) /\ Len(Filled) = Len(InUse)
      /\ SubSeq(Filled, 1, begin + Fits) = Shown \o Piece
  BY Copies
<1>3. begin + free = Len(InUse)
  BY Knows
<1>4. SubSeq(Filled, 1, Len(Filled)) = Filled
  BY <1>2, Joins
<1>5. QED
  BY <1>1, <1>2, <1>3, <1>4

LEMMA FillAndSendIInv ==
    ASSUME IInv, FillAndSend
    PROVE  IInv'
<1>1. /\ adding # <<>> /\ free <= Len(adding) /\ kind = "streaming"
      /\ adding' = SubSeq(adding, Fits + 1, Len(adding)) /\ size' = size + Fits
      /\ sent' = sent \o SubSeq(basic', 1, size' - sizeAtLastFlush)
      /\ sizeAtLastFlush' = size' /\ begin' = 0 /\ free' = StaticSize
      /\ UNCHANGED <<kind, overrun, added>>
  BY DEF FillAndSend, Copied, CountedSent
<1>2. extended = <<>> /\ InUse = basic /\ Len(InUse) = StaticSize
  BY <1>1 DEF IInv, TypeInv, InUse
<1>3. basic' = Filled /\ extended' = <<>>
  BY <1>1, <1>2 DEF FillAndSend, Copied, Filled, Piece
<1>4. /\ Fits = free /\ free \in Nat /\ begin + free = Len(InUse)
      /\ Filled = Shown \o Piece /\ Filled \in Seq(Byte) /\ Len(Filled) = Len(InUse)
  BY <1>1, Fills
<1>5. AddingInv' /\ adding' \in Seq(Byte) /\ Taken' = Taken \o Piece
  BY <1>1, TakenAfter
<1>6. begin = size - sizeAtLastFlush /\ sent \o Shown = Taken
  BY <1>1, WhileAdding
<1>7. size \in Nat /\ sizeAtLastFlush \in Nat /\ begin \in Nat
  BY DEF IInv, TypeInv
<1>8. size' - sizeAtLastFlush = Len(Filled)
  <2>1. size' = size + free
    BY <1>1, <1>4
  <2>2. begin + free = Len(Filled)
    BY <1>4
  <2>3. QED
    BY <1>4, <1>6, <1>7, <2>1, <2>2
<1>9. sent' = sent \o Filled
  <2>1. SubSeq(Filled, 1, Len(Filled)) = Filled
    BY <1>4, Joins
  <2>2. QED
    BY <1>1, <1>3, <1>8, <2>1
<1>10. sent' = Taken'
  <2>1. sent \in Seq(Byte) /\ Shown \in Seq(Byte) /\ Piece \in Seq(Byte)
    BY <1>1, Knows, Copies DEF IInv, TypeInv
  <2>2. (sent \o Shown) \o Piece = sent \o (Shown \o Piece)
    BY <2>1, JoinsInAnyOrder
  <2>3. QED
    BY <1>4, <1>5, <1>6, <1>9, <2>2
<1>11. sent' \in Seq(Byte)
  <2>1. sent \in Seq(Byte)
    BY DEF IInv, TypeInv
  <2>2. QED
    BY <1>4, <1>9, <2>1, Joins
<1>12. TypeInv'
  <2>1. size' \in Nat
    BY <1>1, <1>4, <1>7
  <2>2. StaticSize \in Nat \ {0} /\ Len(basic') = StaticSize /\ basic' \in Seq(Byte)
    BY <1>2, <1>3, <1>4, BufferAssumption
  <2>3. QED
    BY <1>1, <1>3, <1>5, <1>11, <2>1, <2>2 DEF IInv, TypeInv
<1>13. CursorRight'
  BY <1>1, <1>2, <1>3, <1>4, BufferAssumption DEF CursorRight, InUse
<1>14. CountInv' /\ ~Destroyed'
  BY <1>1, <1>12 DEF CountInv, Destroyed, TypeInv
<1>15. ShownInv'
  <2>1. Shown' = <<>>
    BY <1>1, <1>3, <1>4, Joins DEF Shown, InUse
  <2>2. sent' \o <<>> = sent'
    BY <1>11, Joins
  <2>3. QED
    BY <1>1, <1>10, <1>14, <2>1, <2>2 DEF ShownInv
<1>16. QED
  BY <1>5, <1>12, <1>13, <1>14, <1>15 DEF IInv

LEMMA FillAndExpandIInv ==
    ASSUME IInv, FillAndExpand
    PROVE  IInv'
<1> DEFINE more == IF extended = <<>> THEN 2 * StaticSize ELSE Len(extended)
<1>1. /\ adding # <<>> /\ free <= Len(adding) /\ kind = "expanding"
      /\ adding' = SubSeq(adding, Fits + 1, Len(adding)) /\ size' = size + Fits
      /\ basic' = IF extended = <<>> THEN Filled ELSE basic
      /\ extended' = Filled \o StaleMemory(more)
      /\ begin' = Len(Filled) /\ free' = more
      /\ UNCHANGED <<kind, sizeAtLastFlush, overrun, added, sent>>
  BY DEF FillAndExpand, Filled, Piece, Behind
<1>2. /\ Fits = free /\ free \in Nat
      /\ Filled = Shown \o Piece /\ Filled \in Seq(Byte) /\ Len(Filled) = Len(InUse)
  BY <1>1, Fills
<1>3. AddingInv' /\ adding' \in Seq(Byte) /\ Taken' = Taken \o Piece
  BY <1>1, TakenAfter
<1>4. Shown = Taken
  BY <1>1, WhileAdding DEF IInv, ShownInv
<1>5. more \in Nat \ {0}
  BY BufferAssumption DEF IInv, TypeInv
<1>6. StaleMemory(more) \in Seq(Byte) /\ Len(StaleMemory(more)) = more
  <2>1. more \in Nat
    BY <1>5
  <2> HIDE DEF more
  <2>2. QED
    BY <2>1, BufferAssumption DEF StaleMemory, Byte
<1> HIDE DEF more
<1>7. /\ extended' \in Seq(Byte) /\ Len(extended') = Len(Filled) + more
      /\ SubSeq(extended', 1, Len(Filled)) = Filled
  <2> DEFINE stale == StaleMemory(more)
  <2>1. Filled \in Seq(Byte) /\ stale \in Seq(Byte) /\ Len(stale) = more
    BY <1>2, <1>6
  <2>2. extended' = Filled \o stale
    BY <1>1
  <2> HIDE DEF stale
  <2>3. Filled \o stale \in Seq(Byte) /\ Len(Filled \o stale) = Len(Filled) + more
    BY <2>1
  <2>4. SubSeq(Filled \o stale, 1, Len(Filled)) = Filled
    BY <2>1, Joins
  <2>5. QED
    BY <2>2, <2>3, <2>4
<1>8. extended' # <<>> /\ InUse' = extended'
  <2>1. Len(extended') # 0
    BY <1>2, <1>5, <1>7
  <2>2. QED
    BY <2>1 DEF InUse
<1>9. Shown' = Taken'
  BY <1>1, <1>2, <1>3, <1>4, <1>7, <1>8 DEF Shown
<1>10. TypeInv'
  <2>1. basic' \in Seq(Byte) /\ Len(basic') = StaticSize
    BY <1>1, <1>2 DEF IInv, TypeInv, InUse
  <2>2. size' \in Nat /\ begin' \in Nat /\ free' \in Nat
    BY <1>1, <1>2, <1>5 DEF IInv, TypeInv
  <2>3. QED
    BY <1>1, <1>3, <1>7, <2>1, <2>2 DEF IInv, TypeInv
<1>11. CursorRight'
  <2>1. begin' = Len(Filled) /\ free' = more /\ more > 0
    BY <1>1, <1>5
  <2>2. Len(InUse') = Len(Filled) + more
    BY <1>7, <1>8
  <2>3. QED
    BY <2>1, <2>2 DEF CursorRight
<1>12. CountInv' /\ ShownInv'
  BY <1>1, <1>9 DEF CountInv, ShownInv
<1>13. QED
  BY <1>3, <1>10, <1>11, <1>12 DEF IInv

LEMMA FillAndDropIInv ==
    ASSUME IInv, FillAndDrop
    PROVE  IInv'
<1>1. /\ adding # <<>> /\ free <= Len(adding) /\ kind = "nonExpanding"
      /\ adding' = <<>> /\ size' = size + Fits
      /\ begin' = begin + Fits /\ free' = free - Fits
      /\ UNCHANGED <<kind, extended, sizeAtLastFlush, overrun, added, sent>>
  BY DEF FillAndDrop
<1>2. extended = <<>> /\ InUse = basic /\ Len(InUse) = StaticSize
  BY <1>1 DEF IInv, TypeInv, InUse
<1>3. basic' = Filled /\ InUse' = Filled
  BY <1>1, <1>2 DEF FillAndDrop, Filled, Piece, InUse
<1>4. /\ Fits = free /\ free \in Nat /\ begin + free = Len(InUse)
      /\ Filled = Shown \o Piece /\ Filled \in Seq(Byte) /\ Len(Filled) = Len(InUse)
  BY <1>1, Fills
<1>5. begin' = StaticSize /\ free' = 0 /\ begin \in Nat /\ StaticSize \in Nat
  <2>1. begin \in Nat
    BY DEF IInv, TypeInv
  <2>2. QED
    BY <1>1, <1>2, <1>4, <2>1, BufferAssumption
<1>6. added \in Seq(Byte) /\ Taken' = added
  <2>1. added \in Seq(Byte) /\ Len(added) \in Nat
    BY DEF IInv, TypeInv
  <2>2. Taken' = SubSeq(added, 1, Len(added))
    BY <1>1, <2>1 DEF Taken
  <2>3. QED
    BY <2>1, <2>2, Joins
<1>7. TypeInv'
  <2>1. size' \in Nat
    BY <1>1, <1>4 DEF IInv, TypeInv
  <2>2. basic' \in Seq(Byte) /\ Len(basic') = StaticSize
    BY <1>2, <1>3, <1>4
  <2>3. QED
    BY <1>1, <1>5, <2>1, <2>2 DEF IInv, TypeInv
<1>8. CursorRight' /\ CountInv'
  BY <1>1, <1>2, <1>3, <1>4, <1>5 DEF CursorRight, CountInv
<1>9. AddingInv'
  <2>1. added \o <<>> = added /\ Len(added) \in Nat
    BY <1>6, Joins
  <2>2. QED
    BY <1>1, <1>6, <2>1 DEF AddingInv
<1>10. Shown' = Filled
  <2>1. SubSeq(Filled, 1, Len(Filled)) = Filled
    BY <1>4, Joins
  <2>2. QED
    BY <1>2, <1>3, <1>4, <1>5, <2>1 DEF Shown
<1>11. Filled = SubSeq(added, 1, StaticSize) /\ StaticSize <= Len(added)
  <2>1. /\ Taken \in Seq(Byte) /\ Len(Taken) = Len(added) - Len(adding)
        /\ Shown \in Seq(Byte) /\ Len(Shown) = begin
        /\ Len(added) \in Nat /\ Len(adding) \in Nat /\ Len(adding) <= Len(added)
    BY Knows DEF IInv, TypeInv, AddingInv
  <2> DEFINE left == SubSeq(adding, Fits + 1, Len(adding))
  <2>2. /\ Piece \in Seq(Byte) /\ Len(Piece) = free /\ left \in Seq(Byte)
        /\ added = (Taken \o Piece) \o left
    BY <1>1, <1>4, Copies
  <2> HIDE DEF left
  <2>3. CASE free > 0
    <3>1. Shown = Taken
      BY <1>1, <2>3, WhileAdding
    <3>2. added = Filled \o left
      BY <1>4, <2>2, <3>1
    <3>3. SubSeq(Filled \o left, 1, Len(Filled)) = Filled
      BY <1>4, <2>2, Joins
    <3>4. Len(Filled) <= Len(added)
      BY <1>4, <2>2, <3>2
    <3>5. QED
      BY <1>2, <1>4, <3>2, <3>3, <3>4
  <2>4. CASE free = 0
    <3>1. begin = StaticSize
      BY <1>2, <1>4, <1>5, <2>4
    <3>2. Piece = <<>> /\ Filled = Shown
      <4>1. Piece = <<>>
        BY <2>2, <2>4
      <4>2. QED
        BY <1>4, <2>1, <4>1, Joins
    <3>3. Shown = SubSeq(Taken, 1, Smaller(Len(Taken), StaticSize))
      BY <1>1 DEF IInv, ShownInv
    <3>4. Len(Taken) \in Nat /\ Smaller(Len(Taken), StaticSize) \in 0 .. Len(Taken)
      BY <1>5, <2>1 DEF Smaller
    <3>5. Len(Shown) = Smaller(Len(Taken), StaticSize)
      BY <2>1, <3>3, <3>4, FirstOf
    <3>6. Smaller(Len(Taken), StaticSize) = StaticSize /\ StaticSize <= Len(Taken)
      BY <1>5, <2>1, <3>1, <3>4, <3>5 DEF Smaller
    <3>7. StaticSize \in 0 .. Len(added) /\ Len(Taken) <= Len(added)
      BY <1>5, <2>1, <3>4, <3>6
    <3>8. \A i \in 1 .. StaticSize : Taken[i] = added[i]
      <4>1. \A i \in 1 .. Len(Taken) : Taken[i] = added[i]
        BY <1>6, <2>1, FirstOf DEF Taken
      <4>2. QED
        BY <1>5, <3>4, <3>6, <4>1
    <3>9. /\ SubSeq(added, 1, StaticSize) \in Seq(Byte)
          /\ Len(SubSeq(added, 1, StaticSize)) = StaticSize
          /\ \A i \in 1 .. StaticSize : SubSeq(added, 1, StaticSize)[i] = added[i]
      BY <1>6, <3>7, FirstOf
    <3>10. \A i \in 1 .. StaticSize : Shown[i] = Taken[i]
      BY <2>1, <3>3, <3>4, <3>6, FirstOf
    <3>11. Shown = SubSeq(added, 1, StaticSize)
      BY <2>1, <3>1, <3>8, <3>9, <3>10, SameElements
    <3>12. QED
      BY <2>1, <3>2, <3>6, <3>7, <3>11, <1>5
  <2>5. free > 0 \/ free = 0
    BY <1>4
  <2>6. QED
    BY <2>3, <2>4, <2>5
<1>12. ShownInv'
  <2>1. Smaller(Len(Taken'), StaticSize) = StaticSize
    BY <1>5, <1>6, <1>11 DEF Smaller
  <2>2. QED
    BY <1>1, <1>6, <1>10, <1>11, <2>1 DEF ShownInv
<1>13. QED
  BY <1>7, <1>8, <1>9, <1>12 DEF IInv

LEMMA ClearIInv ==
    ASSUME IInv, Clear
    PROVE  IInv'
<1>1. /\ adding = <<>> /\ kind # "streaming"
      /\ extended' = <<>> /\ begin' = 0 /\ free' = StaticSize /\ added' = <<>>
      /\ UNCHANGED <<kind, basic, size, sizeAtLastFlush, adding, overrun, sent>>
  BY DEF Clear
<1>2. StaticSize \in Nat \ {0}
  BY BufferAssumption
<1>3. TypeInv'
  BY <1>1, <1>2 DEF IInv, TypeInv
<1>4. InUse' = basic /\ CursorRight' /\ CountInv'
  BY <1>1, <1>2 DEF InUse, CursorRight, CountInv, IInv, TypeInv
<1>5. Taken' = <<>> /\ AddingInv'
  BY <1>1 DEF Taken, AddingInv
<1>6. Shown' = <<>>
  BY <1>1, <1>4 DEF Shown, IInv, TypeInv
<1>7. SubSeq(<<>>, 1, Smaller(0, StaticSize)) = <<>>
  BY <1>2 DEF Smaller
<1>8. ShownInv'
  BY <1>1, <1>3, <1>5, <1>6, <1>7 DEF ShownInv, TypeInv
<1>9. QED
  BY <1>3, <1>4, <1>5, <1>8 DEF IInv

\* What has not been sent, while the buffer lives, is what lies before the cursor.
LEMMA UnsentShown ==
    ASSUME IInv, kind = "streaming", ~Destroyed
    PROVE  Unsent = Shown /\ sent \o Unsent = Taken
BY DEF IInv, TypeInv, CountInv, ShownInv, Unsent, Shown, InUse

LEMMA FinishIInv ==
    ASSUME IInv, Finish
    PROVE  IInv'
<1>1. /\ adding = <<>> /\ kind = "streaming" /\ size > sizeAtLastFlush
      /\ sent' = sent \o Unsent /\ sizeAtLastFlush' = size
      /\ UNCHANGED <<kind, basic, extended, begin, free, size, adding, overrun, added>>
  BY DEF Finish
<1>2. size \in Nat /\ sizeAtLastFlush \in Nat /\ begin \in Nat
  BY DEF IInv, TypeInv
<1>3. ~Destroyed
  BY <1>1, <1>2 DEF Destroyed
<1>4. begin > 0
  BY <1>1, <1>2, <1>3 DEF IInv, CountInv
<1>5. Taken' = Taken /\ sent' = Taken
  BY <1>1, <1>3, UnsentShown DEF Taken
<1>6. TypeInv'
  BY <1>1, <1>2, <1>5, Knows DEF IInv, TypeInv
<1>7. CursorRight' /\ AddingInv'
  BY <1>1, <1>5 DEF IInv, CursorRight, AddingInv, InUse
<1>8. Destroyed' /\ CountInv'
  BY <1>1, <1>4 DEF Destroyed, CountInv
<1>9. ShownInv'
  BY <1>1, <1>5, <1>8 DEF ShownInv
<1>10. QED
  BY <1>6, <1>7, <1>8, <1>9 DEF IInv

LEMMA StutterIInv ==
    ASSUME IInv, UNCHANGED bufferVars
    PROVE  IInv'
BY DEF bufferVars, IInv, TypeInv, CursorRight, AddingInv, CountInv, ShownInv,
   InUse, Shown, Taken, Destroyed

LEMMA InitIInv == BufferInit => IInv
<1> SUFFICES ASSUME BufferInit PROVE IInv
  OBVIOUS
<1>1. StaticSize \in Nat \ {0}
  BY BufferAssumption
<1>2. basic \in Seq(Byte) /\ Len(basic) = StaticSize
  BY <1>1, BufferAssumption DEF BufferInit, StaleMemory, Byte
<1>3. TypeInv /\ CursorRight
  <2>1. kind \in {"streaming", "expanding", "nonExpanding"}
    BY BufferAssumption DEF BufferInit
  <2>2. TypeInv
    <3>1. <<>> \in Seq(Byte) /\ StaticSize \in Nat
      BY <1>1
    <3>2. /\ extended = <<>> /\ begin = 0 /\ free = StaticSize /\ size = 0
          /\ sizeAtLastFlush = 0 /\ adding = <<>> /\ overrun = FALSE
          /\ added = <<>> /\ sent = <<>>
      BY DEF BufferInit
    <3>3. QED
      BY <1>2, <2>1, <3>1, <3>2 DEF TypeInv
  <2>3. CursorRight
    BY <1>1, <1>2 DEF BufferInit, CursorRight, InUse
  <2>4. QED
    BY <2>2, <2>3
<1>4. Taken = <<>> /\ Shown = <<>> /\ AddingInv /\ CountInv
  BY <1>2 DEF BufferInit, Taken, Shown, InUse, AddingInv, CountInv
<1>5. SubSeq(<<>>, 1, Smaller(0, StaticSize)) = <<>>
  BY <1>1 DEF Smaller
<1>6. ShownInv
  <2>1. ~Destroyed /\ sent = <<>> /\ sent \o <<>> = <<>> /\ Len(Taken) = 0
    BY <1>4 DEF BufferInit, Destroyed
  <2>2. kind \in {"streaming", "expanding", "nonExpanding"}
    BY <1>3 DEF TypeInv
  <2>3. QED
    BY <1>4, <1>5, <2>1, <2>2 DEF ShownInv
<1>7. QED
  BY <1>3, <1>4, <1>6 DEF IInv

LEMMA NextIInv == IInv /\ [BufferNext]_bufferVars => IInv'
BY AddIInv, CopyAllIInv, FillAndSendIInv, FillAndExpandIInv, FillAndDropIInv, ClearIInv,
   FinishIInv, StutterIInv DEF BufferNext, CopyStep, Byte
-----------------------------------------------------------------------------
\* IInv is an invariant of an output buffer of any kind and size.
THEOREM Inductive == BufferSpec => []IInv
BY InitIInv, NextIInv, PTL DEF BufferSpec

\* Whatever is added, in whatever pieces: what was sent and waits to be, or what the
\* buffer holds, is what was added, or as much of it as there is space for.
THEOREM NoByteIsLost == BufferSpec => []BufferIntact
<1>1. IInv => BufferIntact
  <2> SUFFICES ASSUME IInv PROVE BufferIntact
    OBVIOUS
  <2>1. View = Shown
    <3>1. Len(InUse) - free = begin
      BY Knows DEF IInv, TypeInv
    <3>2. QED
      BY <3>1 DEF View, Shown
  <2>2. CASE kind = "streaming"
    <3>1. CASE Destroyed
      <4>1. Unsent = <<>>
        BY <3>1 DEF Destroyed, Unsent, IInv, TypeInv
      <4>2. sent \o <<>> = sent
        BY Joins DEF IInv, TypeInv
      <4>3. QED
        BY <2>2, <3>1, <4>1, <4>2 DEF IInv, ShownInv, BufferIntact
    <3>2. CASE ~Destroyed
      BY <2>2, <3>2, UnsentShown DEF BufferIntact
    <3>3. QED
      BY <3>1, <3>2
  <2>3. CASE kind = "expanding"
    BY <2>1, <2>3 DEF IInv, ShownInv, BufferIntact
  <2>4. CASE kind = "nonExpanding"
    BY <2>1, <2>4, Knows DEF IInv, ShownInv, BufferIntact
  <2>5. QED
    BY <2>2, <2>3, <2>4 DEF IInv, TypeInv
<1>2. QED
  BY <1>1, Inductive, PTL

\* The cursor and the free space make up the memory in use, and a streaming or an
\* expanding buffer always has space for one more character.
THEOREM CursorIsRight == BufferSpec => []CursorRight
<1>1. IInv => CursorRight
  BY DEF IInv
<1>2. QED
  BY <1>1, Inductive, PTL
=============================================================================
