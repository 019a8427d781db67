---------------------------- MODULE OutputBuffer ----------------------------
(***************************************************************************)
(* GeneralisedBuffer and its descendants (src/bomba_core.hpp): what every  *)
(* format writes its text to.  The text is added in spans and single bytes *)
(* at a cursor into an array inside of the buffer; what happens when the   *)
(* space behind the cursor is used up depends on the kind of buffer:       *)
(*   StreamingBuffer sends the array off and begins it again,              *)
(*   ExpandingBuffer goes on in heap memory, which it enlarges,            *)
(*   NonExpandingBuffer drops the rest.                                    *)
(*                                                                         *)
(* Memory is modelled with its stale bytes and the cursor as it is, so     *)
(* that a wrong size or position shows in what the buffer holds.           *)
(***************************************************************************)
EXTENDS Integers, Sequences

CONSTANTS
    StaticSize,    \* the size of the array
    Kinds,         \* the kinds of buffers that are used
    Stale          \* what memory holds that was not written yet

ASSUME BufferAssumption ==
    /\ StaticSize \in Nat \ {0}
    /\ Kinds \subseteq {"streaming", "expanding", "nonExpanding"}
    /\ Stale \in 0 .. 255

VARIABLES
    kind,              \* the class of the buffer
    basic,             \* _basic
    extended,          \* _extended, empty while _basic is in use
    begin, free,       \* _buffer: where it begins in the memory in use, its size
    size,              \* _size
    sizeAtLastFlush,   \* _sizeAtLastFlush
    adding,            \* what the call in progress has not copied yet
    overrun,           \* whether a byte was written past the end of the array
    added,             \* history: everything that was added (since clear())
    sent               \* history: everything the streaming buffer sent off

bufferVars == <<kind, basic, extended, begin, free, size, sizeAtLastFlush,
                adding, overrun, added, sent>>
-----------------------------------------------------------------------------
StaleMemory(n) == [i \in 1 .. n |-> Stale]

Placed(memory, at, bytes) ==
    [i \in 1 .. Len(memory) |->
        IF at < i /\ i <= at + Len(bytes) THEN bytes[i - at] ELSE memory[i]]

InUse == IF extended = <<>> THEN basic ELSE extended

\* The conversions to span and string_view.
View == SubSeq(InUse, 1, Len(InUse) - free)

\* What flush() sends.
Unsent == SubSeq(basic, 1, size - sizeAtLastFlush)

BufferInit ==
    /\ kind \in Kinds
    /\ basic = StaleMemory(StaticSize) /\ extended = <<>>
    /\ begin = 0 /\ free = StaticSize
    /\ size = 0 /\ sizeAtLastFlush = 0
    /\ adding = <<>> /\ overrun = FALSE
    /\ added = <<>> /\ sent = <<>>

Smaller(a, b) == IF a <= b THEN a ELSE b

\* How much of the span in progress fits now: an iteration of operator+=.
Fits == Smaller(Len(adding), free)
-----------------------------------------------------------------------------
\* A span is added, or chars for which there is space: they go the same way.
AddSpan(bytes) ==
    /\ adding = <<>> /\ ~overrun
    /\ adding' = bytes
    /\ added' = added \o bytes
    /\ UNCHANGED <<kind, basic, extended, begin, free, size, sizeAtLastFlush,
                   overrun, sent>>

\* Chars are written without a look at the space: only in a NonExpandingBuffer can
\* there be none, and then bytes behind the array are overwritten.
AddCharsOutside(bytes) ==
    /\ adding = <<>> /\ ~overrun
    /\ kind = "nonExpanding" /\ free < Len(bytes)
    /\ overrun' = TRUE
    /\ UNCHANGED <<kind, basic, extended, begin, free, size, sizeAtLastFlush,
                   adding, added, sent>>

\* Copies what fits behind the cursor.
Copied ==
    /\ IF extended = <<>>
       THEN basic' = Placed(basic, begin, SubSeq(adding, 1, Fits)) /\ extended' = extended
       ELSE extended' = Placed(extended, begin, SubSeq(adding, 1, Fits)) /\ basic' = basic
    /\ size' = size + Fits
    /\ adding' = SubSeq(adding, Fits + 1, Len(adding))

\* The span ends within the free space.
CopyAll ==
    /\ adding # <<>>
    /\ Len(adding) < free
    /\ Copied
    /\ begin' = begin + Fits /\ free' = free - Fits
    /\ UNCHANGED <<kind, sizeAtLastFlush, overrun, added, sent>>

\* Fault: the count is left where it was, as if the array had been sent whole.
FaultCountedSent == sizeAtLastFlush

CountedSent == size'

\* bufferFull() of a StreamingBuffer.
FillAndSend ==
    /\ adding # <<>> /\ free <= Len(adding)
    /\ kind = "streaming"
    /\ Copied
    /\ sent' = sent \o SubSeq(basic', 1, size' - sizeAtLastFlush)
    /\ sizeAtLastFlush' = CountedSent
    /\ begin' = 0 /\ free' = StaticSize
    /\ UNCHANGED <<kind, overrun, added>>

\* Fault: the new memory is filled from its start, where the old bytes are.
FaultBehind(old) == 0
Behind(old) == old

\* bufferFull() of an ExpandingBuffer: three times the array, then twice the heap
\* memory; the old content is copied or kept by resize().
FillAndExpand ==
    /\ adding # <<>> /\ free <= Len(adding)
    /\ kind = "expanding"
    /\ size' = size + Fits
    /\ adding' = SubSeq(adding, Fits + 1, Len(adding))
    /\ LET filled == Placed(InUse, begin, SubSeq(adding, 1, Fits))
           more == IF extended = <<>> THEN 2 * StaticSize ELSE Len(extended)
       IN /\ basic' = IF extended = <<>> THEN filled ELSE basic
          /\ extended' = filled \o StaleMemory(more)
          /\ begin' = Behind(Len(filled))
          /\ free' = more
    /\ UNCHANGED <<kind, sizeAtLastFlush, overrun, added, sent>>

\* bufferFull() of a NonExpandingBuffer returns false: what is left is dropped.
FillAndDrop ==
    /\ adding # <<>> /\ free <= Len(adding)
    /\ kind = "nonExpanding"
    /\ basic' = Placed(basic, begin, SubSeq(adding, 1, Fits))
    /\ size' = size + Fits
    /\ adding' = <<>>
    /\ begin' = begin + Fits /\ free' = free - Fits
    /\ UNCHANGED <<kind, extended, sizeAtLastFlush, overrun, added, sent>>

\* clear(), which a StreamingBuffer does not have.  _size is left as it is.
Clear ==
    /\ adding = <<>> /\ ~overrun
    /\ kind # "streaming"
    /\ extended' = <<>>
    /\ begin' = 0 /\ free' = StaticSize
    /\ added' = <<>>
    /\ UNCHANGED <<kind, basic, size, sizeAtLastFlush, adding, overrun, sent>>

\* The destructor of a NonOwningStreamingBuffer sends what is left.
Finish ==
    /\ adding = <<>> /\ ~overrun
    /\ kind = "streaming"
    /\ size > sizeAtLastFlush
    /\ sent' = sent \o Unsent
    /\ sizeAtLastFlush' = size
    /\ UNCHANGED <<kind, basic, extended, begin, free, size, adding, overrun, added>>

CopyStep == CopyAll \/ FillAndSend \/ FillAndExpand \/ FillAndDrop

\* Its destructor has sent what was left: nobody adds anything to it any more.
Destroyed == kind = "streaming" /\ size = sizeAtLastFlush /\ begin > 0

\* A buffer by itself: whatever is added to it, and however it is used.
BufferNext ==
    \/ \E bytes \in Seq(0 .. 255) : ~Destroyed /\ (AddSpan(bytes) \/ AddCharsOutside(bytes))
    \/ CopyStep
    \/ Clear
    \/ Finish

BufferSpec == BufferInit /\ [][BufferNext]_bufferVars
-----------------------------------------------------------------------------
\* What was added and has been copied.
Taken == SubSeq(added, 1, Len(added) - Len(adding))

\* No byte is lost, doubled or moved on its way through a buffer: what was sent
\* and waits in the array, or what the buffer shows, is what was added, in full or,
\* of a NonExpandingBuffer, as far as there is space.
BufferIntact ==
    CASE kind = "streaming" -> sent \o Unsent = Taken
      [] kind = "expanding" -> View = Taken
      [] kind = "nonExpanding" ->
            adding = <<>> => View = SubSeq(added, 1, Smaller(Len(added), StaticSize))

\* The cursor leaves room for exactly the rest of the memory in use, and between
\* calls a buffer that can make space has some: a char may be added unchecked.
CursorRight ==
    /\ begin + free = Len(InUse)
    /\ kind # "nonExpanding" => free > 0
=============================================================================
