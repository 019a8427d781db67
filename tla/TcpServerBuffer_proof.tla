----------------------- MODULE TcpServerBuffer_proof -----------------------
(***************************************************************************)
(* Proofs about TcpServerBuffer, for every size of the array and of a      *)
(* read, every set of message lengths and every length of the stream.      *)
(***************************************************************************)
EXTENDS TcpServerBuffer, ByteStream_proof, SequenceTheorems, TLAPS

-----------------------------------------------------------------------------
(***************************************************************************)
(* What the operators on stores return.                                    *)
(***************************************************************************)

\* Slice returns the bytes from offset a up to offset b.
LEMMA SliceLemma ==
    ASSUME NEW s \in Seq(Nat), NEW a \in Nat, NEW b \in Nat,
           a <= b, b <= Len(s)
    PROVE  /\ Slice(s, a, b) \in Seq(Nat)
           /\ Len(Slice(s, a, b)) = b - a
           /\ \A i \in 1 .. (b - a) : Slice(s, a, b)[i] = s[a + i]
<1>1. \A i \in (a + 1) .. b : s[i] \in Nat
  OBVIOUS
<1>2. /\ SubSeq(s, a + 1, b) \in Seq(Nat)
      /\ Len(SubSeq(s, a + 1, b)) = IF a + 1 <= b THEN b - (a + 1) + 1 ELSE 0
      /\ \A i \in 1 .. (b - (a + 1) + 1) : SubSeq(s, a + 1, b)[i] = s[a + 1 + i - 1]
  BY <1>1, SubSeqProperties
<1>3. QED
  BY <1>2 DEF Slice

\* Overwrite keeps the length and replaces exactly the bytes it is given.
LEMMA OverwriteLemma ==
    ASSUME NEW s \in Seq(Nat), NEW k \in Nat, NEW bytes \in Seq(Nat)
    PROVE  /\ Overwrite(s, k, bytes) \in Seq(Nat)
           /\ Len(Overwrite(s, k, bytes)) = Len(s)
           /\ \A i \in 1 .. Len(s) :
                Overwrite(s, k, bytes)[i] =
                    IF i > k /\ i <= k + Len(bytes) THEN bytes[i - k] ELSE s[i]
<1>1. \A i \in 1 .. Len(s) :
        (IF i > k /\ i <= k + Len(bytes) THEN bytes[i - k] ELSE s[i]) \in Nat
  OBVIOUS
<1>2. QED
  BY <1>1 DEF Overwrite

\* Growing a store by n zero bytes changes nothing in front of them.
LEMMA GrowLemma ==
    ASSUME NEW s \in Seq(Nat), NEW n \in Nat
    PROVE  /\ s \o Zeros(n) \in Seq(Nat)
           /\ Len(s \o Zeros(n)) = Len(s) + n
           /\ \A i \in 1 .. Len(s) : (s \o Zeros(n))[i] = s[i]
<1>1. Zeros(n) \in Seq(Nat) /\ Len(Zeros(n)) = n
  BY DEF Zeros
<1>2. s \o Zeros(n) \in Seq(Nat)
  BY <1>1
<1>3. Len(s \o Zeros(n)) = Len(s) + n
  BY <1>1
<1>4. \A i \in 1 .. Len(s) : (s \o Zeros(n))[i] = s[i]
  BY <1>1
<1>5. QED
  BY <1>2, <1>3, <1>4

-----------------------------------------------------------------------------
(***************************************************************************)
(* The inductive invariant.                                                *)
(***************************************************************************)

\* n bytes are kept in the live store, and they are those that follow byte p.
Holds(store, start, end, p, n) ==
    /\ start <= end /\ end <= Len(store)
    /\ end - start = n
    /\ \A i \in 1 .. n : store[start + i] = p + i

\* The stores as Settle leaves them for the next read.
Settled(arr, vec, start, end, sp, p, n) ==
    /\ arr \in Seq(Nat) /\ Len(arr) = ResponseBufferSize
    /\ vec \in Seq(Nat)
    /\ start \in Nat /\ end \in Nat
    /\ sp \in [in : {"array", "vector"}, offset : Nat, length : Nat]
    /\ sp.length > 0 /\ sp.offset = end
    /\ Holds(IF vec = <<>> THEN arr ELSE vec, start, end, p, n)
    /\ vec = <<>> =>
         /\ sp.in = "array"
         /\ end + sp.length <= ResponseBufferSize
         /\ 2 * start < ResponseBufferSize
    /\ vec # <<>> =>
         /\ sp.in = "vector"
         /\ Len(vec) = end + ResponseBufferSize
         /\ sp.length = ResponseBufferSize
         /\ start = 0
         /\ end >= ResponseBufferSize

\* The stores in the middle of receive().
Loaded ==
    /\ readStart <= keptStart
    /\ vector # <<>> =>
         /\ readStart = 0
         /\ Len(vector) = keptEnd
         /\ keptEnd >= ResponseBufferSize

IInv ==
    /\ TypeOK
    /\ Holds(Store, keptStart, keptEnd, parsed, received - parsed)
    /\ phase = "reading" =>
         /\ Settled(array, vector, keptStart, keptEnd, space, parsed, received - parsed)
         /\ received - parsed < msgLength
    /\ phase = "feeding" => Loaded

\* Whatever of the array was still to be parsed is there for the next round.
LEMMA SettleArrayLemma ==
    ASSUME NEW arr \in Seq(Nat), Len(arr) = ResponseBufferSize,
           NEW start \in Nat, NEW end \in Nat, NEW p \in Nat, NEW n \in Nat,
           Holds(arr, start, end, p, n),
           SettleArray(arr, start, end)
    PROVE  Settled(array', vector', keptStart', keptEnd', space', p, n)
<1> USE SizesAssumption
<1>1. CASE FullArrayToVector(arr, start, end)
  <2>1. /\ vector' \in Seq(Nat)
        /\ Len(vector') = 2 * ResponseBufferSize
        /\ \A i \in 1 .. ResponseBufferSize : vector'[i] = arr[i]
    <3>1. vector' = arr \o Zeros(ResponseBufferSize)
      BY <1>1 DEF FullArrayToVector
    <3>2. /\ arr \o Zeros(ResponseBufferSize) \in Seq(Nat)
          /\ Len(arr \o Zeros(ResponseBufferSize)) = Len(arr) + ResponseBufferSize
          /\ \A i \in 1 .. Len(arr) : (arr \o Zeros(ResponseBufferSize))[i] = arr[i]
      BY GrowLemma, Zenon
    <3>3. QED
      BY <3>1, <3>2
  <2>2. vector' # <<>>
    BY <2>1
  <2>3. Holds(vector', keptStart', keptEnd', p, n)
    BY <1>1, <2>1 DEF FullArrayToVector, Holds
  <2>4. space' \in [in : {"array", "vector"}, offset : Nat, length : Nat]
    BY <1>1 DEF FullArrayToVector, InVector
  <2>5. QED
    BY <1>1, <2>1, <2>2, <2>3, <2>4 DEF FullArrayToVector, InVector, Settled
<1>2. CASE StartAfresh(arr, start, end)
  BY <1>2 DEF StartAfresh, InArray, Settled, Holds
<1>3. CASE MoveToFront(arr, start, end)
  <2>1. /\ start < end /\ end <= ResponseBufferSize /\ start > ResponseBufferSize - end
        /\ start <= end /\ end <= Len(arr)
    BY <1>3 DEF MoveToFront, MoreSpaceAtStart, Holds
  <2>2. /\ Slice(arr, start, end) \in Seq(Nat)
        /\ Len(Slice(arr, start, end)) = end - start
        /\ \A i \in 1 .. (end - start) : Slice(arr, start, end)[i] = arr[start + i]
    BY <2>1, SliceLemma, Zenon
  <2>3. /\ array' \in Seq(Nat)
        /\ Len(array') = ResponseBufferSize
        /\ \A i \in 1 .. (end - start) : array'[i] = arr[start + i]
    <3> DEFINE moved == Slice(arr, start, end)
    <3>1. moved \in Seq(Nat) /\ Len(moved) = end - start
      BY <2>2
    <3>2. array' = Overwrite(arr, 0, moved)
      BY <1>3 DEF MoveToFront, Compacted
    <3> HIDE DEF moved
    <3>3. /\ Overwrite(arr, 0, moved) \in Seq(Nat)
          /\ Len(Overwrite(arr, 0, moved)) = Len(arr)
          /\ \A i \in 1 .. Len(arr) :
                Overwrite(arr, 0, moved)[i] =
                    IF i > 0 /\ i <= 0 + Len(moved) THEN moved[i - 0] ELSE arr[i]
      <4>1. 0 \in Nat
        OBVIOUS
      <4>2. QED
        BY <3>1, <4>1, OverwriteLemma, Zenon
    <3>4. \A i \in 1 .. (end - start) : moved[i] = arr[start + i]
      BY <2>2 DEF moved
    <3>5. QED
      <4>1. ASSUME NEW i \in 1 .. (end - start)
            PROVE  array'[i] = arr[start + i]
        <5>1. i \in 1 .. Len(arr) /\ i > 0 /\ i <= 0 + Len(moved) /\ i - 0 = i
          BY <2>1, <3>1
        <5>2. QED
          BY <3>2, <3>3, <3>4, <5>1
      <4>2. QED
        BY <3>2, <3>3, <4>1
  <2>4. Holds(array', keptStart', keptEnd', p, n)
    <3>1. keptStart' = 0 /\ keptEnd' = end - start
      BY <1>3 DEF MoveToFront
    <3>2. /\ end - start = n
          /\ \A i \in 1 .. n : arr[start + i] = p + i
      BY DEF Holds
    <3>3. \A i \in 1 .. n : array'[0 + i] = p + i
      BY <2>3, <3>2
    <3>4. QED
      BY <2>1, <2>3, <3>1, <3>2, <3>3 DEF Holds
  <2>5. /\ space' \in [in : {"array", "vector"}, offset : Nat, length : Nat]
        /\ space'.in = "array" /\ space'.offset = end - start
        /\ space'.length > 0 /\ space'.length <= start
    BY <1>3, <2>1 DEF MoveToFront, InArray, SpaceAfterMove, Least
  <2>6. QED
    BY <1>3, <2>1, <2>3, <2>4, <2>5 DEF MoveToFront, Settled
<1>4. CASE ReadBehind(arr, start, end)
  <2>1. start < end /\ end < ResponseBufferSize /\ start <= ResponseBufferSize - end
    BY <1>4 DEF ReadBehind, MoreSpaceAtStart, Holds
  <2>2. /\ space' \in [in : {"array", "vector"}, offset : Nat, length : Nat]
        /\ space'.in = "array" /\ space'.offset = end
        /\ space'.length > 0 /\ end + space'.length <= ResponseBufferSize
    BY <1>4, <2>1 DEF ReadBehind, InArray, Least
  <2>3. QED
    BY <1>4, <2>1, <2>2 DEF ReadBehind, Settled
<1>5. QED
  BY <1>1, <1>2, <1>3, <1>4 DEF SettleArray

\* Leftovers that stay in the vector are followed by room for the next read.
LEMMA GrowVectorLemma ==
    ASSUME NEW left \in Seq(Nat), NEW p \in Nat,
           Len(left) >= ResponseBufferSize,
           \A i \in 1 .. Len(left) : left[i] = p + i,
           array \in Seq(Nat), Len(array) = ResponseBufferSize,
           GrowVector(left, 0)
    PROVE  Settled(array', vector', keptStart', keptEnd', space', p, Len(left))
<1> USE SizesAssumption
<1>1. ResponseBufferSize \in Nat /\ ResponseBufferSize > 0 /\ Len(left) \in Nat
  OBVIOUS
<1>2. /\ left \o Zeros(ResponseBufferSize) \in Seq(Nat)
      /\ Len(left \o Zeros(ResponseBufferSize)) = Len(left) + ResponseBufferSize
      /\ \A i \in 1 .. Len(left) : (left \o Zeros(ResponseBufferSize))[i] = left[i]
  BY <1>1, GrowLemma, Zenon
<1>3. /\ vector' = left \o Zeros(ResponseBufferSize)
      /\ keptStart' = 0 /\ keptEnd' = Len(left)
      /\ space' = InVector(Len(left), ResponseBufferSize)
      /\ array' = array
  BY DEF GrowVector
<1>4. /\ vector' \in Seq(Nat)
      /\ Len(vector') = Len(left) + ResponseBufferSize
      /\ \A i \in 1 .. Len(left) : vector'[0 + i] = p + i
  BY <1>2, <1>3
<1>5. vector' # <<>>
  BY <1>1, <1>4
<1>6. Holds(vector', keptStart', keptEnd', p, Len(left))
  BY <1>1, <1>3, <1>4 DEF Holds
<1>7. QED
  BY <1>1, <1>3, <1>4, <1>5, <1>6 DEF Settled, InVector

\* Settle keeps the bytes from offset start on, in whichever store it chooses.
LEMMA SettleLemma ==
    ASSUME TypeOK, Loaded,
           NEW start \in Nat, NEW p \in Nat, NEW n \in Nat,
           readStart <= start,
           Holds(Store, start, keptEnd, p, n),
           Settle(start)
    PROVE  Settled(array', vector', keptStart', keptEnd', space', p, n)
<1> DEFINE left == Slice(vector, start, Len(vector))
<1> USE SizesAssumption
<1>1. CASE vector = <<>> /\ SettleArray(array, start, keptEnd)
  <2>1. array \in Seq(Nat) /\ Len(array) = ResponseBufferSize /\ keptEnd \in Nat
    BY DEF TypeOK
  <2>2. Holds(array, start, keptEnd, p, n)
    BY <1>1 DEF Store
  <2>3. QED
    BY <1>1, <2>1, <2>2, SettleArrayLemma
<1>2. CASE vector # <<>> /\ start = readStart /\ GrowVector(vector, start)
  <2>1. /\ vector \in Seq(Nat) /\ array \in Seq(Nat) /\ Len(array) = ResponseBufferSize
        /\ start = 0 /\ Len(vector) = keptEnd /\ keptEnd >= ResponseBufferSize
    BY <1>2 DEF TypeOK, Loaded
  <2>2. n = Len(vector) /\ \A i \in 1 .. Len(vector) : vector[i] = p + i
    BY <1>2, <2>1 DEF Holds, Store
  <2>3. GrowVector(vector, 0)
    BY <1>2, <2>1
  <2>4. QED
    BY <2>1, <2>2, <2>3, GrowVectorLemma
<1>3. CASE /\ vector # <<>> /\ start # readStart
           /\ IF FitsArray(left)
              THEN SettleArray(Overwrite(array, 0, left), 0, Len(left))
              ELSE GrowVector(left, 0)
  <2>1. /\ vector \in Seq(Nat) /\ array \in Seq(Nat) /\ Len(array) = ResponseBufferSize
        /\ Len(vector) = keptEnd /\ Len(vector) \in Nat
    BY <1>3 DEF TypeOK, Loaded
  <2>2. /\ start <= Len(vector) /\ Len(vector) <= Len(vector) /\ Len(vector) - start = n
        /\ \A i \in 1 .. n : vector[start + i] = p + i
    BY <1>3, <2>1 DEF Holds, Store
  <2>3. /\ left \in Seq(Nat)
        /\ Len(left) = Len(vector) - start
        /\ \A i \in 1 .. (Len(vector) - start) : left[i] = vector[start + i]
    BY <2>1, <2>2, SliceLemma, Zenon
  <2> HIDE DEF left
  <2>4. Len(left) = n /\ \A i \in 1 .. n : left[i] = p + i
    BY <2>2, <2>3
  <2>5. CASE FitsArray(left)
    <3> DEFINE arr == Overwrite(array, 0, left)
    <3>1. 0 \in Nat
      OBVIOUS
    <3>2. /\ arr \in Seq(Nat)
          /\ Len(arr) = Len(array)
          /\ \A i \in 1 .. Len(array) :
                arr[i] = IF i > 0 /\ i <= 0 + Len(left) THEN left[i - 0] ELSE array[i]
      BY <2>1, <2>3, <3>1, OverwriteLemma, Zenon
    <3>3. SettleArray(arr, 0, Len(left))
      BY <1>3, <2>5
    <3> HIDE DEF arr
    <3>4. Len(left) <= ResponseBufferSize
      BY <2>5 DEF FitsArray
    <3>5. \A i \in 1 .. n : arr[0 + i] = p + i
      BY <2>1, <2>4, <3>2, <3>4
    <3>6. Holds(arr, 0, Len(left), p, n)
      BY <2>1, <2>4, <3>2, <3>4, <3>5 DEF Holds
    <3>7. QED
      BY <2>1, <2>4, <3>1, <3>2, <3>3, <3>6, SettleArrayLemma
  <2>6. CASE ~FitsArray(left)
    <3>1. Len(left) >= ResponseBufferSize
      BY <2>4, <2>6 DEF FitsArray
    <3>2. GrowVector(left, 0)
      BY <1>3, <2>6
    <3>3. QED
      BY <2>1, <2>3, <2>4, <3>1, <3>2, GrowVectorLemma
  <2>7. QED
    BY <2>5, <2>6
<1>4. QED
  BY <1>1, <1>2, <1>3 DEF Settle

-----------------------------------------------------------------------------
(***************************************************************************)
(* The invariant is inductive.                                             *)
(***************************************************************************)

\* The buffer starts empty, with room for a read.
LEMMA InitIInv == Init => IInv
<1> SUFFICES ASSUME Init PROVE IInv
  OBVIOUS
<1> USE SizesAssumption
<1>1. Zeros(ResponseBufferSize) \in Seq(Nat) /\ Len(Zeros(ResponseBufferSize)) = ResponseBufferSize
  BY DEF Zeros
<1>2. TypeOK
  BY <1>1, MessagesAssumption DEF Init, TypeOK, Store, InArray
<1>3. Settled(array, vector, keptStart, keptEnd, space, parsed, received - parsed)
  BY <1>1 DEF Init, Settled, Holds, InArray
<1>4. received - parsed < msgLength
  BY MessagesAssumption DEF Init
<1>5. Holds(Store, keptStart, keptEnd, parsed, received - parsed)
  BY <1>3 DEF Settled, Store
<1>6. QED
  BY <1>2, <1>3, <1>4, <1>5 DEF Init, IInv

\* n bytes read behind the kept ones extend what the store holds.
LEMMA ReadLemma ==
    ASSUME NEW s \in Seq(Nat), NEW start \in Nat, NEW end \in Nat,
           NEW p \in Nat, NEW k \in Nat, NEW n \in Nat, NEW r \in Nat,
           Holds(s, start, end, p, k), r = p + k, end + n <= Len(s)
    PROVE  Holds(Overwrite(s, end, Stream(r, r + n)), start, end + n, p, k + n)
<1> DEFINE bytes == Stream(r, r + n)
           w == Overwrite(s, end, bytes)
<1>1. /\ bytes \in Seq(Nat) /\ Len(bytes) = n
      /\ \A i \in 1 .. n : bytes[i] = r + i
  BY StreamLemma
<1> HIDE DEF bytes
<1>2. /\ w \in Seq(Nat) /\ Len(w) = Len(s)
      /\ \A i \in 1 .. Len(s) :
            w[i] = IF i > end /\ i <= end + Len(bytes) THEN bytes[i - end] ELSE s[i]
  BY <1>1, OverwriteLemma
<1> HIDE DEF w
<1>3. ASSUME NEW i \in 1 .. (k + n)
      PROVE  w[start + i] = p + i
  <2>1. start + i \in 1 .. Len(s) /\ start + k = end
    BY DEF Holds
  <2>2. CASE i <= k
    <3>1. i \in 1 .. k /\ ~(start + i > end)
      BY <2>1, <2>2
    <3>2. s[start + i] = p + i
      BY <3>1 DEF Holds
    <3>3. QED
      BY <1>2, <2>1, <3>1, <3>2
  <2>3. CASE i > k
    <3>1. /\ start + i > end /\ start + i <= end + Len(bytes)
          /\ start + i - end = i - k /\ i - k \in 1 .. n
      BY <1>1, <2>1, <2>3
    <3>2. w[start + i] = bytes[start + i - end]
      BY <1>2, <2>1, <3>1
    <3>3. bytes[i - k] = r + (i - k)
      BY <1>1, <3>1
    <3>4. r + (i - k) = p + i
      OBVIOUS
    <3>5. QED
      BY <3>1, <3>2, <3>3, <3>4
  <2>4. QED
    BY <2>2, <2>3
<1>4. start <= end + n /\ end + n - start = k + n
  BY DEF Holds
<1>5. Holds(w, start, end + n, p, k + n)
  BY <1>2, <1>3, <1>4 DEF Holds
<1>6. QED
  BY <1>5 DEF w, bytes

\* Cutting off what lies behind the kept bytes keeps them.
LEMMA ShrunkLemma ==
    ASSUME NEW s \in Seq(Nat), NEW start \in Nat, NEW end \in Nat,
           NEW p \in Nat, NEW k \in Nat, Holds(s, start, end, p, k)
    PROVE  /\ Shrunk(s, end) \in Seq(Nat)
           /\ Len(Shrunk(s, end)) = end
           /\ Holds(Shrunk(s, end), start, end, p, k)
<1>1. 0 \in Nat /\ 0 <= end /\ end <= Len(s) /\ start + k = end
  BY DEF Holds
<1>2. /\ Slice(s, 0, end) \in Seq(Nat)
      /\ Len(Slice(s, 0, end)) = end - 0
      /\ \A i \in 1 .. (end - 0) : Slice(s, 0, end)[i] = s[0 + i]
  BY <1>1, SliceLemma
<1>3. \A i \in 1 .. k : Slice(s, 0, end)[start + i] = p + i
  BY <1>1, <1>2 DEF Holds
<1>4. QED
  BY <1>1, <1>2, <1>3 DEF Holds, Shrunk

\* A read appends to the kept bytes, in the array or in the vector.
LEMMA ReceiveIInv ==
    ASSUME IInv, NEW n \in 1 .. StreamLength, Receive(n)
    PROVE  IInv'
<1> USE SizesAssumption
<1> DEFINE k == received - parsed
           w == Overwrite(Store, keptEnd, Stream(received, received + n))
<1>1. /\ phase = "reading" /\ n \in Nat /\ n >= 1 /\ n <= space.length
      /\ keptEnd' = keptEnd + n /\ keptStart' = keptStart /\ readStart' = keptStart
      /\ received' = received + n /\ parsed' = parsed /\ phase' = "feeding"
      /\ space' = space /\ msgLength' = msgLength
  BY MessagesAssumption DEF Receive
<1>2. TypeOK /\ Settled(array, vector, keptStart, keptEnd, space, parsed, k)
  BY <1>1 DEF IInv
<1>3. /\ keptStart \in Nat /\ keptEnd \in Nat /\ received \in Nat /\ parsed \in Nat
      /\ Store \in Seq(Nat) /\ Holds(Store, keptStart, keptEnd, parsed, k)
      /\ k \in Nat /\ received = parsed + k /\ keptEnd - keptStart = k
      /\ space.offset = keptEnd /\ keptEnd + n <= Len(Store)
  BY <1>1, <1>2 DEF TypeOK, Settled, Holds, Store
<1>4. /\ w \in Seq(Nat) /\ Len(w) = Len(Store)
      /\ Holds(w, keptStart, keptEnd + n, parsed, k + n)
  <2> HIDE DEF k
  <2>1. /\ Store \in Seq(Nat) /\ keptStart \in Nat /\ keptEnd \in Nat /\ parsed \in Nat
        /\ k \in Nat /\ n \in Nat /\ received \in Nat
        /\ Holds(Store, keptStart, keptEnd, parsed, k)
        /\ received = parsed + k /\ keptEnd + n <= Len(Store)
    BY <1>1, <1>3
  <2>2. Holds(w, keptStart, keptEnd + n, parsed, k + n)
    BY <2>1, ReadLemma
  <2>3. Stream(received, received + n) \in Seq(Nat)
    BY <2>1, StreamLemma
  <2>4. w \in Seq(Nat) /\ Len(w) = Len(Store)
    BY <2>1, <2>3, OverwriteLemma
  <2>5. QED
    BY <2>2, <2>4
<1>8. received' - parsed' = k + n
  BY <1>1, <1>3
<1>5. CASE vector = <<>>
  <2>1. vector' = <<>> /\ array' = w
    BY <1>2, <1>3, <1>5 DEF Receive, Settled, Store
  <2>2. /\ Store' = w /\ Len(w) = ResponseBufferSize
    BY <1>2, <1>4, <1>5, <2>1 DEF Store, TypeOK
  <2>3. Holds(Store', keptStart', keptEnd', parsed', received' - parsed')
    BY <1>1, <1>4, <1>8, <2>2
  <2>4. TypeOK'
    <3>1. keptStart <= keptEnd + n /\ keptEnd + n <= Len(w)
      BY <1>1, <1>3, <1>4
    <3> HIDE DEF w
    <3>2. QED
      BY <1>1, <1>2, <1>3, <1>4, <2>1, <2>2, <3>1 DEF TypeOK
  <2>5. QED
    BY <1>1, <1>3, <2>1, <2>3, <2>4 DEF IInv, Loaded
<1>6. CASE vector # <<>>
  <2>1. /\ space.in = "vector" /\ keptStart = 0 /\ keptEnd >= ResponseBufferSize
    BY <1>2, <1>6 DEF Settled
  <2>2. array' = array /\ vector' = Shrunk(w, keptEnd + n)
    BY <1>3, <1>6, <2>1 DEF Receive, Store
  <2>3. /\ vector' \in Seq(Nat) /\ Len(vector') = keptEnd + n
        /\ Holds(vector', keptStart, keptEnd + n, parsed, k + n)
    <3>1. keptEnd + n \in Nat /\ k + n \in Nat
      BY <1>1, <1>3
    <3> HIDE DEF w, k
    <3>2. QED
      BY <1>3, <1>4, <2>2, <3>1, ShrunkLemma
  <2>4. vector' # <<>> /\ Store' = vector'
    BY <1>1, <1>3, <2>3 DEF Store
  <2>5. Holds(Store', keptStart', keptEnd', parsed', received' - parsed')
    BY <1>1, <1>8, <2>3, <2>4
  <2>6. TypeOK'
    <3>1. keptStart <= keptEnd + n
      BY <1>1, <1>3
    <3> HIDE DEF w
    <3>2. QED
      BY <1>1, <1>2, <1>3, <2>2, <2>3, <2>4, <3>1 DEF TypeOK
  <2>7. QED
    BY <1>1, <1>3, <2>1, <2>3, <2>4, <2>5, <2>6 DEF IInv, Loaded
<1>7. QED
  BY <1>5, <1>6

\* Feeding a message, or finding none, keeps what is not parsed.
LEMMA FeedIInv ==
    ASSUME IInv, FeedIncomplete \/ FeedMessage
    PROVE  IInv'
<1> USE SizesAssumption, MessagesAssumption
<1> DEFINE k == received - parsed
<1>1. /\ phase = "feeding" /\ TypeOK /\ Loaded
      /\ keptStart \in Nat /\ keptEnd \in Nat /\ received \in Nat /\ parsed \in Nat
      /\ k = keptEnd - keptStart /\ readStart \in Nat /\ readStart <= keptStart
      /\ msgLength \in Nat \ {0}
      /\ Holds(Store, keptStart, keptEnd, parsed, k)
  BY DEF IInv, TypeOK, FeedIncomplete, FeedMessage, Loaded, Holds
<1>2. ASSUME NEW p \in Nat, NEW n \in Nat, n < msgLength', msgLength' \in MessageLengths,
             Settled(array', vector', keptStart', keptEnd', space', p, n),
             parsed' = p, received' = p + n, phase' = "reading", readStart' = readStart
      PROVE  IInv'
  <2>1. received' - parsed' = n /\ received' \in Nat /\ parsed' \in Nat
    BY <1>2
  <2>2. Holds(Store', keptStart', keptEnd', p, n)
    BY <1>2 DEF Settled, Store
  <2>3. TypeOK'
    BY <1>1, <1>2, <2>1, <2>2 DEF TypeOK, Settled, Holds
  <2>4. QED
    BY <1>2, <2>1, <2>2, <2>3 DEF IInv
<1>3. CASE FeedIncomplete
  <2>1. /\ Settle(keptStart) /\ k < msgLength /\ phase' = "reading"
        /\ UNCHANGED <<readStart, received, parsed, msgLength>>
    BY <1>1, <1>3 DEF FeedIncomplete
  <2>2. k \in Nat /\ received = parsed + k /\ msgLength \in MessageLengths
    BY <1>1 DEF Holds, TypeOK
  <2> HIDE DEF k
  <2>3. Settled(array', vector', keptStart', keptEnd', space', parsed, k)
    BY <1>1, <2>1, <2>2, SettleLemma
  <2>4. QED
    BY <1>1, <1>2, <2>1, <2>2, <2>3
<1>4. CASE FeedMessage
  <2> DEFINE start == keptStart + msgLength
             p == parsed + msgLength
             n == k - msgLength
  <2>1. /\ start \in Nat /\ p \in Nat /\ n \in Nat /\ readStart <= start /\ start <= keptEnd
        /\ n = keptEnd - start /\ received = p + n /\ keptStart < start
    BY <1>1, <1>4 DEF FeedMessage
  <2>2. Holds(Store, start, keptEnd, p, n)
    <3>1. ASSUME NEW i \in 1 .. n
          PROVE  Store[start + i] = p + i
      <4>1. msgLength + i \in 1 .. k /\ start + i = keptStart + (msgLength + i)
            /\ p + i = parsed + (msgLength + i)
        BY <1>1, <2>1
      <4>2. Store[keptStart + (msgLength + i)] = parsed + (msgLength + i)
        BY <1>1, <4>1 DEF Holds
      <4>3. QED
        BY <4>1, <4>2
    <3>2. QED
      BY <1>1, <2>1, <3>1 DEF Holds
  <2>3. /\ parsed' = p /\ received' = received /\ readStart' = readStart
        /\ msgLength' \in MessageLengths
    BY <1>4 DEF FeedMessage
  <2> HIDE DEF start, p, n
  <2>4. CASE LoopEnds(start)
    <3>1. Settle(start) /\ phase' = "reading"
      BY <1>4, <2>4 DEF FeedMessage, start
    <3>2. Settled(array', vector', keptStart', keptEnd', space', p, n)
      BY <1>1, <2>1, <2>2, <3>1, SettleLemma
    <3>3. n < msgLength'
      BY <1>1, <2>1, <2>3, <2>4 DEF LoopEnds
    <3>4. QED
      BY <1>2, <2>1, <2>3, <3>1, <3>2, <3>3
  <2>5. CASE ~LoopEnds(start)
    <3>1. /\ keptStart' = start
          /\ UNCHANGED <<array, vector, keptEnd, space, phase>>
      BY <1>4, <2>5 DEF FeedMessage, start
    <3>2. Store' = Store
      BY <3>1 DEF Store
    <3>3. TypeOK'
      BY <1>1, <2>1, <2>3, <3>1, <3>2 DEF TypeOK
    <3>4. Holds(Store', keptStart', keptEnd', parsed', received' - parsed')
      <4>1. received' - parsed' = n
        BY <1>1, <2>1, <2>3
      <4>2. QED
        BY <2>2, <2>3, <3>1, <3>2, <4>1
    <3>5. Loaded'
      BY <1>1, <2>1, <2>3, <3>1 DEF Loaded
    <3>6. QED
      BY <1>1, <3>1, <3>3, <3>4, <3>5 DEF IInv
  <2>6. QED
    BY <2>4, <2>5
<1>5. QED
  BY <1>3, <1>4

\* Every step preserves the invariant.
LEMMA NextIInv == IInv /\ [Next]_vars => IInv'
<1> SUFFICES ASSUME IInv, [Next]_vars PROVE IInv'
  OBVIOUS
<1>1. ASSUME NEW n \in 1 .. StreamLength, Receive(n) PROVE IInv'
  BY <1>1, ReceiveIInv
<1>2. CASE FeedIncomplete \/ FeedMessage
  BY <1>2, FeedIInv
<1>3. CASE Fail \/ FeedDisconnect
  BY <1>3 DEF Fail, FeedDisconnect, stores, IInv, TypeOK, Store
<1>4. CASE UNCHANGED vars
  BY <1>4 DEF vars, IInv, TypeOK, Store, Loaded
<1>5. QED
  BY <1>1, <1>2, <1>3, <1>4 DEF Next

\* The inductive invariant holds in every reachable state.
THEOREM Inductive == Spec => []IInv
BY InitIInv, NextIInv, PTL DEF Spec

-----------------------------------------------------------------------------
(***************************************************************************)
(* The properties that the runs check.                                     *)
(***************************************************************************)

\* The offsets of receive() always lie in the store that is in use.
THEOREM TypeCorrect == Spec => []TypeOK
<1>1. IInv => TypeOK
  BY DEF IInv
<1>2. QED
  BY Inductive, <1>1, PTL

\* No byte is lost, duplicated or reordered between the socket and the
\* responder, whatever receive() does to its two stores.
THEOREM StreamIsIntact == Spec => []StreamIntact
<1>1. IInv => StreamIntact
  <2> SUFFICES ASSUME IInv PROVE StreamIntact
    OBVIOUS
  <2>1. /\ Store \in Seq(Nat) /\ keptStart \in Nat /\ keptEnd \in Nat
        /\ parsed \in Nat /\ received \in Nat
        /\ keptStart <= keptEnd /\ keptEnd <= Len(Store)
        /\ parsed <= received /\ received - parsed = keptEnd - keptStart
        /\ \A i \in 1 .. (keptEnd - keptStart) : Store[keptStart + i] = parsed + i
    <3>1. TypeOK /\ Holds(Store, keptStart, keptEnd, parsed, received - parsed)
      BY DEF IInv
    <3>2. /\ keptStart \in Nat /\ keptEnd \in Nat /\ parsed \in Nat /\ received \in Nat
          /\ Store \in Seq(Nat) /\ keptStart <= keptEnd
      BY <3>1 DEF TypeOK, Store
    <3>3. parsed <= received /\ received - parsed = keptEnd - keptStart
      BY <3>1, <3>2 DEF Holds
    <3>4. /\ keptEnd <= Len(Store)
          /\ \A i \in 1 .. (received - parsed) : Store[keptStart + i] = parsed + i
      BY <3>1 DEF Holds
    <3>5. QED
      BY <3>2, <3>3, <3>4
  <2>2. /\ Kept \in Seq(Nat)
        /\ Len(Kept) = keptEnd - keptStart
        /\ \A i \in 1 .. (keptEnd - keptStart) : Kept[i] = Store[keptStart + i]
    BY <2>1, SliceLemma DEF Kept
  <2>3. /\ Stream(parsed, received) \in Seq(Nat)
        /\ Len(Stream(parsed, received)) = received - parsed
        /\ \A i \in 1 .. (received - parsed) : Stream(parsed, received)[i] = parsed + i
    <3> DEFINE n == received - parsed
    <3>1. n \in Nat /\ parsed + n = received
      BY <2>1
    <3> HIDE DEF n
    <3>2. /\ Stream(parsed, parsed + n) \in Seq(Nat)
          /\ Len(Stream(parsed, parsed + n)) = n
          /\ \A i \in 1 .. n : Stream(parsed, parsed + n)[i] = parsed + i
      BY <2>1, <3>1, StreamLemma
    <3>3. QED
      BY <3>1, <3>2 DEF n
  <2>4. \A i \in 1 .. Len(Kept) : Kept[i] = Stream(parsed, received)[i]
    BY <2>1, <2>2, <2>3
  <2>5. QED
    BY <2>1, <2>2, <2>3, <2>4, SeqEqual DEF StreamIntact
<1>2. QED
  BY Inductive, <1>1, PTL

\* Every read is given room, and never room that holds unparsed bytes.
THEOREM SpaceIsUsable == Spec => []SpaceUsable
<1>1. IInv => SpaceUsable
  BY SizesAssumption DEF IInv, SpaceUsable, Settled, Store
<1>2. QED
  BY Inductive, <1>1, PTL

\* A session never waits for the peer with a complete message in its hands.
THEOREM NothingLeftBehind == Spec => []NoMessageLeftBehind
<1>1. IInv => NoMessageLeftBehind
  BY DEF IInv, NoMessageLeftBehind, Holds
<1>2. QED
  BY Inductive, <1>1, PTL

\* The heap memory of a waiting session is bounded by the message it waits for.
THEOREM VectorIsBounded == Spec => []VectorOnlyWhenNeeded
<1>1. IInv => VectorOnlyWhenNeeded
  BY SizesAssumption, MessagesAssumption DEF IInv, TypeOK, VectorOnlyWhenNeeded, Settled, Holds
<1>2. QED
  BY Inductive, <1>1, PTL

\* _keptStart cannot become large.
THEOREM KeptStartIsBounded == Spec => []KeptStartBounded
<1>1. IInv => KeptStartBounded
  BY SizesAssumption DEF IInv, TypeOK, KeptStartBounded, Settled
<1>2. QED
  BY Inductive, <1>1, PTL

-----------------------------------------------------------------------------
(***************************************************************************)
(* The buffer implements MessageStream.                                    *)
(***************************************************************************)

\* Initially nothing has arrived.
LEMMA InitImplements == Init => MS!Init
<1> SUFFICES ASSUME Init PROVE MS!Init
  OBVIOUS
<1>1. Kept = <<>>
  BY SubSeqEmpty DEF Init, Kept, Slice
<1>2. QED
  BY <1>1 DEF Init, MS!Init

\* Every step of the buffer is one of the stream, or is invisible there.
LEMMA NextImplements ==
    ASSUME IInv, IInv', StreamIntact, StreamIntact', [Next]_vars
    PROVE  [MS!Next]_MS!absVars
<1>1. /\ Kept = Stream(parsed, received) /\ Kept' = Stream(parsed', received')
      /\ parsed \in Nat /\ received \in Nat /\ parsed' \in Nat /\ received' \in Nat
      /\ keptStart \in Nat /\ keptEnd \in Nat /\ msgLength \in Nat
      /\ received - parsed = keptEnd - keptStart /\ keptStart <= keptEnd
  BY MessagesAssumption DEF StreamIntact, IInv, TypeOK, Holds
<1>2. parsed <= received
  BY <1>1
<1>3. ASSUME NEW n \in 1 .. StreamLength, Receive(n)
      PROVE  MS!Arrive
  <2>1. /\ n \in Nat /\ n > 0 /\ received' = received + n /\ parsed' = parsed
        /\ phase = "reading" /\ phase' = "feeding" /\ msgLength' = msgLength
    BY <1>3, MessagesAssumption DEF Receive
  <2>2. received' > received /\ received <= received'
    BY <1>1, <2>1
  <2>3. Stream(parsed, received') = Stream(parsed, received) \o Stream(received, received')
    BY <1>1, <1>2, <2>2, StreamJoins
  <2>4. Kept' = Kept \o Stream(received, received')
    BY <1>1, <2>1, <2>3
  <2>5. Kept' = Kept \o MS!Stream(received, received')
    BY <2>4 DEF MS!Stream, Stream
  <2>6. QED
    BY <1>1, <2>1, <2>2, <2>5 DEF MS!Arrive
<1>4. CASE FeedMessage
  <2>1. /\ parsed' = parsed + msgLength /\ received' = received /\ msgLength' \in MessageLengths
        /\ phase = "feeding" /\ keptEnd - keptStart >= msgLength
    BY <1>4 DEF FeedMessage
  <2>2. phase' \in {"reading", "feeding"}
    BY <1>4 DEF FeedMessage
  <2>3. parsed + msgLength <= received /\ received - parsed >= msgLength
    BY <1>1, <2>1
  <2>4. Stream(parsed + msgLength, received)
            = SubSeq(Stream(parsed, received), msgLength + 1, received - parsed)
    BY <1>1, <2>3, StreamDrops
  <2>5. Len(Kept) = received - parsed
    <3>1. received - parsed \in Nat
      BY <1>1, <1>2
    <3>2. QED
      BY <1>1, <3>1 DEF Stream
  <2>6. Kept' = SubSeq(Kept, msgLength + 1, Len(Kept))
    BY <1>1, <2>1, <2>4, <2>5
  <2>7. MS!HandOver
    BY <2>1, <2>2, <2>3, <2>5, <2>6 DEF MS!HandOver
  <2>8. QED
    BY <2>7 DEF MS!Next
<1>5. CASE FeedIncomplete
  <2>1. /\ parsed' = parsed /\ received' = received /\ msgLength' = msgLength
        /\ phase = "feeding" /\ phase' = "reading"
    BY <1>5 DEF FeedIncomplete
  <2>2. Kept' = Kept
    BY <1>1, <2>1
  <2>3. QED
    BY <2>1, <2>2 DEF MS!absVars
<1>6. CASE Fail \/ FeedDisconnect
  <2>1. /\ parsed' = parsed /\ received' = received /\ msgLength' = msgLength
        /\ phase # "closed" /\ phase' = "closed"
    BY <1>6 DEF Fail, FeedDisconnect
  <2>2. Kept' = Kept
    BY <1>1, <2>1
  <2>3. MS!Close
    BY <2>1, <2>2 DEF MS!Close
  <2>4. QED
    BY <2>3 DEF MS!Next
<1>7. CASE UNCHANGED vars
  <2>1. /\ parsed' = parsed /\ received' = received /\ msgLength' = msgLength /\ phase' = phase
    BY <1>7 DEF vars
  <2>2. Kept' = Kept
    BY <1>1, <2>1
  <2>3. QED
    BY <2>1, <2>2 DEF MS!absVars
<1>8. QED
  BY <1>3, <1>4, <1>5, <1>6, <1>7 DEF Next, MS!Next

\* Whatever it does to its stores, the buffer hands over whole messages in order.
THEOREM Implements == Spec => ImplementsStream
<1>1. Spec => [](IInv /\ StreamIntact)
  BY Inductive, StreamIsIntact, PTL
<1>2. (IInv /\ StreamIntact) /\ (IInv /\ StreamIntact)' /\ [Next]_vars => [MS!Next]_MS!absVars
  BY NextImplements
<1>3. QED
  BY <1>1, <1>2, InitImplements, PTL DEF Spec, ImplementsStream, MS!Spec
=============================================================================
