-------------------------- MODULE ByteStream_proof --------------------------
(***************************************************************************)
(* How stretches of a byte stream join and are cut.                        *)
(***************************************************************************)
EXTENDS ByteStream, SequenceTheorems, TLAPS

\* A stretch of the stream.
LEMMA StreamLemma ==
    ASSUME NEW a \in Nat, NEW n \in Nat
    PROVE  /\ Stream(a, a + n) \in Seq(Nat)
           /\ Len(Stream(a, a + n)) = n
           /\ \A i \in 1 .. n : Stream(a, a + n)[i] = a + i
<1>1. a + n - a = n
  OBVIOUS
<1>2. Stream(a, a + n) = [i \in 1 .. n |-> a + i]
  BY <1>1 DEF Stream
<1>3. QED
  BY <1>2

\* Adjacent stretches of the stream join.
LEMMA StreamJoins ==
    ASSUME NEW a \in Nat, NEW b \in Nat, NEW c \in Nat, a <= b, b <= c
    PROVE  Stream(a, c) = Stream(a, b) \o Stream(b, c)
<1>1. /\ b - a \in Nat /\ c - b \in Nat /\ c - a \in Nat
      /\ c - a = (b - a) + (c - b)
  OBVIOUS
<1>2. /\ Stream(a, c) = [i \in 1 .. (c - a) |-> a + i]
      /\ Stream(a, b) = [i \in 1 .. (b - a) |-> a + i]
      /\ Stream(b, c) = [i \in 1 .. (c - b) |-> b + i]
  BY DEF Stream
<1>3. /\ Stream(a, c) \in Seq(Nat) /\ Len(Stream(a, c)) = c - a
      /\ Stream(a, b) \in Seq(Nat) /\ Len(Stream(a, b)) = b - a
      /\ Stream(b, c) \in Seq(Nat) /\ Len(Stream(b, c)) = c - b
  BY <1>1, <1>2
<1> DEFINE joined == Stream(a, b) \o Stream(b, c)
<1>4. /\ joined \in Seq(Nat) /\ Len(joined) = c - a
      /\ \A i \in 1 .. (c - a) :
            joined[i] = IF i <= b - a THEN Stream(a, b)[i] ELSE Stream(b, c)[i - (b - a)]
  <2> DEFINE s1 == Stream(a, b)
             s2 == Stream(b, c)
  <2>1. s1 \in Seq(Nat) /\ s2 \in Seq(Nat) /\ Len(s1) = b - a /\ Len(s2) = c - b
    BY <1>3
  <2> HIDE DEF s1, s2
  <2>2. /\ s1 \o s2 \in Seq(Nat)
        /\ Len(s1 \o s2) = Len(s1) + Len(s2)
        /\ \A i \in 1 .. Len(s1) + Len(s2) :
              (s1 \o s2)[i] = IF i <= Len(s1) THEN s1[i] ELSE s2[i - Len(s1)]
    BY <2>1, ConcatProperties, Zenon
  <2>3. Len(s1) + Len(s2) = c - a
    BY <1>1, <2>1
  <2>4. QED
    BY <2>1, <2>2, <2>3 DEF s1, s2
<1> HIDE DEF joined
<1>5. ASSUME NEW i \in 1 .. (c - a)
      PROVE  Stream(a, c)[i] = joined[i]
  <2>1. CASE i <= b - a
    <3>1. i \in 1 .. (b - a)
      BY <1>1, <2>1
    <3>2. joined[i] = Stream(a, b)[i]
      BY <1>4, <2>1
    <3>3. Stream(a, b)[i] = a + i /\ Stream(a, c)[i] = a + i
      BY <1>2, <3>1
    <3>4. QED
      BY <3>2, <3>3
  <2>2. CASE i > b - a
    <3>1. joined[i] = Stream(b, c)[i - (b - a)] /\ i - (b - a) \in 1 .. (c - b)
      BY <1>1, <1>4, <2>2
    <3>2. Stream(b, c)[i - (b - a)] = b + (i - (b - a))
      BY <1>2, <3>1
    <3>3. b + (i - (b - a)) = a + i
      OBVIOUS
    <3>4. QED
      BY <1>2, <3>1, <3>2, <3>3
  <2>3. QED
    BY <1>1, <2>1, <2>2
<1>6. Stream(a, c) = joined
  BY <1>3, <1>4, <1>5, SeqEqual
<1>7. QED
  BY <1>6 DEF joined

\* What is left of a stretch of the stream without its first m bytes.
LEMMA StreamDrops ==
    ASSUME NEW a \in Nat, NEW b \in Nat, NEW m \in Nat, a + m <= b
    PROVE  Stream(a + m, b) = SubSeq(Stream(a, b), m + 1, b - a)
<1>1. /\ Stream(a, b) = [i \in 1 .. (b - a) |-> a + i]
      /\ Stream(a + m, b) = [i \in 1 .. (b - (a + m)) |-> a + m + i]
  BY DEF Stream
<1>2. /\ b - a \in Nat /\ b - (a + m) \in Nat /\ b - (a + m) = b - a - m
      /\ Stream(a + m, b) \in Seq(Nat) /\ Len(Stream(a + m, b)) = b - (a + m)
      /\ Stream(a, b) \in Seq(Nat) /\ Len(Stream(a, b)) = b - a
  BY <1>1
<1> DEFINE s == Stream(a, b)
           n == b - a
<1>3. s \in Seq(Nat) /\ Len(s) = n /\ n \in Nat /\ m + 1 \in Nat /\ m <= n
  BY <1>2
<1> HIDE DEF s, n
<1>4. /\ \A i \in (m + 1) .. n : s[i] \in Nat
      /\ m + 1 <= n => n - (m + 1) + 1 = n - m
      /\ m + 1 > n => n - m = 0
  BY <1>3
<1>5. /\ SubSeq(s, m + 1, n) \in Seq(Nat)
      /\ Len(SubSeq(s, m + 1, n)) = IF m + 1 <= n THEN n - (m + 1) + 1 ELSE 0
      /\ \A i \in 1 .. (n - (m + 1) + 1) : SubSeq(s, m + 1, n)[i] = s[m + 1 + i - 1]
  BY <1>3, <1>4, SubSeqProperties
<1>6. /\ Len(SubSeq(s, m + 1, n)) = n - m
      /\ \A i \in 1 .. (n - m) : SubSeq(s, m + 1, n)[i] = s[m + i]
  BY <1>3, <1>4, <1>5
<1>7. ASSUME NEW i \in 1 .. (n - m)
      PROVE  Stream(a + m, b)[i] = SubSeq(s, m + 1, n)[i]
  <2>1. /\ i \in 1 .. (b - (a + m)) /\ m + i \in 1 .. (b - a)
        /\ a + m + i = a + (m + i)
    BY <1>2 DEF n
  <2>2. s[m + i] = a + (m + i)
    BY <1>1, <2>1 DEF s
  <2>3. Stream(a + m, b)[i] = a + m + i
    BY <1>1, <2>1
  <2>4. QED
    BY <1>6, <2>1, <2>2, <2>3
<1>8. Len(Stream(a + m, b)) = n - m
  BY <1>2 DEF n
<1>9. Stream(a + m, b) = SubSeq(s, m + 1, n)
  BY <1>2, <1>5, <1>6, <1>7, <1>8, SeqEqual
<1>10. QED
  BY <1>9 DEF s, n
=============================================================================
