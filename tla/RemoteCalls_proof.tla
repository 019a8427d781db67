------------------------- MODULE RemoteCalls_proof --------------------------
(***************************************************************************)
(* Remote calls: that what a future or a call gets is what came of its own *)
(* call, and that requests are executed and answered as specified, proved  *)
(* for every tree of callables, any number of clients, futures, calls and  *)
(* requests, and every order of the members of a request.                  *)
(***************************************************************************)
EXTENDS RemoteCalls, FiniteSetTheorems, SequenceTheorems, WellFoundedInduction, TLAPS

-----------------------------------------------------------------------------
(***************************************************************************)
(* Induction, for a set instead of a predicate.                            *)
(***************************************************************************)
LEMMA Induction ==
    ASSUME NEW S \in SUBSET Nat, 0 \in S, \A n \in S : n + 1 \in S
    PROVE  S = Nat
<1> SUFFICES ASSUME Nat \ S # {} PROVE FALSE
  OBVIOUS
<1> DEFINE R == OpToRel(<, Nat)
<1>1. \A x, y \in Nat : <<y, x>> \in R <=> y < x
  BY DEF OpToRel
<1>2. IsWellFoundedOn(R, Nat)
  BY NatLessThanWellFounded
<1>3. Nat \ S \subseteq Nat
  OBVIOUS
<1> HIDE DEF R
<1>4. PICK x \in Nat \ S : \A y \in Nat \ S : ~ (<<y, x>> \in R)
  BY <1>2, <1>3, WFMin
<1>5. x # 0 /\ x - 1 \in Nat /\ x - 1 < x
  OBVIOUS
<1>6. x - 1 \in S
  BY <1>1, <1>4, <1>5
<1>7. QED
  BY <1>5, <1>6

LEMMA LeastExists ==
    ASSUME NEW S \in SUBSET Nat, S # {}
    PROVE  \E x \in S : \A y \in S : x <= y
<1> DEFINE R == OpToRel(<, Nat)
<1>1. \A x, y \in Nat : <<y, x>> \in R <=> y < x
  BY DEF OpToRel
<1>2. IsWellFoundedOn(R, Nat)
  BY NatLessThanWellFounded
<1> HIDE DEF R
<1>3. PICK x \in S : \A y \in S : ~ (<<y, x>> \in R)
  BY <1>2, WFMin
<1>4. ASSUME NEW y \in S PROVE x <= y
  <2>1. x \in Nat /\ y \in Nat /\ ~ (y < x)
    BY <1>1, <1>3
  <2>2. QED
    BY <2>1
<1>5. QED
  BY <1>4
-----------------------------------------------------------------------------
(***************************************************************************)
(* FindCallable() goes down one name at a time.                            *)
(***************************************************************************)
FoundTo(k, path, f) ==
    f = [n \in 0 .. k |-> IF n = 0 THEN Root ELSE GetChild(f[n - 1], path[n])]

LEMMA FoundExists ==
    ASSUME NEW path
    PROVE  \A k \in Nat : \E f : FoundTo(k, path, f)
<1> DEFINE S == {k \in Nat : \E f : FoundTo(k, path, f)}
<1>1. 0 \in S
  <2>1. FoundTo(0, path, [n \in 0 .. 0 |-> Root])
    BY DEF FoundTo
  <2>2. QED
    BY <2>1
<1>2. ASSUME NEW k \in S PROVE k + 1 \in S
  <2>1. PICK f : FoundTo(k, path, f)
    BY <1>2
  <2> DEFINE g == [n \in 0 .. k + 1 |-> IF n = k + 1 THEN GetChild(f[k], path[k + 1]) ELSE f[n]]
  <2>2. ASSUME NEW n \in 0 .. k + 1
        PROVE  g[n] = IF n = 0 THEN Root ELSE GetChild(g[n - 1], path[n])
    <3>1. CASE n = k + 1
      <4>1. g[k + 1] = GetChild(f[k], path[k + 1]) /\ g[k] = f[k] /\ n # 0 /\ n - 1 = k
        BY <3>1
      <4>2. QED
        BY <3>1, <4>1
    <3>2. CASE n # k + 1
      <4>1. n \in 0 .. k /\ g[n] = f[n] /\ (n # 0 => g[n - 1] = f[n - 1])
        BY <3>2
      <4>2. f[n] = IF n = 0 THEN Root ELSE GetChild(f[n - 1], path[n])
        BY <2>1, <4>1 DEF FoundTo
      <4>3. QED
        BY <4>1, <4>2
    <3>3. QED
      BY <3>1, <3>2
  <2>3. g = [n \in 0 .. k + 1 |-> g[n]]
    OBVIOUS
  <2> HIDE DEF g
  <2>4. FoundTo(k + 1, path, g)
    BY <2>2, <2>3 DEF FoundTo
  <2>5. QED
    BY <2>4
<1>3. S = Nat
  <2> HIDE DEF S
  <2>1. S \in SUBSET Nat
    BY DEF S
  <2>2. QED
    BY <1>1, <1>2, <2>1, Induction
<1>4. QED
  BY <1>3

\* Paths that begin alike lead the same way.
LEMMA FoundAlike ==
    ASSUME NEW k \in Nat, NEW l \in Nat, k <= l, NEW p, NEW q, NEW f, NEW g,
           FoundTo(k, p, f), FoundTo(l, q, g),
           \A n \in 1 .. k : p[n] = q[n]
    PROVE  \A n \in 0 .. k : f[n] = g[n]
<1> DEFINE S == {n \in Nat : n <= k => f[n] = g[n]}
<1>1. 0 \in S
  BY DEF FoundTo
<1>2. ASSUME NEW n \in S PROVE n + 1 \in S
  <2> SUFFICES ASSUME n + 1 <= k PROVE f[n + 1] = g[n + 1]
    OBVIOUS
  <2>1. f[n] = g[n]
    BY <1>2
  <2>2. f[n + 1] = GetChild(f[n], p[n + 1])
    BY DEF FoundTo
  <2>3. g[n + 1] = GetChild(g[n], q[n + 1])
    BY DEF FoundTo
  <2>4. QED
    BY <2>1, <2>2, <2>3
<1>3. S = Nat
  <2> HIDE DEF S
  <2>1. S \in SUBSET Nat
    BY DEF S
  <2>2. QED
    BY <1>1, <1>2, <2>1, Induction
<1>4. QED
  BY <1>3

LEMMA FindIsFound ==
    ASSUME NEW path, Len(path) \in Nat, NEW f, FoundTo(Len(path), path, f)
    PROVE  FindCallable(path) = f[Len(path)]
<1> DEFINE g == CHOOSE g : FoundTo(Len(path), path, g)
<1>1. FoundTo(Len(path), path, g)
  OBVIOUS
<1>2. FindCallable(path) = g[Len(path)]
  BY DEF FindCallable, FoundTo
<1> HIDE DEF g
<1>3. \A n \in 0 .. Len(path) : f[n] = g[n]
  BY <1>1, FoundAlike
<1>4. QED
  BY <1>2, <1>3

LEMMA FindRoot == FindCallable(<<>>) = Root
<1>1. PICK f : FoundTo(0, <<>>, f)
  BY FoundExists
<1>2. Len(<<>>) = 0
  OBVIOUS
<1>3. FindCallable(<<>>) = f[0]
  BY <1>1, <1>2, FindIsFound
<1>4. QED
  BY <1>1, <1>3 DEF FoundTo

LEMMA FindAppend ==
    ASSUME NEW path \in Seq(STRING), NEW name \in STRING
    PROVE  FindCallable(Append(path, name)) = GetChild(FindCallable(path), name)
<1> DEFINE longer == Append(path, name)
           k == Len(path)
<1>0. k \in Nat
  OBVIOUS
<1>1. Len(longer) = k + 1 /\ longer[k + 1] = name
  BY AppendProperties
<1>9. ASSUME NEW n \in 1 .. k PROVE path[n] = longer[n]
  OBVIOUS
<1> HIDE DEF longer, k
<1>2. PICK f : FoundTo(k, path, f)
  BY <1>0, FoundExists
<1>3. PICK g : FoundTo(k + 1, longer, g)
  <2>1. k + 1 \in Nat
    BY <1>0
  <2>2. QED
    BY <2>1, FoundExists
<1>4. FindCallable(path) = f[k]
  BY <1>0, <1>2, FindIsFound DEF k
<1>5. FindCallable(longer) = g[k + 1]
  BY <1>0, <1>1, <1>3, FindIsFound
<1>6. f[k] = g[k]
  <2>1. k + 1 \in Nat /\ k <= k + 1 /\ k \in 0 .. k
    BY <1>0
  <2>2. \A n \in 1 .. k : path[n] = longer[n]
    BY <1>9
  <2>4. \A n \in 0 .. k : f[n] = g[n]
    BY <1>0, <1>2, <1>3, <2>1, <2>2, FoundAlike
  <2>3. QED
    BY <2>1, <2>4
<1>7. g[k + 1] = GetChild(g[k], longer[k + 1])
  <2>1. k + 1 \in 0 .. k + 1 /\ k + 1 # 0 /\ (k + 1) - 1 = k
    BY <1>0
  <2>2. QED
    BY <1>3, <2>1 DEF FoundTo
<1>8. QED
  BY <1>1, <1>4, <1>5, <1>6, <1>7 DEF longer
-----------------------------------------------------------------------------
(***************************************************************************)
(* The tree at the client.  What is rooted hangs on the root by attached   *)
(* callables only: the client knows its way, and the server finds it by    *)
(* its path.                                                               *)
(***************************************************************************)
Rooted(c) ==
    \E S \in SUBSET Callables :
        c \in S /\ \A d \in S \ {Root} : d \in attached /\ Parent[d] \in S

IsDepth(depth) ==
    /\ depth \in [Callables -> Nat]
    /\ \A c \in Callables \ {Root} : depth[Parent[c]] < depth[c]

AllAbove(depth, k) == \A c \in Callables : depth[c] < k

LEMMA DepthExists == \E depth, k : k \in Nat /\ IsDepth(depth) /\ AllAbove(depth, k)
<1>1. PICK depth \in [Callables -> 0 .. Cardinality(Callables)] :
        \A c \in Callables \ {Root} : depth[Parent[c]] < depth[c]
  BY CallableTreeAssumption
<1>2. Cardinality(Callables) \in Nat
  BY CallableTreeAssumption, FS_CardinalityType
<1>3. IsDepth(depth)
  BY <1>1, <1>2 DEF IsDepth
<1>4. AllAbove(depth, Cardinality(Callables) + 1)
  BY <1>1, <1>2 DEF AllAbove
<1>5. Cardinality(Callables) + 1 \in Nat
  BY <1>2
<1>6. QED
  BY <1>3, <1>4, <1>5

Above(depth, n) == {c \in Callables : depth[c] < n}

WayTo(depth, n, f) ==
    f = [c \in Above(depth, n) |-> IF c \in attached THEN <<c>> \o f[Parent[c]] ELSE <<c>>]

LEMMA WayExists ==
    ASSUME NEW depth, IsDepth(depth), attached \subseteq Callables \ {Root}
    PROVE  \A k \in Nat : \E f : WayTo(depth, k, f)
<1> DEFINE S == {k \in Nat : \E f : WayTo(depth, k, f)}
<1>1. 0 \in S
  <2>1. Above(depth, 0) = {}
    BY DEF Above, IsDepth
  <2>2. WayTo(depth, 0, [c \in {} |-> 0])
    BY <2>1 DEF WayTo
  <2>3. QED
    BY <2>2
<1>2. ASSUME NEW k \in S PROVE k + 1 \in S
  <2>1. PICK f : WayTo(depth, k, f)
    BY <1>2
  <2> DEFINE g == [c \in Above(depth, k + 1) |->
                      IF c \in attached THEN <<c>> \o f[Parent[c]] ELSE <<c>>]
  <2>2. ASSUME NEW c \in Above(depth, k + 1), c \in attached
        PROVE  g[Parent[c]] = f[Parent[c]]
    <3>1. c \in Callables \ {Root} /\ Parent[c] \in Callables
      BY <2>2, CallableTreeAssumption
    <3>2. depth[Parent[c]] < depth[c] /\ depth[c] < k + 1
      BY <2>2, <3>1 DEF IsDepth, Above
    <3>3. depth[Parent[c]] \in Nat /\ depth[c] \in Nat /\ k \in Nat
      BY <3>1 DEF IsDepth
    <3>4. Parent[c] \in Above(depth, k) /\ Parent[c] \in Above(depth, k + 1)
      BY <3>1, <3>2, <3>3 DEF Above
    <3>5. f[Parent[c]] = IF Parent[c] \in attached
                         THEN <<Parent[c]>> \o f[Parent[Parent[c]]] ELSE <<Parent[c]>>
      BY <2>1, <3>4 DEF WayTo
    <3>6. QED
      BY <3>4, <3>5
  <2>3. ASSUME NEW c \in Above(depth, k + 1)
        PROVE  g[c] = IF c \in attached THEN <<c>> \o g[Parent[c]] ELSE <<c>>
    BY <2>2, <2>3
  <2>4. g = [c \in Above(depth, k + 1) |-> g[c]]
    OBVIOUS
  <2> HIDE DEF g
  <2>5. WayTo(depth, k + 1, g)
    BY <2>3, <2>4 DEF WayTo
  <2>6. QED
    BY <2>5
<1>3. S = Nat
  <2> HIDE DEF S
  <2>1. S \in SUBSET Nat
    BY DEF S
  <2>2. QED
    BY <1>1, <1>2, <2>1, Induction
<1>4. QED
  BY <1>3

\* WayUp[] is what its definition says.
LEMMA WayUpStep ==
    ASSUME attached \subseteq Callables \ {Root}
    PROVE  \A c \in Callables :
              WayUp[c] = IF c \in attached THEN <<c>> \o WayUp[Parent[c]] ELSE <<c>>
<1>1. PICK depth, k : k \in Nat /\ IsDepth(depth) /\ AllAbove(depth, k)
  BY DepthExists
<1>2. Above(depth, k) = Callables
  BY <1>1 DEF Above, AllAbove
<1>3. PICK f : WayTo(depth, k, f)
  BY <1>1, WayExists
<1>4. f = [c \in Callables |-> IF c \in attached THEN <<c>> \o f[Parent[c]] ELSE <<c>>]
  BY <1>2, <1>3 DEF WayTo
<1>5. WayUp = [c \in Callables |->
                  IF c \in attached THEN <<c>> \o WayUp[Parent[c]] ELSE <<c>>]
  BY <1>4 DEF WayUp
<1>6. QED
  BY <1>5

LEMMA RootedStep ==
    /\ Rooted(Root)
    /\ \A c \in Callables \ {Root} :
        Rooted(c) <=> c \in attached /\ Rooted(Parent[c])
<1>1. Rooted(Root)
  <2>1. Root \in Callables
    BY CallableTreeAssumption
  <2>2. QED
    BY <2>1 DEF Rooted
<1>2. ASSUME NEW c \in Callables \ {Root}, Rooted(c)
      PROVE  c \in attached /\ Rooted(Parent[c])
  BY <1>2 DEF Rooted
<1>3. ASSUME NEW c \in Callables \ {Root}, c \in attached, Rooted(Parent[c])
      PROVE  Rooted(c)
  <2>1. PICK S \in SUBSET Callables :
          Parent[c] \in S /\ \A d \in S \ {Root} : d \in attached /\ Parent[d] \in S
    BY <1>3 DEF Rooted
  <2>2. S \union {c} \in SUBSET Callables
    OBVIOUS
  <2>3. \A d \in (S \union {c}) \ {Root} : d \in attached /\ Parent[d] \in S \union {c}
    BY <1>3, <2>1
  <2>4. QED
    BY <2>2, <2>3 DEF Rooted
<1>4. QED
  BY <1>1, <1>2, <1>3
-----------------------------------------------------------------------------
WaySound(c) ==
    LET way == WayUp[c]
    IN  /\ way \in Seq(Callables) /\ Len(way) # 0 /\ way[1] = c
        /\ (\E i \in DOMAIN way : Rooted(way[i])) => \A i \in DOMAIN way : Rooted(way[i])

PathSound(c) == ConstructPath(c) \in Seq(STRING) /\ FindCallable(ConstructPath(c)) = c

LEMMA TopSound ==
    ASSUME attached \subseteq Callables \ {Root}, NEW c \in Callables, c \notin attached
    PROVE  WaySound(c) /\ (Rooted(c) => PathSound(c))
<1>1. WayUp[c] = <<c>>
  BY WayUpStep
<1>2. WaySound(c)
  BY <1>1 DEF WaySound
<1>3. ASSUME Rooted(c) PROVE PathSound(c)
  <2>1. c = Root
    BY <1>3, RootedStep
  <2>2. ConstructPath(c) = <<>>
    BY <1>1 DEF ConstructPath
  <2>3. QED
    BY <2>1, <2>2, FindRoot DEF PathSound
<1>4. QED
  BY <1>2, <1>3

LEMMA BelowSound ==
    ASSUME attached \subseteq Callables \ {Root}, NEW c \in attached,
           WaySound(Parent[c]), Rooted(Parent[c]) => PathSound(Parent[c])
    PROVE  WaySound(c) /\ (Rooted(c) => PathSound(c))
<1> DEFINE p == Parent[c]
           up == WayUp[p]
           way == WayUp[c]
<1>1. c \in Callables \ {Root} /\ p \in Callables \ Lambdas
  BY CallableTreeAssumption
<1>2. up \in Seq(Callables) /\ Len(up) # 0 /\ up[1] = p
  BY DEF WaySound
<1>3. way = <<c>> \o up
  BY <1>1, WayUpStep
<1>4. way \in Seq(Callables) /\ Len(way) = Len(up) + 1 /\ way[1] = c
  BY <1>1, <1>2, <1>3
<1>5. ASSUME NEW i \in 1 .. Len(up) PROVE way[i + 1] = up[i]
  BY <1>2, <1>3
<1>6. WaySound(c)
  <2>1. ASSUME NEW i \in DOMAIN way, Rooted(way[i]), NEW j \in DOMAIN way
        PROVE  Rooted(way[j])
    <3>1. Rooted(c) <=> Rooted(p)
      BY <1>1, RootedStep
    <3>2. 1 \in DOMAIN up /\ DOMAIN up = 1 .. Len(up) /\ Len(up) \in Nat
      BY <1>2
    <3>3. ASSUME NEW k \in DOMAIN way, k # 1
          PROVE  k - 1 \in DOMAIN up /\ way[k] = up[k - 1]
      <4>1. k \in 1 .. Len(up) + 1
        BY <1>4
      <4>2. k - 1 \in 1 .. Len(up) /\ (k - 1) + 1 = k
        BY <3>2, <3>3, <4>1
      <4>3. QED
        BY <1>5, <3>2, <4>2
    <3>4. Rooted(p)
      BY <1>2, <1>4, <2>1, <3>1, <3>2, <3>3 DEF WaySound
    <3>5. \A k \in DOMAIN up : Rooted(up[k])
      BY <1>2, <3>2, <3>4 DEF WaySound
    <3>6. QED
      BY <1>4, <3>1, <3>3, <3>4, <3>5
  <2>2. QED
    BY <1>4, <2>1 DEF WaySound
<1>7. ASSUME Rooted(c) PROVE PathSound(c)
  <2> DEFINE path == ConstructPath(p)
  <2>1. path \in Seq(STRING) /\ FindCallable(path) = p
    BY <1>1, <1>7, RootedStep DEF PathSound
  <2>2. NameOf[c] \in STRING
    BY <1>1, CallableTreeAssumption
  <2>3. ConstructPath(c) = Append(path, NameOf[c])
    <3>1. path = [i \in 1 .. Len(up) - 1 |-> NameOf[up[Len(up) - i]]]
      BY DEF ConstructPath
    <3>2. ConstructPath(c) = [i \in 1 .. Len(up) |-> NameOf[way[Len(up) + 1 - i]]]
      BY <1>2, <1>4 DEF ConstructPath
    <3>3. Len(up) \in Nat \ {0}
      BY <1>2
    <3>4. Len(path) = Len(up) - 1
      <4> HIDE DEF path, up
      <4>1. QED
        BY <3>1, <3>3, <2>1
    <3>5. ASSUME NEW i \in 1 .. Len(up)
          PROVE  NameOf[way[Len(up) + 1 - i]] = Append(path, NameOf[c])[i]
      <4>1. CASE i = Len(up)
        <5>1. Append(path, NameOf[c])[Len(up)] = NameOf[c]
          BY <2>1, <2>2, <3>3, <3>4, AppendProperties
        <5>2. Len(up) + 1 - i = 1
          BY <3>3, <4>1
        <5>3. QED
          BY <1>4, <4>1, <5>1, <5>2
      <4>2. CASE i # Len(up)
        <5>1. i \in 1 .. Len(path) /\ Len(up) - i \in 1 .. Len(up)
              /\ Len(up) + 1 - i = (Len(up) - i) + 1
          BY <3>3, <3>4, <4>2
        <5>2. way[Len(up) + 1 - i] = up[Len(up) - i]
          BY <1>5, <5>1
        <5>3. path[i] = NameOf[up[Len(up) - i]]
          BY <3>1, <3>4, <5>1
        <5>4. Append(path, NameOf[c])[i] = path[i]
          BY <2>1, <2>2, <5>1, AppendProperties
        <5>5. QED
          BY <5>2, <5>3, <5>4
      <4>3. QED
        BY <4>1, <4>2
    <3>6. Append(path, NameOf[c]) = [i \in 1 .. Len(up) |-> Append(path, NameOf[c])[i]]
      <4>1. Append(path, NameOf[c]) \in Seq(STRING)
            /\ Len(Append(path, NameOf[c])) = Len(path) + 1
        BY <2>1, <2>2, AppendProperties
      <4>2. Len(path) + 1 = Len(up)
        BY <3>3, <3>4
      <4> HIDE DEF path, up
      <4>3. QED
        BY <4>1, <4>2
    <3>7. QED
      BY <3>2, <3>5, <3>6
  <2>4. GetChild(p, NameOf[c]) = c
    <3>1. {d \in Contents(p) : NameOf[d] = NameOf[c]} = {c}
      BY <1>1, CallableTreeAssumption DEF Contents
    <3>2. p # NoCallable
      BY <1>1, CallableTreeAssumption
    <3>3. QED
      BY <3>1, <3>2 DEF GetChild
  <2>5. FindCallable(ConstructPath(c)) = c
    BY <2>1, <2>2, <2>3, <2>4, FindAppend
  <2>6. ConstructPath(c) \in Seq(STRING)
    BY <2>1, <2>2, <2>3, AppendProperties
  <2>7. QED
    BY <2>5, <2>6 DEF PathSound
<1>8. QED
  BY <1>6, <1>7

LEMMA TreeSound ==
    ASSUME attached \subseteq Callables \ {Root}
    PROVE  \A c \in Callables : WaySound(c) /\ (Rooted(c) => PathSound(c))
<1>1. PICK depth, k : k \in Nat /\ IsDepth(depth) /\ AllAbove(depth, k)
  BY DepthExists
<1> DEFINE S == {n \in Nat : \A c \in Above(depth, n) :
                                WaySound(c) /\ (Rooted(c) => PathSound(c))}
<1>2. 0 \in S
  <2>1. Above(depth, 0) = {}
    BY <1>1 DEF Above, IsDepth
  <2>2. QED
    BY <2>1
<1>3. ASSUME NEW n \in S PROVE n + 1 \in S
  <2>1. ASSUME NEW c \in Above(depth, n + 1)
        PROVE  WaySound(c) /\ (Rooted(c) => PathSound(c))
    <3>1. c \in Callables
      BY DEF Above
    <3>2. CASE c \in attached
      <4>1. c \in Callables \ {Root} /\ Parent[c] \in Callables
        BY <3>2, CallableTreeAssumption
      <4>2. depth[Parent[c]] < depth[c] /\ depth[c] < n + 1
        BY <1>1, <4>1 DEF IsDepth, Above
      <4>3. depth[Parent[c]] \in Nat /\ depth[c] \in Nat /\ n \in Nat
        BY <1>1, <4>1 DEF IsDepth
      <4>4. Parent[c] \in Above(depth, n)
        BY <4>1, <4>2, <4>3 DEF Above
      <4>5. WaySound(Parent[c]) /\ (Rooted(Parent[c]) => PathSound(Parent[c]))
        BY <1>3, <4>4
      <4>6. QED
        BY <3>2, <4>5, BelowSound
    <3>3. CASE c \notin attached
      BY <3>1, <3>3, TopSound
    <3>4. QED
      BY <3>2, <3>3
  <2>2. QED
    BY <2>1
<1>4. S = Nat
  <2> HIDE DEF S
  <2>1. S \in SUBSET Nat
    BY DEF S
  <2>2. QED
    BY <1>2, <1>3, <2>1, Induction
<1>5. Above(depth, k) = Callables
  BY <1>1 DEF Above, AllAbove
<1>6. QED
  BY <1>1, <1>4, <1>5

\* Where a responder is found, the callable and all that then keeps it are rooted.
LEMMA BoundSound ==
    ASSUME attached \subseteq Callables \ {Root},
           responder \in [Callables -> Clients \union {NoClient}],
           \A c \in Callables : responder[c] # NoClient => Rooted(c),
           NEW m \in Callables, HasResponder(m)
    PROVE  /\ GetResponder(m) \in Clients
           /\ Rooted(m) /\ PathSound(m)
           /\ Remembered(m) \in [Callables -> Clients \union {NoClient}]
           /\ \A c \in Callables : Remembered(m)[c] # NoClient => Rooted(c)
<1> DEFINE way == WayUp[m]
           first == Min(Bound(m))
<1>1. way \in Seq(Callables) /\ Len(way) # 0 /\ way[1] = m /\ WaySound(m)
  BY TreeSound DEF WaySound
<1>2. Bound(m) \subseteq Nat /\ Bound(m) # {} /\ Bound(m) \subseteq DOMAIN way
  BY <1>1 DEF Bound, HasResponder
<1>3. first \in Bound(m)
  <2>1. \E x \in Bound(m) : \A y \in Bound(m) : x <= y
    BY <1>2, LeastExists
  <2>2. QED
    BY <2>1 DEF Min
<1>4. first \in DOMAIN way /\ responder[way[first]] # NoClient
  BY <1>3 DEF Bound
<1>5. \A i \in DOMAIN way : way[i] \in Callables
  BY <1>1
<1>6. \A i \in DOMAIN way : Rooted(way[i])
  BY <1>1, <1>4, <1>5 DEF WaySound
<1>7. GetResponder(m) \in Clients
  BY <1>4, <1>5 DEF GetResponder
<1>8. Rooted(m)
  <2>1. 1 \in DOMAIN way
    BY <1>1
  <2>2. QED
    BY <1>1, <1>6, <2>1
<1>9. PathSound(m)
  BY <1>8, TreeSound
<1>10. \A i \in 1 .. first : i \in DOMAIN way
  BY <1>1, <1>4
<1>11. Remembered(m) \in [Callables -> Clients \union {NoClient}]
  BY <1>7 DEF Remembered
<1>12. ASSUME NEW c \in Callables, Remembered(m)[c] # NoClient PROVE Rooted(c)
  BY <1>6, <1>10, <1>12 DEF Remembered
<1>13. QED
  BY <1>7, <1>8, <1>9, <1>11, <1>12
-----------------------------------------------------------------------------
(***************************************************************************)
(* Sequences of anything.                                                  *)
(***************************************************************************)
LEMMA SequenceIs ==
    ASSUME NEW s, IsSequence(s)
    PROVE  Len(s) \in Nat /\ DOMAIN s = 1 .. Len(s)
BY DEF IsSequence

LEMMA EmptyIs == IsSequence(<<>>) /\ Len(<<>>) = 0
BY DEF IsSequence

LEMMA OneIs == \A e : IsSequence(<<e>>) /\ Len(<<e>>) = 1 /\ <<e>>[1] = e
BY DEF IsSequence

LEMMA SeqIs ==
    ASSUME NEW T, NEW s \in Seq(T)
    PROVE  IsSequence(s)
<1>1. Len(s) \in Nat /\ s \in [1 .. Len(s) -> T]
  BY LenProperties
<1>2. QED
  BY <1>1 DEF IsSequence

LEMMA AppendIs ==
    ASSUME NEW s, IsSequence(s), NEW e
    PROVE  /\ IsSequence(Append(s, e))
           /\ Len(Append(s, e)) = Len(s) + 1
           /\ \A i \in 1 .. Len(s) : Append(s, e)[i] = s[i]
           /\ Append(s, e)[Len(s) + 1] = e
<1> DEFINE T == {s[i] : i \in 1 .. Len(s)} \union {e}
<1>1. Len(s) \in Nat /\ s = [i \in 1 .. Len(s) |-> s[i]]
  BY DEF IsSequence
<1>2. s \in Seq(T)
  <2>1. s \in [1 .. Len(s) -> T]
    BY <1>1
  <2>2. QED
    BY <1>1, <2>1, SeqDef
<1>3. e \in T
  OBVIOUS
<1> HIDE DEF T
<1>4. Append(s, e) \in Seq(T)
  BY <1>2, <1>3, AppendProperties
<1>5. IsSequence(Append(s, e))
  BY <1>4, SeqIs
<1>6. QED
  BY <1>2, <1>3, <1>5, AppendProperties

LEMMA AppendToEmpty == \A e : Append(<<>>, e) = <<e>>
<1>1. ASSUME NEW e PROVE Append(<<>>, e) = <<e>>
  <2>1. Append(<<>>, e) = [i \in 1 .. 1 |-> Append(<<>>, e)[i]] /\ Append(<<>>, e)[1] = e
    BY EmptyIs, AppendIs DEF IsSequence
  <2>2. QED
    BY <2>1
<1>2. QED
  BY <1>1

LEMMA AppendToOne == \A d, e : Append(<<d>>, e) = <<d, e>>
<1>1. ASSUME NEW d, NEW e PROVE Append(<<d>>, e) = <<d, e>>
  <2> DEFINE q == Append(<<d>>, e)
  <2>1. IsSequence(q) /\ Len(q) = 2 /\ q[1] = d /\ q[2] = e
    BY OneIs, AppendIs
  <2> HIDE DEF q
  <2>2. q = [i \in 1 .. 2 |-> q[i]]
    BY <2>1 DEF IsSequence
  <2>3. q = <<d, e>>
    BY <2>1, <2>2
  <2>4. QED
    BY <2>3 DEF q
<1>2. QED
  BY <1>1
-----------------------------------------------------------------------------
(***************************************************************************)
(* One request.  Its members are read up to s.at.                          *)
(***************************************************************************)
StateShape(s) ==
    /\ DOMAIN s = {"at", "method", "params", "called", "responding", "failed", "over",
                   "answer", "calls"}
    /\ s.at \in Nat /\ s.params \in Nat
    /\ s.called \in BOOLEAN /\ s.responding \in BOOLEAN
    /\ s.failed \in BOOLEAN /\ s.over \in BOOLEAN

\* A member with the name is among those before the n-th.
Seen(r, n, name) == \E i \in DOMAIN r : i < n /\ r[i].name = name

AtMostOne(q) == q = <<>> \/ \E x : q = <<x>>

\* The params that were read are the member whose value is the argument.
ParamsRead(r, s, n) ==
    s.params # 0 => s.params \in DOMAIN r /\ s.params < n /\ r[s.params].name = "params"

\* Of any request whose members have different names: what is called was known.
CalledOnce(r, s) ==
    /\ AtMostOne(s.calls)
    /\ ~s.called => s.calls = <<>>
    /\ ~s.over /\ s.called => s.method # NoCallable /\ s.params # 0
    /\ ~s.over => ParamsRead(r, s, s.at)

\* What is known of a proper request when the members before the n-th were read.
Noted(r, s, n) ==
    /\ s.responding <=> Seen(r, n, "id")
    /\ s.method = IF Seen(r, n, "method") THEN AskedCall(r).method ELSE NoCallable
    /\ s.params # 0 <=> Seen(r, n, "params")
    /\ ParamsRead(r, s, n)

\* A proper request that was not called ...
NotCalled(r, s) ==
    /\ ~s.called /\ s.calls = <<>>
    /\ s.answer = IF s.responding THEN <<Member("id", Value(r, "id"))>> ELSE <<>>

\* ... and one that was.
WasCalled(r, s) ==
    /\ s.called
    /\ s.responding => s.answer = Expected(r)
    /\ Fits(r) => s.calls = <<AskedCall(r)>>

Proceeding(r, s) ==
    IF s.over THEN s.responding /\ Seen(r, Len(r) + 1, "id") /\ WasCalled(r, s)
    ELSE Noted(r, s, s.at) /\ IF Known(s) THEN WasCalled(r, s) ELSE NotCalled(r, s)

Going(r, s) ==
    /\ StateShape(s)
    /\ s.at \in 1 .. Len(r) + 1
    /\ s.over <=> s.failed
    /\ NamesDiffer(r) => CalledOnce(r, s)
    /\ Proper(r) => Proceeding(r, s)

\* What answering it comes to.
Concluded(r, s) ==
    /\ s.responding \in BOOLEAN
    /\ NamesDiffer(r) => AtMostOne(s.calls)
    /\ Proper(r) => /\ s.responding <=> Has(r, "id")
                    /\ s.responding => s.answer = Expected(r)
                    /\ Fits(r) => s.calls = <<AskedCall(r)>>
-----------------------------------------------------------------------------
LEMMA SeenNext ==
    ASSUME NEW r, IsSequence(r), NEW n \in DOMAIN r
    PROVE  \A name : Seen(r, n + 1, name) <=> Seen(r, n, name) \/ r[n].name = name
<1>1. n \in Nat /\ \A i \in DOMAIN r : i \in Nat
  BY SequenceIs
<1>2. \A i \in DOMAIN r : i < n + 1 <=> i < n \/ i = n
  BY <1>1
<1>3. QED
  BY <1>2 DEF Seen

LEMMA SeenOnce ==
    ASSUME NEW r, IsSequence(r), NamesDiffer(r), NEW n \in DOMAIN r
    PROVE  ~Seen(r, n, r[n].name)
<1>1. n \in Nat /\ \A i \in DOMAIN r : i \in Nat
  BY SequenceIs
<1>2. \A i \in DOMAIN r : i < n => i # n
  BY <1>1
<1>3. QED
  BY <1>2 DEF Seen, NamesDiffer

LEMMA SeenAll ==
    ASSUME NEW r, IsSequence(r)
    PROVE  \A name : Seen(r, Len(r) + 1, name) <=> Has(r, name)
<1>1. \A i \in DOMAIN r : i < Len(r) + 1
  BY SequenceIs
<1>2. QED
  BY <1>1 DEF Seen, Has, Names

LEMMA ValueIs ==
    ASSUME NEW r, NamesDiffer(r), NEW i \in DOMAIN r
    PROVE  Value(r, r[i].name) = r[i].value /\ Has(r, r[i].name)
<1>1. (CHOOSE j \in DOMAIN r : r[j].name = r[i].name) = i
  BY DEF NamesDiffer
<1>2. QED
  BY <1>1 DEF Value, Has, Names

LEMMA ArgumentIs ==
    ASSUME NEW r, r = Request, Proper(r), NEW s,
           IF s.params = 0 THEN ~Has(r, "params")
           ELSE s.params \in DOMAIN r /\ r[s.params].name = "params"
    PROVE  Argument(s) = AskedCall(r).argument
<1>1. CASE s.params = 0
  BY <1>1 DEF Argument, AskedCall
<1>2. CASE s.params # 0
  BY <1>2, ValueIs DEF Argument, AskedCall, Proper
<1>3. QED
  BY <1>1, <1>2
-----------------------------------------------------------------------------
(***************************************************************************)
(* The call, and what is read on after it.                                 *)
(***************************************************************************)
LEMMA WroteIs ==
    ASSUME NEW s, StateShape(s), NEW member
    PROVE  /\ StateShape(Wrote(s, member))
           /\ Wrote(s, member).at = s.at /\ Wrote(s, member).params = s.params
           /\ Wrote(s, member).method = s.method /\ Wrote(s, member).calls = s.calls
           /\ Wrote(s, member).responding = s.responding
           /\ Wrote(s, member).called = s.called
           /\ Wrote(s, member).failed = s.failed /\ Wrote(s, member).over = s.over
           /\ Wrote(s, member).answer =
                IF s.responding THEN Append(s.answer, member) ELSE s.answer
BY DEF StateShape, Wrote

LEMMA FailedIs ==
    ASSUME NEW s, StateShape(s)
    PROVE  /\ StateShape(Failed(s))
           /\ Failed(s).at = s.at /\ Failed(s).params = s.params
           /\ Failed(s).method = s.method /\ Failed(s).calls = s.calls
           /\ Failed(s).responding = s.responding /\ Failed(s).called = s.called
           /\ Failed(s).failed /\ Failed(s).over = s.over
           /\ Failed(s).answer =
                IF s.responding THEN Append(s.answer, Member("error", Error)) ELSE s.answer
<1> DEFINE w == Wrote(s, Member("error", Error))
<1>1. Failed(s) = [w EXCEPT !.failed = TRUE]
  BY DEF Failed
<1>2. /\ StateShape(w) /\ w.at = s.at /\ w.params = s.params
      /\ w.method = s.method /\ w.calls = s.calls
      /\ w.responding = s.responding /\ w.called = s.called
      /\ w.over = s.over
      /\ w.answer = IF s.responding THEN Append(s.answer, Member("error", Error)) ELSE s.answer
  BY WroteIs
<1> HIDE DEF w
<1>3. QED
  BY <1>1, <1>2 DEF StateShape

LEMMA EndedIs ==
    ASSUME NEW s, StateShape(s)
    PROVE  /\ StateShape(Ended(s))
           /\ Ended(s).at = s.at /\ Ended(s).params = s.params
           /\ Ended(s).method = s.method /\ Ended(s).calls = s.calls
           /\ Ended(s).responding = s.responding /\ Ended(s).called = s.called
           /\ Ended(s).failed = s.failed /\ Ended(s).over /\ Ended(s).answer = s.answer
BY DEF StateShape, Ended

LEMMA CallKeeps ==
    ASSUME NEW s, StateShape(s), ~s.over
    PROVE  /\ StateShape(Called(s))
           /\ Called(s).at = s.at /\ Called(s).params = s.params
           /\ Called(s).method = s.method /\ Called(s).responding = s.responding
           /\ s.calls = <<>> => AtMostOne(Called(s).calls)
           /\ s.method # NoCallable => Called(s).called
           /\ ~s.failed => (Called(s).over <=> Called(s).failed)
<1>1. Append(<<>>, CallOf(s)) = <<CallOf(s)>>
  BY AppendToEmpty
<1>2. CASE s.method = NoCallable
  BY <1>2 DEF Called, AtMostOne
<1>3. CASE s.method # NoCallable /\ s.method \notin Lambdas
  BY <1>3 DEF Called, AtMostOne, StateShape
<1>4. CASE s.method # NoCallable /\ s.method \in Lambdas
  <2> DEFINE c == [s EXCEPT !.called = TRUE]
             made == [c EXCEPT !.calls = Append(@, CallOf(c))]
  <2>1. Called(s) = Invoked(c)
    BY <1>4 DEF Called
  <2>2. /\ StateShape(c) /\ c.called /\ c.calls = s.calls
        /\ c.at = s.at /\ c.params = s.params /\ c.method = s.method
        /\ c.responding = s.responding /\ c.failed = s.failed /\ c.over = s.over
    BY DEF StateShape
  <2>3. Append(<<>>, CallOf(c)) = <<CallOf(c)>>
    BY AppendToEmpty
  <2>4. /\ StateShape(made) /\ made.called /\ (s.calls = <<>> => AtMostOne(made.calls))
        /\ made.at = s.at /\ made.params = s.params /\ made.method = s.method
        /\ made.responding = s.responding /\ made.failed = s.failed /\ made.over = s.over
    BY <2>2, <2>3 DEF StateShape, AtMostOne
  <2>5. Invoked(c) = IF Argument(c) = Unfit THEN Ended(Failed(c))
                     ELSE IF c.method \in Failing THEN Ended(Failed(made))
                     ELSE Wrote(made, Member("result", CallOf(c)))
    BY DEF Invoked
  <2> HIDE DEF c, made
  <2>6. CASE Argument(c) = Unfit
    <3>1. Called(s) = Ended(Failed(c))
      BY <2>1, <2>5, <2>6
    <3>2. QED
      BY <2>2, <3>1, FailedIs, EndedIs DEF AtMostOne
  <2>7. CASE Argument(c) # Unfit /\ c.method \in Failing
    <3>1. Called(s) = Ended(Failed(made))
      BY <2>1, <2>5, <2>7
    <3>2. QED
      BY <2>4, <3>1, FailedIs, EndedIs
  <2>8. CASE Argument(c) # Unfit /\ c.method \notin Failing
    <3>1. Called(s) = Wrote(made, Member("result", CallOf(c)))
      BY <2>1, <2>5, <2>8
    <3>2. QED
      BY <2>4, <3>1, WroteIs
  <2>9. QED
    BY <2>6, <2>7, <2>8
<1>5. QED
  BY <1>2, <1>3, <1>4

LEMMA CallAnswers ==
    ASSUME NEW r, NEW s, StateShape(s), NotCalled(r, s), ~s.over, ~s.failed,
           s.method \in Lambdas, s.method # NoCallable,
           CallOf(s) = AskedCall(r)
    PROVE  WasCalled(r, Called(s))
<1> DEFINE c == [s EXCEPT !.called = TRUE]
           made == [c EXCEPT !.calls = Append(@, CallOf(c))]
           error == Member("error", Error)
           result == Member("result", CallOf(c))
           id == Member("id", Value(r, "id"))
<1>1. Called(s) = Invoked(c)
  BY DEF Called
<1>2. /\ StateShape(c) /\ c.called /\ c.calls = <<>> /\ c.answer = s.answer
      /\ c.method = s.method /\ c.params = s.params /\ c.responding = s.responding
  BY DEF StateShape, NotCalled
<1>3. CallOf(c) = AskedCall(r) /\ Argument(c) = Argument(s)
  BY <1>2 DEF CallOf, Argument
<1>4. Append(<<>>, CallOf(c)) = <<CallOf(c)>>
  BY AppendToEmpty
<1>5. /\ StateShape(made) /\ made.called /\ made.calls = <<AskedCall(r)>>
      /\ made.answer = s.answer /\ made.responding = s.responding
  BY <1>2, <1>3, <1>4 DEF StateShape
<1>6. Invoked(c) = IF Argument(c) = Unfit THEN Ended(Failed(c))
                   ELSE IF c.method \in Failing THEN Ended(Failed(made))
                   ELSE Wrote(made, result)
  BY DEF Invoked
<1>7. c.method = AskedCall(r).method /\ Argument(c) = AskedCall(r).argument
  BY <1>3 DEF CallOf
<1>8. s.responding => s.answer = <<id>>
  BY DEF NotCalled
<1>9. Expected(r) = IF Argument(c) # Unfit /\ c.method \notin Failing
                    THEN <<id, result>> ELSE <<id, error>>
  BY <1>3, <1>7 DEF Expected, Fits
<1>10. Append(<<id>>, result) = <<id, result>> /\ Append(<<id>>, error) = <<id, error>>
  BY AppendToOne
<1>11. Fits(r) <=> Argument(c) # Unfit
  BY <1>7 DEF Fits
<1> HIDE DEF c, made, id, result
<1>12. CASE Argument(c) = Unfit
  <2> DEFINE t == Ended(Failed(c))
  <2>1. Called(s) = t
    BY <1>1, <1>6, <1>12
  <2>2. t.called /\ t.responding = s.responding
    BY <1>2, FailedIs, EndedIs
  <2>3. t.answer = IF s.responding THEN Append(s.answer, error) ELSE s.answer
    BY <1>2, FailedIs, EndedIs
  <2> HIDE DEF t, error
  <2>4. QED
    BY <1>8, <1>9, <1>10, <1>11, <1>12, <2>1, <2>2, <2>3 DEF WasCalled
<1>13. CASE Argument(c) # Unfit /\ c.method \in Failing
  <2> DEFINE t == Ended(Failed(made))
  <2>1. Called(s) = t
    BY <1>1, <1>6, <1>13
  <2>2. t.called /\ t.responding = s.responding /\ t.calls = <<AskedCall(r)>>
    BY <1>5, FailedIs, EndedIs
  <2>3. t.answer = IF s.responding THEN Append(s.answer, error) ELSE s.answer
    BY <1>5, FailedIs, EndedIs
  <2> HIDE DEF t, error
  <2>4. QED
    BY <1>8, <1>9, <1>10, <1>13, <2>1, <2>2, <2>3 DEF WasCalled
<1>14. CASE Argument(c) # Unfit /\ c.method \notin Failing
  <2> DEFINE t == Wrote(made, result)
  <2>1. Called(s) = t
    BY <1>1, <1>6, <1>14
  <2>2. t.called /\ t.responding = s.responding /\ t.calls = <<AskedCall(r)>>
    BY <1>5, WroteIs
  <2>3. t.answer = IF s.responding THEN Append(s.answer, result) ELSE s.answer
    BY <1>5, WroteIs
  <2> HIDE DEF t
  <2>4. QED
    BY <1>8, <1>9, <1>10, <1>14, <2>1, <2>2, <2>3 DEF WasCalled
<1>15. QED
  BY <1>12, <1>13, <1>14

LEMMA ReadOnIs ==
    ASSUME NEW s, StateShape(s), ~s.failed => ~s.over
    PROVE  /\ StateShape(ReadOn(s))
           /\ ReadOn(s).at = IF s.failed THEN s.at ELSE s.at + 1
           /\ ReadOn(s).params = s.params
           /\ ReadOn(s).method = s.method /\ ReadOn(s).calls = s.calls
           /\ ReadOn(s).responding = s.responding /\ ReadOn(s).called = s.called
           /\ ReadOn(s).failed = s.failed /\ (ReadOn(s).over <=> s.failed)
           /\ ReadOn(s).answer = s.answer
<1>1. CASE s.failed
  <2>1. ReadOn(s) = Ended(s)
    BY <1>1 DEF ReadOn
  <2>2. QED
    BY <1>1, <2>1, EndedIs
<1>2. CASE ~s.failed
  <2>1. ReadOn(s) = [s EXCEPT !.at = @ + 1]
    BY <1>2 DEF ReadOn
  <2>2. QED
    BY <1>2, <2>1 DEF StateShape
<1>3. QED
  BY <1>1, <1>2

\* When a member was looked at, and before the call, if all that is needed is known.
Waiting(r, s) ==
    /\ StateShape(s)
    /\ s.at \in DOMAIN r
    /\ ~s.over
    /\ s.failed => s.method = NoCallable
    /\ NamesDiffer(r) => s.calls = <<>> /\ ~s.called /\ ParamsRead(r, s, s.at + 1)
    /\ Proper(r) => ~s.failed /\ Noted(r, s, s.at + 1) /\ NotCalled(r, s)

LEMMA MethodIs ==
    ASSUME NEW r, Proper(r)
    PROVE  AskedCall(r).method \in Lambdas /\ AskedCall(r).method # NoCallable
<1>1. NoCallable \notin Lambdas
  BY CallableTreeAssumption
<1>2. AskedCall(r).method = FindCallable(Value(r, "method"))
  BY DEF AskedCall
<1>3. QED
  BY <1>1, <1>2 DEF Proper

LEMMA KnownCalled ==
    ASSUME NEW r, r = Request, IsSequence(r), NEW s, Waiting(r, s), Known(s)
    PROVE  Going(r, ReadOn(Called(s)))
<1> DEFINE t == Called(s)
           u == ReadOn(t)
<1>1. StateShape(s) /\ ~s.over /\ ~s.failed /\ s.method # NoCallable
  BY DEF Known, Waiting
<1>2. /\ StateShape(t) /\ t.at = s.at /\ t.params = s.params /\ t.method = s.method
      /\ t.responding = s.responding /\ t.called /\ (t.over <=> t.failed)
      /\ s.calls = <<>> => AtMostOne(t.calls)
  BY <1>1, CallKeeps
<1>3. s.at \in 1 .. Len(r) /\ Len(r) \in Nat
  BY SequenceIs DEF Waiting
<1> HIDE DEF t
<1>4. /\ StateShape(u) /\ u.at = IF t.failed THEN s.at ELSE s.at + 1
      /\ u.params = s.params /\ u.method = s.method /\ u.responding = s.responding
      /\ u.called /\ u.failed = t.failed /\ (u.over <=> t.failed) /\ u.calls = t.calls
      /\ u.answer = t.answer
  <2>1. ~t.failed => ~t.over
    BY <1>2
  <2>2. QED
    BY <1>2, <2>1, ReadOnIs
<1> HIDE DEF u
<1>5. ASSUME NamesDiffer(r) PROVE CalledOnce(r, u)
  <2>1. s.calls = <<>> /\ ParamsRead(r, s, s.at + 1)
    BY <1>5 DEF Waiting
  <2>2. s.params # 0
    BY DEF Known
  <2>3. QED
    BY <1>1, <1>2, <1>4, <2>1, <2>2 DEF CalledOnce, ParamsRead
<1>6. ASSUME Proper(r) PROVE Proceeding(r, u)
  <2>1. Noted(r, s, s.at + 1) /\ NotCalled(r, s)
    BY <1>6 DEF Waiting
  <2>2. s.method = AskedCall(r).method
    BY <1>1, <2>1 DEF Noted
  <2>3. Argument(s) = AskedCall(r).argument
    <3>1. s.params # 0
      BY DEF Known
    <3>2. s.params \in DOMAIN r /\ r[s.params].name = "params"
      BY <2>1, <3>1 DEF Noted, ParamsRead
    <3>3. QED
      BY <1>6, <3>1, <3>2, ArgumentIs
  <2>4. CallOf(s) = AskedCall(r)
    BY <2>2, <2>3 DEF CallOf, AskedCall
  <2>5. WasCalled(r, t)
    BY <1>1, <1>6, <2>1, <2>2, <2>4, CallAnswers, MethodIs DEF t
  <2>6. WasCalled(r, u)
    BY <1>2, <1>4, <2>5 DEF WasCalled
  <2>7. CASE t.failed
    <3>1. Seen(r, s.at + 1, "id")
      BY <2>1 DEF Known, Noted
    <3>2. \A i \in DOMAIN r : i < Len(r) + 1
      BY SequenceIs
    <3>3. Seen(r, Len(r) + 1, "id")
      BY <3>1, <3>2 DEF Seen
    <3>4. QED
      BY <1>4, <2>6, <2>7, <3>3 DEF Proceeding, Known
  <2>8. CASE ~t.failed
    <3>1. Noted(r, u, u.at)
      BY <1>4, <2>1, <2>8 DEF Noted, ParamsRead
    <3>2. Known(u)
      BY <1>4 DEF Known
    <3>3. QED
      BY <1>4, <2>6, <2>8, <3>1, <3>2 DEF Proceeding
  <2>9. QED
    BY <2>7, <2>8
<1>7. u.at \in 1 .. Len(r) + 1
  BY <1>3, <1>4
<1>8. QED
  BY <1>4, <1>5, <1>6, <1>7 DEF Going, u, t

LEMMA WaitingSound ==
    ASSUME NEW r, r = Request, IsSequence(r), NEW s, Waiting(r, s)
    PROVE  Going(r, ReadOn(CalledIfKnown(s)))
<1>1. CASE Known(s)
  BY <1>1, KnownCalled DEF CalledIfKnown
<1>2. CASE ~Known(s)
  <2> DEFINE u == ReadOn(s)
  <2>1. CalledIfKnown(s) = s
    BY <1>2 DEF CalledIfKnown
  <2>2. /\ StateShape(u) /\ u.at = IF s.failed THEN s.at ELSE s.at + 1
        /\ u.params = s.params /\ u.method = s.method /\ u.responding = s.responding
        /\ u.called = s.called /\ u.failed = s.failed /\ (u.over <=> s.failed)
        /\ u.calls = s.calls /\ u.answer = s.answer
    BY ReadOnIs DEF Waiting
  <2> HIDE DEF u
  <2>3. s.at \in 1 .. Len(r) /\ Len(r) \in Nat
    BY SequenceIs DEF Waiting
  <2>4. u.at \in 1 .. Len(r) + 1
    BY <2>2, <2>3
  <2>5. NamesDiffer(r) => CalledOnce(r, u)
    BY <2>2 DEF Waiting, CalledOnce, ParamsRead, AtMostOne
  <2>6. ASSUME Proper(r) PROVE Proceeding(r, u)
    <3>1. ~s.failed /\ Noted(r, s, s.at + 1) /\ NotCalled(r, s)
      BY <2>6 DEF Waiting
    <3>2. Noted(r, u, u.at) /\ NotCalled(r, u) /\ ~Known(u) /\ ~u.over
      BY <1>2, <2>2, <3>1 DEF Noted, ParamsRead, NotCalled, Known
    <3>3. QED
      BY <3>2 DEF Proceeding
  <2>7. QED
    BY <2>1, <2>2, <2>4, <2>5, <2>6 DEF Going, u
<1>3. QED
  BY <1>1, <1>2
-----------------------------------------------------------------------------
(***************************************************************************)
(* The members, one lemma for each of them.                                *)
(***************************************************************************)
Looking(r, s, name) ==
    /\ Going(r, s)
    /\ s.at \in DOMAIN r
    /\ ~s.over
    /\ r[s.at].name = name

LEMMA LookingIs ==
    ASSUME NEW r, IsSequence(r), NEW s, NEW name, Looking(r, s, name)
    PROVE  /\ StateShape(s) /\ ~s.over /\ ~s.failed
           /\ s.at \in Nat /\ Len(r) \in Nat /\ s.at + 1 \in 1 .. Len(r) + 1
           /\ NamesDiffer(r) => CalledOnce(r, s)
           /\ Proper(r) => Noted(r, s, s.at) /\ ~Seen(r, s.at, name)
           /\ Proper(r) => IF Known(s) THEN WasCalled(r, s) ELSE NotCalled(r, s)
<1>1. s.at \in 1 .. Len(r) /\ Len(r) \in Nat
  BY SequenceIs DEF Looking
<1>2. s.at \in Nat /\ s.at + 1 \in 1 .. Len(r) + 1
  BY <1>1
<1>3. Proper(r) => Proceeding(r, s)
  BY DEF Looking, Going
<1>4. Proper(r) => ~Seen(r, s.at, name)
  BY SeenOnce DEF Looking, Proper
<1>5. QED
  BY <1>1, <1>2, <1>3, <1>4 DEF Looking, Going, Proceeding

\* A member that changes nothing.
LEMMA SkipSound ==
    ASSUME NEW r, IsSequence(r), NEW s, NEW name, Looking(r, s, name),
           Proper(r) => name = "jsonrpc"
    PROVE  Going(r, ReadOn(s))
<1> DEFINE u == ReadOn(s)
<1>1. /\ StateShape(u) /\ u.at = s.at + 1 /\ u.params = s.params
      /\ u.method = s.method /\ u.responding = s.responding /\ u.called = s.called
      /\ ~u.failed /\ ~u.over /\ u.calls = s.calls /\ u.answer = s.answer
  BY ReadOnIs, LookingIs
<1>2. u.at \in 1 .. Len(r) + 1
  BY <1>1, LookingIs
<1> HIDE DEF u
<1>3. ParamsRead(r, s, s.at) => ParamsRead(r, u, u.at)
  <2>1. s.at \in Nat /\ s.params \in Nat
    BY LookingIs DEF StateShape
  <2>2. s.params < s.at => s.params < s.at + 1
    BY <2>1
  <2>3. QED
    BY <1>1, <2>2 DEF ParamsRead
<1>4. NamesDiffer(r) => CalledOnce(r, u)
  BY <1>1, <1>3, LookingIs DEF CalledOnce
<1>5. ASSUME Proper(r) PROVE Proceeding(r, u)
  <2>1. Noted(r, s, s.at)
    BY <1>5, LookingIs
  <2>2. \A other : other # "jsonrpc" => (Seen(r, s.at + 1, other) <=> Seen(r, s.at, other))
    BY <1>5, SeenNext DEF Looking
  <2>3. "id" # "jsonrpc" /\ "method" # "jsonrpc" /\ "params" # "jsonrpc"
    OBVIOUS
  <2>4. Noted(r, u, u.at)
    BY <1>1, <1>3, <2>1, <2>2, <2>3 DEF Noted
  <2>5. IF Known(s) THEN WasCalled(r, s) ELSE NotCalled(r, s)
    BY <1>5, LookingIs
  <2>6. IF Known(u) THEN WasCalled(r, u) ELSE NotCalled(r, u)
    BY <1>1, <2>5 DEF Known, WasCalled, NotCalled
  <2>7. QED
    BY <1>1, <2>4, <2>6 DEF Proceeding
<1>6. QED
  BY <1>1, <1>2, <1>4, <1>5 DEF Going, u

\* A member that ends it.
LEMMA FailSound ==
    ASSUME NEW r, IsSequence(r), NEW s, StateShape(s), s.at \in 1 .. Len(r) + 1,
           NamesDiffer(r) => AtMostOne(s.calls) /\ (~s.called => s.calls = <<>>),
           ~Proper(r)
    PROVE  Going(r, Ended(Failed(s)))
<1> DEFINE u == Ended(Failed(s))
<1>1. /\ StateShape(u) /\ u.at = s.at /\ u.called = s.called /\ u.calls = s.calls
      /\ u.failed /\ u.over
  BY FailedIs, EndedIs
<1> HIDE DEF u
<1>2. QED
  BY <1>1 DEF Going, CalledOnce, u

LEMMA VersionSound ==
    ASSUME NEW r, IsSequence(r), NEW s, Looking(r, s, "jsonrpc")
    PROVE  Going(r, IF r[s.at].value = Version THEN ReadOn(s) ELSE Ended(Failed(s)))
<1>1. CASE r[s.at].value = Version
  BY <1>1, SkipSound
<1>2. CASE r[s.at].value # Version
  <2>1. ~Proper(r)
    <3>1. ASSUME Proper(r) PROVE FALSE
      <4>1. Has(r, "jsonrpc") /\ Value(r, "jsonrpc") = r[s.at].value
        BY <3>1, ValueIs DEF Looking, Proper
      <4>2. QED
        BY <1>2, <3>1, <4>1 DEF Proper
    <3>2. QED
      BY <3>1
  <2>2. s.at \in 1 .. Len(r) + 1
    BY DEF Looking, Going
  <2>3. QED
    BY <1>2, <2>1, <2>2, FailSound, LookingIs DEF CalledOnce
<1>3. QED
  BY <1>1, <1>2

LEMMA AnotherSound ==
    ASSUME NEW r, IsSequence(r), NEW s, Looking(r, s, "another")
    PROVE  Going(r, Ended(Failed(s)))
<1>1. "another" \in Names(r)
  BY DEF Looking, Names
<1>2. "another" \notin {"jsonrpc", "id", "method", "params"}
  OBVIOUS
<1>3. ~Proper(r)
  BY <1>1, <1>2 DEF Proper
<1>4. s.at \in 1 .. Len(r) + 1
  BY DEF Looking, Going
<1>5. QED
  BY <1>3, <1>4, FailSound, LookingIs DEF CalledOnce

LEMMA IdSound ==
    ASSUME NEW r, r = Request, IsSequence(r), NEW s, Looking(r, s, "id")
    PROVE  Going(r, IF s.called THEN ReadOn(s)
                    ELSE ReadOn(CalledIfKnown(Started(s, r[s.at].value))))
<1>1. Proper(r) => ~s.responding /\ ~Known(s) /\ NotCalled(r, s)
  BY LookingIs DEF Noted, Known
<1>2. CASE s.called
  <2>1. ~Proper(r)
    BY <1>1, <1>2 DEF NotCalled
  <2>2. QED
    BY <1>2, <2>1, SkipSound
<1>3. CASE ~s.called
  <2> DEFINE begun == [s EXCEPT !.responding = TRUE]
             id == Member("id", r[s.at].value)
             t == Started(s, r[s.at].value)
  <2>1. t = Wrote(begun, id)
    BY DEF Started
  <2>2. /\ StateShape(begun) /\ begun.at = s.at /\ begun.params = s.params
        /\ begun.method = s.method /\ begun.called = s.called /\ begun.responding
        /\ begun.failed = s.failed /\ begun.over = s.over /\ begun.calls = s.calls
        /\ begun.answer = s.answer
    BY LookingIs DEF StateShape
  <2> HIDE DEF begun
  <2>3. /\ StateShape(t) /\ t.at = s.at /\ t.params = s.params /\ t.method = s.method
        /\ t.responding /\ ~t.called /\ ~t.failed /\ ~t.over /\ t.calls = s.calls
        /\ t.answer = Append(s.answer, id)
    <3>1. ~s.over /\ ~s.failed
      BY LookingIs
    <3> HIDE DEF t, id
    <3>2. /\ StateShape(t) /\ t.at = begun.at /\ t.params = begun.params
          /\ t.method = begun.method /\ t.responding = begun.responding
          /\ t.called = begun.called /\ t.failed = begun.failed /\ t.over = begun.over
          /\ t.calls = begun.calls
          /\ t.answer = IF begun.responding THEN Append(begun.answer, id) ELSE begun.answer
      BY <2>1, <2>2, WroteIs
    <3>3. QED
      BY <1>3, <2>2, <3>1, <3>2
  <2> HIDE DEF t, id
  <2>4. ParamsRead(r, s, s.at) => ParamsRead(r, t, t.at + 1)
    <3>1. s.at \in Nat /\ s.params \in Nat
      BY LookingIs DEF StateShape
    <3>2. s.params < s.at => s.params < s.at + 1
      BY <3>1
    <3>3. QED
      BY <2>3, <3>2 DEF ParamsRead
  <2>5. NamesDiffer(r) => t.calls = <<>> /\ ~t.called /\ ParamsRead(r, t, t.at + 1)
    BY <1>3, <2>3, <2>4, LookingIs DEF CalledOnce
  <2>6. ASSUME Proper(r) PROVE Noted(r, t, t.at + 1) /\ NotCalled(r, t)
    <3>1. \A name : Seen(r, s.at + 1, name) <=> Seen(r, s.at, name) \/ name = "id"
      BY SeenNext DEF Looking
    <3>2. "id" # "method" /\ "id" # "params"
      OBVIOUS
    <3>3. Noted(r, s, s.at)
      BY <2>6, LookingIs
    <3>4. Noted(r, t, t.at + 1)
      BY <2>3, <2>4, <3>1, <3>2, <3>3 DEF Noted
    <3>5. id = Member("id", Value(r, "id"))
      BY <2>6, ValueIs DEF id, Looking, Proper
    <3>6. t.answer = <<Member("id", Value(r, "id"))>>
      BY <1>1, <2>3, <2>6, <3>5, AppendToEmpty DEF NotCalled
    <3>7. QED
      BY <1>1, <2>3, <2>6, <3>4, <3>6 DEF NotCalled
  <2>7. Waiting(r, t)
    BY <2>3, <2>5, <2>6 DEF Waiting, Looking
  <2>8. QED
    BY <1>3, <2>7, WaitingSound DEF t
<1>4. QED
  BY <1>2, <1>3

LEMMA MethodSound ==
    ASSUME NEW r, r = Request, IsSequence(r), NEW s, Looking(r, s, "method")
    PROVE  Going(r, IF s.method # NoCallable THEN ReadOn(s)
                    ELSE ReadOn(CalledIfKnown(Found(s, r[s.at].value))))
<1>1. Proper(r) => s.method = NoCallable /\ ~Known(s) /\ NotCalled(r, s)
  BY LookingIs DEF Noted, Known
<1>2. CASE s.method # NoCallable
  <2>1. ~Proper(r)
    BY <1>1, <1>2
  <2>2. QED
    BY <1>2, <2>1, SkipSound
<1>3. CASE s.method = NoCallable
  <2> DEFINE method == FindCallable(r[s.at].value)
             t == Found(s, r[s.at].value)
  <2>1. t = IF method = NoCallable THEN Failed(s) ELSE [s EXCEPT !.method = method]
    BY DEF Found
  <2>2. /\ StateShape(t) /\ t.at = s.at /\ t.params = s.params /\ t.method = method
        /\ t.responding = s.responding /\ t.called = s.called /\ ~t.over
        /\ t.calls = s.calls
        /\ method = NoCallable <=> t.failed
        /\ method # NoCallable => t.answer = s.answer
    <3>1. StateShape(s) /\ ~s.over /\ ~s.failed
      BY LookingIs
    <3> HIDE DEF t, method
    <3>2. CASE method = NoCallable
      BY <1>3, <2>1, <3>1, <3>2, FailedIs
    <3>3. CASE method # NoCallable
      <4>1. t = [s EXCEPT !.method = method]
        BY <2>1, <3>3
      <4>2. QED
        BY <3>1, <3>3, <4>1 DEF StateShape
    <3>4. QED
      BY <3>2, <3>3
  <2> HIDE DEF t
  <2>4. ParamsRead(r, s, s.at) => ParamsRead(r, t, t.at + 1)
    <3>1. s.at \in Nat /\ s.params \in Nat
      BY LookingIs DEF StateShape
    <3>2. s.params < s.at => s.params < s.at + 1
      BY <3>1
    <3>3. QED
      BY <2>2, <3>2 DEF ParamsRead
  <2>5. NamesDiffer(r) => t.calls = <<>> /\ ~t.called /\ ParamsRead(r, t, t.at + 1)
    <3>1. ASSUME NamesDiffer(r) PROVE ~s.called /\ s.calls = <<>> /\ ParamsRead(r, s, s.at)
      BY <1>3, <3>1, LookingIs DEF CalledOnce
    <3>2. QED
      BY <2>2, <2>4, <3>1
  <2>6. ASSUME Proper(r) PROVE ~t.failed /\ Noted(r, t, t.at + 1) /\ NotCalled(r, t)
    <3>1. \A name : Seen(r, s.at + 1, name) <=> Seen(r, s.at, name) \/ name = "method"
      BY SeenNext DEF Looking
    <3>2. "id" # "method" /\ "method" # "params"
      OBVIOUS
    <3>3. Noted(r, s, s.at)
      BY <2>6, LookingIs
    <3>4. method = AskedCall(r).method
      BY <2>6, ValueIs DEF Looking, Proper, AskedCall
    <3>5. ~t.failed /\ t.answer = s.answer
      BY <2>2, <2>6, <3>4, MethodIs
    <3> HIDE DEF method
    <3>6. Noted(r, t, t.at + 1)
      BY <2>2, <2>4, <3>1, <3>2, <3>3, <3>4 DEF Noted
    <3>7. QED
      BY <1>1, <2>2, <2>6, <3>5, <3>6 DEF NotCalled
  <2>7. t.failed => t.method = NoCallable
    BY <2>2
  <2>8. Waiting(r, t)
    BY <2>2, <2>5, <2>6, <2>7 DEF Waiting, Looking
  <2>9. QED
    BY <1>3, <2>8, WaitingSound DEF t
<1>4. QED
  BY <1>2, <1>3

LEMMA ParamsSound ==
    ASSUME NEW r, r = Request, IsSequence(r), NEW s, Looking(r, s, "params"),
           NEW t, t = [s EXCEPT !.params = s.at]
    PROVE  Going(r, IF Known(t) /\ t.method \notin Lambdas
                    THEN Ended(Failed(Called(t))) ELSE ReadOn(CalledIfKnown(t)))
<1>1. Proper(r) => s.params = 0 /\ ~Known(s) /\ NotCalled(r, s)
  BY LookingIs DEF Noted, Known
<1>2. StateShape(s) /\ ~s.over /\ ~s.failed /\ s.at \in DOMAIN r /\ r[s.at].name = "params"
  BY LookingIs DEF Looking
<1>3. s.at \in Nat /\ s.at # 0 /\ s.at < s.at + 1 /\ s.at \in 1 .. Len(r) + 1
  BY <1>2, SequenceIs DEF Looking, Going
<1>4. /\ StateShape(t) /\ t.at = s.at /\ t.params = s.at /\ t.method = s.method
      /\ t.responding = s.responding /\ t.called = s.called /\ ~t.over /\ ~t.failed
      /\ t.calls = s.calls /\ t.answer = s.answer
  BY <1>2, <1>3 DEF StateShape
<1>5. ParamsRead(r, t, t.at + 1)
  BY <1>2, <1>3, <1>4 DEF ParamsRead
<1>6. ASSUME NamesDiffer(r) PROVE t.calls = <<>> /\ ~t.called
  <2>1. CalledOnce(r, s)
    BY <1>6, LookingIs
  <2>2. s.params = 0
    <3>1. SUFFICES ASSUME s.params # 0 PROVE FALSE
      OBVIOUS
    <3>2. s.params \in DOMAIN r /\ s.params < s.at /\ r[s.params].name = "params"
      BY <1>2, <2>1, <3>1 DEF CalledOnce, ParamsRead
    <3>3. s.params = s.at
      BY <1>2, <1>6, <3>2 DEF NamesDiffer
    <3>4. QED
      BY <1>3, <3>2, <3>3
  <2>3. QED
    BY <1>2, <1>4, <2>1, <2>2 DEF CalledOnce
<1>7. ASSUME Proper(r) PROVE Noted(r, t, t.at + 1) /\ NotCalled(r, t)
  <2>1. \A name : Seen(r, s.at + 1, name) <=> Seen(r, s.at, name) \/ name = "params"
    BY <1>2, SeenNext
  <2>2. "id" # "params" /\ "method" # "params"
    OBVIOUS
  <2>3. Noted(r, s, s.at)
    BY <1>7, LookingIs
  <2>4. Noted(r, t, t.at + 1)
    BY <1>3, <1>4, <1>5, <2>1, <2>2, <2>3 DEF Noted
  <2>5. QED
    BY <1>1, <1>4, <1>7, <2>4 DEF NotCalled
<1>8. CASE Known(t) /\ t.method \notin Lambdas
  <2> DEFINE c == Called(t)
  <2>1. /\ StateShape(c) /\ c.at = s.at /\ c.called
        /\ t.calls = <<>> => AtMostOne(c.calls)
    BY <1>4, <1>8, CallKeeps DEF Known
  <2> HIDE DEF c
  <2>2. ~Proper(r)
    <3>1. ASSUME Proper(r) PROVE FALSE
      <4>1. t.method = AskedCall(r).method
        BY <1>7, <1>8, <3>1 DEF Noted, Known
      <4>2. QED
        BY <1>8, <3>1, <4>1, MethodIs
    <3>2. QED
      BY <3>1
  <2>3. Going(r, Ended(Failed(c)))
    BY <1>3, <1>6, <2>1, <2>2, FailSound
  <2>4. QED
    BY <1>8, <2>3 DEF c
<1>9. CASE ~(Known(t) /\ t.method \notin Lambdas)
  <2>1. Waiting(r, t)
    BY <1>2, <1>4, <1>5, <1>6, <1>7 DEF Waiting
  <2>2. QED
    BY <1>9, <2>1, WaitingSound
<1>10. QED
  BY <1>8, <1>9
-----------------------------------------------------------------------------
LEMMA BegunSound ==
    ASSUME NEW r, IsSequence(r)
    PROVE  Going(r, Begun)
<1>1. StateShape(Begun) /\ Begun.at = 1 /\ 1 \in 1 .. Len(r) + 1 /\ ~Begun.over /\ ~Begun.failed
  BY SequenceIs DEF StateShape, Begun
<1>2. \A name : ~Seen(r, 1, name)
  BY SequenceIs DEF Seen
<1>3. Noted(r, Begun, 1) /\ NotCalled(r, Begun) /\ ~Known(Begun)
  BY <1>2 DEF Noted, NotCalled, Known, Begun, ParamsRead
<1>4. CalledOnce(r, Begun)
  BY DEF CalledOnce, Begun, ParamsRead, AtMostOne
<1>5. QED
  BY <1>1, <1>3, <1>4 DEF Going, Proceeding

LEMMA EndSound ==
    ASSUME NEW r, r = Request, IsSequence(r), NEW s, Going(r, s), s.over \/ s.at > Len(r)
    PROVE  Concluded(r, Completed(s))
<1> DEFINE t == Completed(s)
<1>1. StateShape(s) /\ s.responding \in BOOLEAN /\ (s.over <=> s.failed)
  BY DEF Going, StateShape
<1>2. CASE s.failed \/ s.called
  <2>1. t = s
    BY <1>2 DEF Completed
  <2>2. NamesDiffer(r) => AtMostOne(s.calls)
    BY DEF Going, CalledOnce
  <2>3. ASSUME Proper(r)
        PROVE  WasCalled(r, s) /\ s.responding /\ Has(r, "id")
    <3>1. Proceeding(r, s)
      BY <2>3 DEF Going
    <3>2. CASE s.over
      BY <3>1, <3>2, SeenAll DEF Proceeding
    <3>3. CASE ~s.over
      <4>1. Known(s) /\ WasCalled(r, s) /\ Noted(r, s, s.at)
        BY <1>1, <1>2, <3>1, <3>3 DEF Proceeding, NotCalled
      <4>2. s.at = Len(r) + 1
        BY <3>3, SequenceIs DEF Going
      <4>3. Has(r, "id")
        BY <4>1, <4>2, SeenAll DEF Noted, Known
      <4>4. QED
        BY <4>1, <4>3 DEF Known
    <3>4. QED
      BY <3>2, <3>3
  <2>4. QED
    BY <1>1, <2>1, <2>2, <2>3 DEF Concluded, WasCalled
<1>3. CASE ~s.failed /\ ~s.called
  <2>1. s.at = Len(r) + 1 /\ ~s.over
    BY <1>1, <1>3, SequenceIs DEF Going
  <2>2. NamesDiffer(r) => s.calls = <<>>
    BY <1>3 DEF Going, CalledOnce
  <2>3. ASSUME Proper(r)
        PROVE  /\ Noted(r, s, Len(r) + 1) /\ NotCalled(r, s)
               /\ s.method = AskedCall(r).method
               /\ s.responding <=> Has(r, "id")
               /\ Argument(s) = AskedCall(r).argument
    <3>1. Noted(r, s, Len(r) + 1) /\ NotCalled(r, s)
      BY <1>3, <2>1, <2>3 DEF Going, Proceeding, WasCalled
    <3>2. \A name : Seen(r, Len(r) + 1, name) <=> Has(r, name)
      BY SeenAll
    <3>3. s.method = AskedCall(r).method /\ (s.responding <=> Has(r, "id"))
      BY <2>3, <3>1, <3>2 DEF Noted, Proper
    <3>4. IF s.params = 0 THEN ~Has(r, "params")
          ELSE s.params \in DOMAIN r /\ r[s.params].name = "params"
      BY <3>1, <3>2 DEF Noted, ParamsRead
    <3>5. QED
      BY <2>3, <3>1, <3>3, <3>4, ArgumentIs
  <2>4. CASE s.method = NoCallable
    <3>1. t = Failed(s) /\ ~Proper(r)
      BY <1>3, <2>3, <2>4, MethodIs DEF Completed
    <3>2. QED
      BY <1>1, <2>2, <3>1, FailedIs DEF Concluded, AtMostOne, StateShape
  <2>5. CASE s.method # NoCallable
    <3>1. t = Called(s)
      BY <1>3, <2>5 DEF Completed
    <3>2. t.responding = s.responding /\ (s.calls = <<>> => AtMostOne(t.calls))
      BY <1>1, <2>1, <3>1, CallKeeps
    <3>3. ASSUME Proper(r) PROVE WasCalled(r, t)
      <4>1. CallOf(s) = AskedCall(r)
        BY <2>3, <3>3 DEF CallOf, AskedCall
      <4>2. QED
        BY <1>1, <1>3, <2>1, <2>3, <2>5, <3>1, <3>3, <4>1, CallAnswers, MethodIs
    <3> HIDE DEF t
    <3>4. QED
      BY <1>1, <2>2, <2>3, <3>2, <3>3 DEF Concluded, WasCalled, t
  <2>6. QED
    BY <2>4, <2>5
<1>4. QED
  BY <1>2, <1>3
-----------------------------------------------------------------------------
(***************************************************************************)
(* The server: the request that is being answered, of whomever it is.      *)
(***************************************************************************)
ServerIInv ==
    srv # Idle =>
        /\ DOMAIN srv = {"connection", "body", "number", "out", "state"}
        /\ srv.connection \in Clients \union {Foreign}
        /\ IsSequence(srv.body.requests)
        /\ \A n \in DOMAIN srv.body.requests : IsSequence(srv.body.requests[n])
        /\ srv.number \in DOMAIN srv.body.requests
        /\ IsSequence(srv.out)
        /\ Going(Request, srv.state)

LEMMA PostSound ==
    ASSUME NEW connection \in Clients \union {Foreign}, NEW body,
           IsSequence(body.requests), body.requests # <<>>,
           \A n \in DOMAIN body.requests : IsSequence(body.requests[n]),
           srv' = Post(connection, body)
    PROVE  /\ ServerIInv' /\ srv' # Idle
           /\ srv'.connection = connection /\ srv'.body = body
           /\ srv'.number = 1 /\ srv'.out = <<>>
<1>1. 1 \in DOMAIN body.requests
  <2>1. Len(body.requests) # 0
    BY DEF IsSequence
  <2>2. QED
    BY <2>1, SequenceIs
<1>2. /\ DOMAIN srv' = {"connection", "body", "number", "out", "state"}
      /\ srv'.connection = connection /\ srv'.body = body
      /\ srv'.number = 1 /\ srv'.out = <<>> /\ srv'.state = Begun
  BY DEF Post
<1>3. Going(body.requests[1], Begun)
  BY <1>1, BegunSound
<1>4. Going(Request, srv.state)'
  BY <1>2, <1>3 DEF Request
<1>5. srv' # Idle
  BY <1>2 DEF Idle
<1>6. QED
  BY <1>1, <1>2, <1>4, <1>5, EmptyIs DEF ServerIInv

LEMMA BecomesSound ==
    ASSUME ServerIInv, srv # Idle, NEW s, Becomes(s), Going(Request, s)
    PROVE  /\ ServerIInv' /\ srv' # Idle
           /\ srv'.connection = srv.connection /\ srv'.body = srv.body
           /\ srv'.number = srv.number /\ srv'.out = srv.out
<1>1. /\ DOMAIN srv' = {"connection", "body", "number", "out", "state"}
      /\ srv'.connection = srv.connection /\ srv'.body = srv.body
      /\ srv'.number = srv.number /\ srv'.out = srv.out /\ srv'.state = s
  BY DEF ServerIInv, Becomes
<1>2. Request' = Request
  BY <1>1 DEF Request
<1>3. srv' # Idle
  BY <1>1 DEF Idle
<1>4. Going(Request, srv.state)'
  BY <1>1, <1>2
<1>5. QED
  BY <1>1, <1>3, <1>4 DEF ServerIInv

LEMMA ReadSound ==
    ASSUME ServerIInv, ReadMember
    PROVE  /\ ServerIInv' /\ srv # Idle /\ srv' # Idle
           /\ srv'.connection = srv.connection /\ srv'.body = srv.body
           /\ srv'.number = srv.number /\ srv'.out = srv.out
           /\ executed' = executed
<1> DEFINE r == Request
           s == srv.state
<1>1. srv # Idle /\ executed' = executed
  BY DEF ReadMember, ReadVersion, ReadId, ReadMethod, ReadParams, ReadAnother, Reading
<1>2. IsSequence(r) /\ Going(r, s)
  BY <1>1 DEF ServerIInv, Request
<1>3. ASSUME NEW name, Reading(name) PROVE Looking(r, s, name) /\ Here = r[s.at]
  <2>1. ~s.over /\ s.at <= Len(r) /\ r[s.at].name = name /\ Here = r[s.at]
    BY <1>3 DEF Reading, Here
  <2>2. s.at \in DOMAIN r
    BY <1>2, <2>1, SequenceIs DEF Going
  <2>3. QED
    BY <1>2, <2>1, <2>2 DEF Looking
<1> HIDE DEF r, s
<1>4. \E t : Becomes(t) /\ Going(r, t)
  <2>1. CASE ReadVersion
    BY <1>2, <1>3, <2>1, VersionSound DEF ReadVersion, s
  <2>2. CASE ReadId
    BY <1>2, <1>3, <2>2, IdSound DEF ReadId, r, s
  <2>3. CASE ReadMethod
    BY <1>2, <1>3, <2>3, MethodSound DEF ReadMethod, r, s
  <2>4. CASE ReadParams
    BY <1>2, <1>3, <2>4, ParamsSound DEF ReadParams, r, s
  <2>5. CASE ReadAnother
    BY <1>2, <1>3, <2>5, AnotherSound DEF ReadAnother, s
  <2>6. QED
    BY <2>1, <2>2, <2>3, <2>4, <2>5 DEF ReadMember
<1>5. QED
  BY <1>1, <1>4, BecomesSound DEF r

LEMMA AnswerSound ==
    ASSUME ServerIInv, AllRead
    PROVE  Concluded(Request, Completed(srv.state))
<1>1. srv # Idle /\ (srv.state.over \/ srv.state.at > Len(Request))
  BY DEF AllRead
<1>2. IsSequence(Request) /\ Going(Request, srv.state)
  BY <1>1 DEF ServerIInv, Request
<1>3. QED
  BY <1>1, <1>2, EndSound

LEMMA NextSound ==
    ASSUME ServerIInv, NextRequest
    PROVE  /\ ServerIInv' /\ srv' # Idle
           /\ srv'.connection = srv.connection /\ srv'.body = srv.body
           /\ srv'.number = srv.number + 1
           /\ srv'.out = Written(Completed(srv.state))
<1>1. srv # Idle /\ srv.number < Len(srv.body.requests)
  BY DEF NextRequest, AllRead
<1>2. srv' = [srv EXCEPT !.out = Written(Completed(srv.state)), !.number = @ + 1,
                         !.state = Begun]
  BY DEF NextRequest
<1>3. /\ DOMAIN srv' = {"connection", "body", "number", "out", "state"}
      /\ srv'.connection = srv.connection /\ srv'.body = srv.body
      /\ srv'.number = srv.number + 1
      /\ srv'.out = Written(Completed(srv.state))
      /\ srv'.state = Begun
  BY <1>1, <1>2 DEF ServerIInv
<1>4. srv' # Idle
  BY <1>3 DEF Idle
<1>5. srv.number + 1 \in DOMAIN srv.body.requests
  BY <1>1, SequenceIs DEF ServerIInv
<1>6. Going(Request, srv.state)'
  BY <1>1, <1>3, <1>5, BegunSound DEF ServerIInv, Request
<1>7. IsSequence(Written(Completed(srv.state)))
  BY <1>1, AppendIs DEF ServerIInv, Written
<1>8. QED
  BY <1>1, <1>3, <1>4, <1>5, <1>6, <1>7 DEF ServerIInv
-----------------------------------------------------------------------------
(***************************************************************************)
(* The requests of somebody else, of which the first n were answered.      *)
(***************************************************************************)
AnsweredTo(n, requests, out) ==
    \E place \in [1 .. n -> 0 .. Len(out)] :
        /\ InOrder(place, out)
        /\ \A m \in 1 .. n : AnsweredAt(place[m], requests[m], out)

ExecutedTo(n, requests) ==
    /\ \A m \in 1 .. n : ExecutedOnce(m, requests[m])
    /\ \A e \in executed : e.connection = Foreign => e.number \in 1 .. n

BeingAnswered == srv # Idle /\ srv.connection = Foreign

ForeignIInv ==
    /\ DOMAIN posted = {"body", "responses"}
    /\ posted.body \in Bodies \union {Nothing}
    /\ BeingAnswered =>
        /\ srv.body = posted.body
        /\ posted.responses = <<>>
        /\ AnsweredTo(srv.number - 1, posted.body.requests, srv.out)
        /\ ExecutedTo(srv.number - 1, posted.body.requests)
    /\ ~BeingAnswered /\ posted.responses = <<>> =>
        \A e \in executed : e.connection # Foreign
    /\ AnswersAsSpecified

LEMMA AnsweredToNext ==
    ASSUME NEW n \in Nat, n # 0, NEW requests, NEW out, IsSequence(out), NEW s,
           AnsweredTo(n - 1, requests, out), Concluded(requests[n], s)
    PROVE  AnsweredTo(n, requests, IF s.responding THEN Append(out, s.answer) ELSE out)
<1> DEFINE more == IF s.responding THEN Append(out, s.answer) ELSE out
           here == IF s.responding THEN Len(out) + 1 ELSE 0
<1>1. PICK place \in [1 .. n - 1 -> 0 .. Len(out)] :
        /\ InOrder(place, out)
        /\ \A m \in 1 .. n - 1 : AnsweredAt(place[m], requests[m], out)
  BY DEF AnsweredTo
<1>2. Len(out) \in Nat /\ DOMAIN out = 1 .. Len(out)
  BY SequenceIs
<1>3. s.responding \in BOOLEAN
  BY DEF Concluded
<1>4. /\ Len(more) = IF s.responding THEN Len(out) + 1 ELSE Len(out)
      /\ DOMAIN more = 1 .. Len(more)
      /\ \A j \in DOMAIN out : more[j] = out[j]
      /\ s.responding => more[Len(out) + 1] = s.answer
  <2>1. CASE s.responding
    BY <1>2, <2>1, AppendIs, SequenceIs
  <2>2. CASE ~s.responding
    BY <1>2, <2>2
  <2>3. QED
    BY <2>1, <2>2
<1> HIDE DEF more
<1> DEFINE new == [m \in 1 .. n |-> IF m = n THEN here ELSE place[m]]
<1>5. \A m \in 1 .. n - 1 : m \in 1 .. n /\ m # n /\ new[m] = place[m] /\ place[m] \in 0 .. Len(out)
  OBVIOUS
<1>6. n \in 1 .. n /\ new[n] = here /\ \A m \in 1 .. n : m = n \/ m \in 1 .. n - 1
  OBVIOUS
<1>7. new \in [1 .. n -> 0 .. Len(more)]
  BY <1>2, <1>4
<1>8. DOMAIN new = 1 .. n
  OBVIOUS
<1> HIDE DEF new
<1>9. ASSUME NEW j \in DOMAIN more PROVE \E m \in DOMAIN new : new[m] = j
  <2>1. CASE j \in DOMAIN out
    <3>1. PICK m \in 1 .. n - 1 : place[m] = j
      BY <1>1, <2>1 DEF InOrder
    <3>2. QED
      BY <1>5, <1>8, <3>1
  <2>2. CASE j \notin DOMAIN out
    <3>1. s.responding /\ j = Len(out) + 1
      BY <1>2, <1>3, <1>4, <2>2
    <3>2. QED
      BY <1>6, <1>8, <3>1
  <2>3. QED
    BY <2>1, <2>2
<1>10. ASSUME NEW l \in 1 .. n, NEW m \in 1 .. n, l < m, new[l] # 0, new[m] # 0
       PROVE  new[l] < new[m]
  <2>1. l \in 1 .. n - 1 /\ new[l] = place[l] /\ place[l] \in 0 .. Len(out)
    BY <1>5, <1>10
  <2>2. CASE m = n
    BY <1>2, <1>6, <1>10, <2>1, <2>2
  <2>3. CASE m # n
    <3>1. m \in 1 .. n - 1 /\ new[m] = place[m]
      BY <1>5, <1>6, <2>3
    <3>2. QED
      BY <1>1, <1>10, <2>1, <3>1 DEF InOrder
  <2>4. QED
    BY <2>2, <2>3
<1>11. InOrder(new, more)
  BY <1>8, <1>9, <1>10 DEF InOrder
<1>12. ASSUME NEW m \in 1 .. n PROVE AnsweredAt(new[m], requests[m], more)
  <2>1. CASE m = n
    BY <1>2, <1>4, <1>6, <2>1 DEF Concluded, AnsweredAt
  <2>2. CASE m # n
    <3>1. m \in 1 .. n - 1 /\ new[m] = place[m] /\ place[m] \in 0 .. Len(out)
      BY <1>5, <1>6, <2>2
    <3>2. AnsweredAt(place[m], requests[m], out)
      BY <1>1, <3>1
    <3>3. place[m] # 0 => place[m] \in DOMAIN out
      BY <1>2, <3>1
    <3>4. QED
      BY <1>4, <3>1, <3>2, <3>3 DEF AnsweredAt
  <2>3. QED
    BY <2>1, <2>2
<1>13. AnsweredTo(n, requests, more)
  BY <1>7, <1>11, <1>12 DEF AnsweredTo
<1>14. QED
  BY <1>13 DEF more

LEMMA ExecutedToNext ==
    ASSUME NEW n \in Nat, n # 0, NEW requests, NEW s,
           ExecutedTo(n - 1, requests), Concluded(requests[n], s),
           srv.connection = Foreign, srv.number = n, executed' = Logged(s)
    PROVE  ExecutedTo(n, requests)'
<1> DEFINE e == [connection |-> Foreign, number |-> n, calls |-> s.calls]
<1>1. executed' = executed \union {e}
  BY DEF Logged
<1>2. e.connection = Foreign /\ e.number = n /\ e.calls = s.calls
  OBVIOUS
<1> HIDE DEF e
<1>3. \A d \in executed : d.connection = Foreign => d.number \in 1 .. n - 1
  BY DEF ExecutedTo
<1>4. n \notin 1 .. n - 1 /\ \A m \in 1 .. n - 1 : m # n
  OBVIOUS
<1>5. ReadAs(n)' = {e}
  BY <1>1, <1>2, <1>3, <1>4 DEF ReadAs
<1>6. \A m \in 1 .. n - 1 : ReadAs(m)' = ReadAs(m)
  BY <1>1, <1>2, <1>4 DEF ReadAs
<1>7. ASSUME NEW m \in 1 .. n PROVE ExecutedOnce(m, requests[m])'
  <2>1. CASE m = n
    <3>1. NamesDiffer(requests[n]) => Len(e.calls) <= 1
      <4>1. \A x : Len(<<x>>) <= 1
        BY OneIs
      <4>2. Len(<<>>) <= 1
        BY EmptyIs
      <4>3. NamesDiffer(requests[n]) => e.calls = <<>> \/ \E x : e.calls = <<x>>
        BY <1>2 DEF Concluded, AtMostOne
      <4>4. QED
        BY <4>1, <4>2, <4>3
    <3>2. Proper(requests[n]) /\ Fits(requests[n]) => e.calls = <<AskedCall(requests[n])>>
      BY <1>2 DEF Concluded
    <3>3. QED
      BY <1>1, <1>5, <2>1, <3>1, <3>2 DEF ExecutedOnce
  <2>2. CASE m # n
    <3>1. m \in 1 .. n - 1
      BY <2>2
    <3>2. PICK d \in executed :
            /\ ReadAs(m) = {d}
            /\ IF Proper(requests[m]) /\ Fits(requests[m])
               THEN d.calls = <<AskedCall(requests[m])>>
               ELSE NamesDiffer(requests[m]) => Len(d.calls) <= 1
      BY <3>1 DEF ExecutedTo, ExecutedOnce
    <3>3. d \in executed' /\ ReadAs(m)' = {d}
      BY <1>1, <1>6, <3>1, <3>2
    <3>4. QED
      BY <3>2, <3>3 DEF ExecutedOnce
  <2>3. QED
    BY <2>1, <2>2
<1>8. \A d \in executed' : d.connection = Foreign => d.number \in 1 .. n
  <2>1. 1 .. n - 1 \subseteq 1 .. n /\ n \in 1 .. n
    OBVIOUS
  <2>2. QED
    BY <1>1, <1>2, <1>3, <2>1
<1>9. QED
  BY <1>7, <1>8 DEF ExecutedTo

LEMMA AnsweredNone ==
    ASSUME NEW requests, \A e \in executed : e.connection # Foreign
    PROVE  AnsweredTo(0, requests, <<>>) /\ ExecutedTo(0, requests)
<1>1. ExecutedTo(0, requests)
  BY DEF ExecutedTo
<1> DEFINE place == [n \in 1 .. 0 |-> 0]
<1>2. place \in [1 .. 0 -> 0 .. Len(<<>>)] /\ DOMAIN place = {}
  OBVIOUS
<1> HIDE DEF place
<1>3. InOrder(place, <<>>)
  BY <1>2, EmptyIs DEF InOrder
<1>4. AnsweredTo(0, requests, <<>>)
  BY <1>2, <1>3 DEF AnsweredTo
<1>5. QED
  BY <1>1, <1>4

\* The requests of clients are none of somebody else's.
LEMMA OwnUnseen ==
    ASSUME ForeignIInv, ~BeingAnswered, ~BeingAnswered', posted' = posted,
           \A e \in executed' : e \in executed \/ e.connection # Foreign,
           executed \subseteq executed'
    PROVE  ForeignIInv'
<1>1. \A n : ReadAs(n)' = ReadAs(n)
  BY DEF ReadAs
<1>2. ASSUME NEW n, NEW r, ExecutedOnce(n, r) PROVE ExecutedOnce(n, r)'
  <2>1. PICK e \in executed :
          /\ ReadAs(n) = {e}
          /\ IF Proper(r) /\ Fits(r) THEN e.calls = <<AskedCall(r)>>
             ELSE NamesDiffer(r) => Len(e.calls) <= 1
    BY <1>2 DEF ExecutedOnce
  <2>2. e \in executed' /\ ReadAs(n)' = {e}
    BY <1>1, <2>1
  <2>3. QED
    BY <2>1, <2>2 DEF ExecutedOnce
<1>3. AnswersAsSpecified'
  <2> SUFFICES ASSUME posted.responses # <<>>, posted.body.kind # "other"
               PROVE  LET requests == posted.body.requests
                          content == posted.responses[1].content
                      IN  /\ Len(posted.responses) = 1
                          /\ \E place \in [DOMAIN requests -> 0 .. Len(content)] :
                              /\ InOrder(place, content)
                              /\ \A n \in DOMAIN requests :
                                  AnsweredAt(place[n], requests[n], content)
                          /\ \A n \in DOMAIN requests : ExecutedOnce(n, requests[n])'
    BY DEF AnswersAsSpecified
  <2>1. QED
    BY <1>2 DEF ForeignIInv, AnswersAsSpecified
<1>4. posted'.responses = <<>> => \A e \in executed' : e.connection # Foreign
  BY DEF ForeignIInv
<1>5. QED
  BY <1>3, <1>4 DEF ForeignIInv

LEMMA BodySequences ==
    ASSUME ForeignIInv
    PROVE  /\ IsSequence(posted.body.requests)
           /\ \A n \in DOMAIN posted.body.requests : IsSequence(posted.body.requests[n])
<1>1. CASE posted.body = Nothing
  <2>1. posted.body.requests = <<>>
    BY <1>1 DEF Nothing
  <2>2. DOMAIN <<>> = {}
    OBVIOUS
  <2>3. QED
    BY <2>1, <2>2, EmptyIs
<1>2. CASE posted.body # Nothing
  BY <1>2, RemoteCallsAssumption DEF ForeignIInv
<1>3. QED
  BY <1>1, <1>2

LEMMA ForeignKept ==
    ASSUME ForeignIInv, UNCHANGED <<executed, posted>>,
           BeingAnswered' <=> BeingAnswered,
           BeingAnswered => /\ srv'.body = srv.body /\ srv'.number = srv.number
                            /\ srv'.out = srv.out
    PROVE  ForeignIInv'
<1>1. CASE BeingAnswered
  <2>1. AnswersAsSpecified'
    BY <1>1 DEF ForeignIInv, AnswersAsSpecified
  <2>2. \A n, requests : ExecutedTo(n, requests)' <=> ExecutedTo(n, requests)
    BY DEF ExecutedTo, ExecutedOnce, ReadAs
  <2>3. QED
    BY <1>1, <2>1, <2>2 DEF ForeignIInv
<1>2. CASE ~BeingAnswered
  BY <1>2, OwnUnseen
<1>3. QED
  BY <1>1, <1>2

LEMMA ForeignStep ==
    ASSUME ServerIInv, ForeignIInv, [Next]_vars
    PROVE  ForeignIInv'
<1>1. ASSUME NEW c \in Clients, Accept(c) PROVE ForeignIInv'
  <2>1. srv = Idle /\ srv' # Idle /\ srv'.connection = c
    BY <1>1 DEF Accept, Post, Idle
  <2>2. c # Foreign
    BY RemoteCallsAssumption
  <2>3. QED
    BY <1>1, <2>1, <2>2, ForeignKept DEF Accept, BeingAnswered
<1>2. CASE AcceptForeign
  <2>1. PICK requests : requests = posted.body.requests
    OBVIOUS
  <2>2. \A e \in executed : e.connection # Foreign
    BY <1>2 DEF AcceptForeign, ForeignIInv, BeingAnswered
  <2>3. /\ srv'.connection = Foreign /\ srv'.body = posted.body
        /\ srv'.number = 1 /\ srv'.out = <<>> /\ srv' # Idle
    BY <1>2 DEF AcceptForeign, Post, Idle
  <2>4. AnsweredTo(0, requests, <<>>) /\ ExecutedTo(0, requests)
    BY <2>2, AnsweredNone
  <2>5. ExecutedTo(0, requests)'
    BY <1>2, <2>4 DEF AcceptForeign, ExecutedTo, ExecutedOnce, ReadAs
  <2>6. UNCHANGED <<executed, posted>> /\ posted.responses = <<>>
    BY <1>2 DEF AcceptForeign
  <2>7. AnswersAsSpecified'
    BY <2>6 DEF AnswersAsSpecified
  <2>8. QED
    BY <2>1, <2>3, <2>4, <2>5, <2>6, <2>7 DEF ForeignIInv, BeingAnswered
<1>3. CASE AcceptNothing
  <2> DEFINE extra == IF posted.body.kind = "other" THEN <<[status |-> 400, content |-> <<>>]>>
                      ELSE <<>>
             first == [status |-> 200, content |-> <<>>]
  <2>1. /\ UNCHANGED <<srv, executed>>
        /\ posted.body.requests = <<>>
        /\ posted' = [posted EXCEPT !.responses = <<first>> \o extra]
    BY <1>3 DEF AcceptNothing, serverVars
  <2>2. /\ DOMAIN posted' = {"body", "responses"} /\ posted'.body = posted.body
        /\ posted'.responses = <<first>> \o extra
    BY <2>1 DEF ForeignIInv
  <2>3. ~BeingAnswered
    <3>1. SUFFICES ASSUME BeingAnswered PROVE FALSE
      OBVIOUS
    <3>2. DOMAIN srv.body.requests = {}
      BY <2>1, <3>1 DEF ForeignIInv
    <3>3. QED
      BY <3>1, <3>2 DEF ServerIInv, BeingAnswered
  <2>4. posted'.responses # <<>>
    <3>1. Len(<<first>> \o extra) # 0
      OBVIOUS
    <3>2. QED
      BY <2>2, <3>1, EmptyIs
  <2>5. ASSUME posted.body.kind # "other" PROVE posted'.responses = <<first>>
    BY <2>2, <2>5
  <2>6. AnswersAsSpecified'
    <3>1. DOMAIN <<>> = {} /\ Len(<<>>) = 0
      OBVIOUS
    <3> DEFINE place == [n \in {} |-> 0]
    <3>2. place \in [{} -> 0 .. 0] /\ DOMAIN place = {}
      OBVIOUS
    <3>3. InOrder(place, <<>>)
      BY <3>1, <3>2 DEF InOrder
    <3>4. first.content = <<>> /\ <<first>>[1] = first /\ Len(<<first>>) = 1
      OBVIOUS
    <3> HIDE DEF place, first
    <3>5. \E p \in [DOMAIN <<>> -> 0 .. Len(<<>>)] : InOrder(p, <<>>)
      BY <3>1, <3>2, <3>3
    <3>6. QED
      BY <2>1, <2>2, <2>5, <3>1, <3>4, <3>5 DEF AnswersAsSpecified
  <2>7. ~BeingAnswered'
    BY <2>1, <2>3 DEF BeingAnswered
  <2>8. QED
    BY <2>2, <2>4, <2>6, <2>7 DEF ForeignIInv
<1>4. CASE ReadMember /\ UNCHANGED <<clientVars, posted>>
  BY <1>4, ReadSound, ForeignKept DEF BeingAnswered
<1>5. CASE NextRequest /\ UNCHANGED <<clientVars, posted>>
  <2> DEFINE s == Completed(srv.state)
  <2>1. /\ srv # Idle /\ srv' # Idle
        /\ srv'.connection = srv.connection /\ srv'.body = srv.body
        /\ srv'.number = srv.number + 1 /\ srv'.out = Written(s)
    BY <1>5, NextSound DEF NextRequest, AllRead
  <2>2. executed' = Logged(s) /\ posted' = posted
    BY <1>5 DEF NextRequest
  <2>3. Concluded(Request, s)
    BY <1>5, AnswerSound DEF NextRequest
  <2>4. CASE BeingAnswered
    <3>1. PICK n, requests, state :
            n = srv.number /\ requests = posted.body.requests /\ state = s
      OBVIOUS
    <3>2. n \in Nat /\ n # 0
      BY <2>1, <3>1, SequenceIs DEF ServerIInv
    <3>3. /\ AnsweredTo(n - 1, requests, srv.out) /\ ExecutedTo(n - 1, requests)
          /\ srv.body = posted.body /\ posted.responses = <<>>
          /\ posted.body \in Bodies \union {Nothing} /\ DOMAIN posted = {"body", "responses"}
      BY <2>4, <3>1 DEF ForeignIInv
    <3>4. Concluded(requests[n], state)
      BY <2>3, <3>1, <3>3 DEF Request
    <3>5. IsSequence(srv.out)
      BY <2>1 DEF ServerIInv
    <3> HIDE DEF s
    <3>6. AnsweredTo(n, requests, Written(state))
      BY <3>2, <3>3, <3>4, <3>5, AnsweredToNext DEF Written
    <3>7. ExecutedTo(n, requests)'
      BY <2>2, <2>4, <3>1, <3>2, <3>3, <3>4, ExecutedToNext DEF BeingAnswered
    <3>8. srv'.number - 1 = n
      BY <2>1, <3>1, <3>2
    <3>9. AnswersAsSpecified'
      BY <2>2, <3>3 DEF AnswersAsSpecified
    <3>10. QED
      BY <2>1, <2>2, <2>4, <3>1, <3>3, <3>6, <3>7, <3>8, <3>9 DEF ForeignIInv, BeingAnswered
  <2>5. CASE ~BeingAnswered
    <3>1. srv.connection # Foreign
      BY <2>1, <2>5 DEF BeingAnswered
    <3>2. \A e \in executed' : e \in executed \/ e.connection # Foreign
      BY <2>2, <3>1 DEF Logged
    <3>3. executed \subseteq executed'
      BY <2>2 DEF Logged
    <3>4. ~BeingAnswered'
      BY <2>1, <3>1 DEF BeingAnswered
    <3>5. QED
      BY <2>2, <2>5, <3>2, <3>3, <3>4, OwnUnseen
  <2>6. QED
    BY <2>4, <2>5
<1>6. CASE ReplyOwn
  <2>1. srv.connection # Foreign /\ srv' = Idle /\ posted' = posted
    BY <1>6, RemoteCallsAssumption DEF ReplyOwn, LastRequest
  <2>2. \A e \in executed' : e \in executed \/ e.connection # Foreign
    BY <1>6, <2>1 DEF ReplyOwn, LastRequest, Logged
  <2>3. executed \subseteq executed'
    BY <1>6 DEF ReplyOwn, LastRequest, Logged
  <2>4. QED
    BY <2>1, <2>2, <2>3, OwnUnseen DEF BeingAnswered
<1>7. CASE ReplyForeign
  <2>1. PICK n, requests, state : /\ n = srv.number /\ requests = posted.body.requests
                                  /\ state = Completed(srv.state)
    OBVIOUS
  <2>2. /\ BeingAnswered /\ AllRead /\ srv.number = Len(srv.body.requests)
        /\ srv' = Idle /\ executed' = Logged(state)
        /\ posted' = [posted EXCEPT !.responses =
                         <<[status |-> 200, content |-> Written(state)]>>]
    BY <1>7, <2>1 DEF ReplyForeign, LastRequest, BeingAnswered, Response, AllRead
  <2>3. /\ AnsweredTo(n - 1, requests, srv.out) /\ ExecutedTo(n - 1, requests)
        /\ srv.body = posted.body /\ posted.responses = <<>>
        /\ posted.body \in Bodies \union {Nothing} /\ DOMAIN posted = {"body", "responses"}
    BY <2>1, <2>2 DEF ForeignIInv
  <2>4. n \in Nat /\ n # 0 /\ n = Len(requests) /\ IsSequence(srv.out) /\ IsSequence(requests)
    BY <2>1, <2>2, <2>3, SequenceIs DEF ServerIInv, BeingAnswered
  <2>5. Concluded(requests[n], state)
    BY <2>1, <2>2, <2>3, AnswerSound DEF Request
  <2>6. PICK content : content = Written(state)
    OBVIOUS
  <2>7. AnsweredTo(n, requests, content)
    BY <2>3, <2>4, <2>5, <2>6, AnsweredToNext DEF Written
  <2>8. ExecutedTo(n, requests)'
    BY <2>1, <2>2, <2>3, <2>4, <2>5, ExecutedToNext DEF BeingAnswered
  <2>9. /\ DOMAIN posted' = {"body", "responses"} /\ posted'.body = posted.body
        /\ posted'.responses = <<[status |-> 200, content |-> content]>>
    BY <2>2, <2>3, <2>6
  <2>10. /\ Len(posted'.responses) = 1 /\ posted'.responses # <<>>
         /\ posted'.responses[1].content = content
    BY <2>9
  <2>11. /\ \E place \in [DOMAIN requests -> 0 .. Len(content)] :
                /\ InOrder(place, content)
                /\ \A m \in DOMAIN requests : AnsweredAt(place[m], requests[m], content)
         /\ \A m \in DOMAIN requests : ExecutedOnce(m, requests[m])'
    BY <2>4, <2>7, <2>8, SequenceIs DEF AnsweredTo, ExecutedTo
  <2>12. AnswersAsSpecified'
    BY <2>1, <2>9, <2>10, <2>11 DEF AnswersAsSpecified
  <2>13. ~BeingAnswered'
    BY <2>2 DEF BeingAnswered
  <2>14. QED
    BY <2>3, <2>9, <2>10, <2>12, <2>13 DEF ForeignIInv
<1>8. CASE UNCHANGED <<serverVars, posted>>
  BY <1>8, ForeignKept DEF serverVars, BeingAnswered
<1>9. QED
  <2>1. CASE Server
    BY <1>1, <1>2, <1>3, <1>4, <1>5, <1>6, <1>7, <2>1 DEF Server
  <2>2. CASE OwnUse /\ App /\ UNCHANGED <<serverVars, posted>>
    BY <1>8, <2>2
  <2>3. CASE UNCHANGED vars
    BY <1>8, <2>3 DEF vars
  <2>4. QED
    BY <2>1, <2>2, <2>3 DEF Next
-----------------------------------------------------------------------------
(***************************************************************************)
(* The requests of a client, and what it knows of them.                    *)
(***************************************************************************)
TreeIInv ==
    /\ attached \subseteq Callables \ {Root}
    /\ responder \in [Callables -> Clients \union {NoClient}]
    /\ \A c \in Callables : responder[c] # NoClient => Rooted(c)

OwnRequest(token, path, argument) ==
    << [name |-> "jsonrpc", value |-> "2.0"], [name |-> "id", value |-> token],
       [name |-> "method", value |-> path], [name |-> "params", value |-> argument] >>

\* The n-th request of a connection asks for a function there is.
IsOwn(n, r) ==
    \E path, argument : /\ argument \in Nat /\ FindCallable(path) \in Lambdas
                        /\ r = OwnRequest(n, path, argument)

SentIInv ==
    /\ use \in Uses /\ calls \in Nat
    /\ DOMAIN sent = Clients
    /\ \A c \in Clients : /\ IsSequence(sent[c])
                          /\ \A n \in DOMAIN sent[c] : IsOwn(n, sent[c][n])

RepliesIInv ==
    /\ DOMAIN replies = Clients
    /\ \A c \in Clients :
        /\ IsSequence(replies[c])
        /\ Len(replies[c]) <= Len(sent[c])
        /\ \A n \in DOMAIN replies[c] : replies[c][n] = <<Expected(sent[c][n])>>

\* The server answers the oldest request that was not answered.
OwnIInv ==
    srv # Idle /\ srv.connection # Foreign =>
        /\ Len(replies[srv.connection]) < Len(sent[srv.connection])
        /\ srv.body.requests =
                <<sent[srv.connection][Len(replies[srv.connection]) + 1]>>
        /\ srv.out = <<>>

HttpIInv ==
    /\ lastTokenRead \in [Clients -> Nat]
    /\ DOMAIN kept = Clients
    /\ \A c \in Clients : kept[c] \subseteq DOMAIN replies[c]

\* What waits for a response has the token of the request of its call.
AskedFor(x) ==
    /\ x.responder \in Clients
    /\ x.token \in DOMAIN sent[x.responder]
    /\ x.call = AskedCall(sent[x.responder][x.token])

IsFuture(x) ==
    /\ DOMAIN x = {"reader", "responder", "token", "value", "call"}
    /\ x.responder # NoClient => AskedFor(x)

FutureIInv ==
    /\ DOMAIN futures = Futures
    /\ \A f \in Futures : IsFuture(futures[f])
    /\ asking # NotAsking => AskedFor(asking.of)
    /\ asking.op \in {"none", "call", "get", "has", "assign", "drop"}
    /\ asking.op = "none" => asking = NotAsking
    /\ asking.op = "assign" => asking.future \in Futures /\ asking.other \in Futures

ClientIInv ==
    SentIInv /\ RepliesIInv /\ OwnIInv /\ HttpIInv /\ FutureIInv /\ OutcomeIsOwn

LEMMA OwnIs ==
    ASSUME NEW n, NEW r, IsOwn(n, r)
    PROVE  /\ IsSequence(r) /\ Proper(r) /\ Fits(r)
           /\ Has(r, "id") /\ Value(r, "id") = n
<1>1. PICK path, argument :
        /\ argument \in Nat /\ FindCallable(path) \in Lambdas
        /\ r = OwnRequest(n, path, argument)
  BY DEF IsOwn
<1>2. /\ IsSequence(r) /\ DOMAIN r = {1, 2, 3, 4}
      /\ r[1].name = "jsonrpc" /\ r[2].name = "id" /\ r[3].name = "method"
      /\ r[4].name = "params"
      /\ r[1].value = "2.0" /\ r[2].value = n /\ r[3].value = path /\ r[4].value = argument
  BY <1>1 DEF OwnRequest, IsSequence
<1>3. NamesDiffer(r)
  BY <1>2 DEF NamesDiffer
<1>4. /\ Has(r, "jsonrpc") /\ Value(r, "jsonrpc") = "2.0"
      /\ Has(r, "id") /\ Value(r, "id") = n
      /\ Has(r, "method") /\ Value(r, "method") = path
      /\ Has(r, "params") /\ Value(r, "params") = argument
  BY <1>2, <1>3, ValueIs
<1>5. Names(r) = {"jsonrpc", "id", "method", "params"}
  BY <1>2 DEF Names
<1>6. Proper(r)
  BY <1>1, <1>3, <1>4, <1>5 DEF Proper, Version
<1>7. Fits(r)
  BY <1>1, <1>4 DEF Fits, AskedCall, Unfit
<1>8. QED
  BY <1>2, <1>4, <1>6, <1>7

LEMMA OwnAsks ==
    ASSUME NEW token, NEW path, NEW argument
    PROVE  AskedCall(OwnRequest(token, path, argument)) =
                [method |-> FindCallable(path), argument |-> argument]
<1> DEFINE r == OwnRequest(token, path, argument)
<1>1. /\ DOMAIN r = {1, 2, 3, 4}
      /\ r[1].name = "jsonrpc" /\ r[2].name = "id" /\ r[3].name = "method"
      /\ r[4].name = "params" /\ r[3].value = path /\ r[4].value = argument
  BY DEF OwnRequest
<1> HIDE DEF r
<1>2. NamesDiffer(r)
  BY <1>1 DEF NamesDiffer
<1>3. Value(r, "method") = path /\ Has(r, "params") /\ Value(r, "params") = argument
  BY <1>1, <1>2, ValueIs
<1>4. QED
  BY <1>3 DEF AskedCall, r

\* What the reader makes of the reply to its request.
LEMMA ReplyIsOwn ==
    ASSUME SentIInv, RepliesIInv, asking # NotAsking, AskedFor(asking.of),
           asking.of.token \in DOMAIN replies[Client]
    PROVE  ReadReply(asking.of.token) =
                IF asking.of.call.method \in Failing THEN Thrown ELSE asking.of.call
<1> DEFINE t == asking.of.token
           r == sent[Client][t]
<1>1. Client \in Clients /\ t \in DOMAIN sent[Client] /\ asking.of.call = AskedCall(r)
  BY DEF AskedFor, Client
<1>2. IsOwn(t, r)
  BY <1>1 DEF SentIInv
<1>3. replies[Client][t] = <<Expected(r)>>
  BY <1>1 DEF RepliesIInv
<1>4. Fits(r) /\ Value(r, "id") = t
  BY <1>2, OwnIs
<1> HIDE DEF r, t
<1>5. replies[Client][t][1] = Expected(r)
  BY <1>3
<1>6. /\ Expected(r)[1].value = t
      /\ AskedCall(r).method \notin Failing =>
            Expected(r)[2].name = "result" /\ Expected(r)[2].value = AskedCall(r)
      /\ AskedCall(r).method \in Failing => Expected(r)[2].name = "error"
  BY <1>4 DEF Expected, Member
<1>7. ReadReply(t) = IF AskedCall(r).method \notin Failing THEN AskedCall(r) ELSE Thrown
  BY <1>5, <1>6 DEF ReadReply
<1>8. QED
  BY <1>1, <1>7 DEF t
-----------------------------------------------------------------------------
LEMMA InitSound ==
    ASSUME Init
    PROVE  TreeIInv /\ ClientIInv /\ ServerIInv /\ ForeignIInv
<1>1. TreeIInv
  BY CallableTreeAssumption DEF Init, ClientInit, TreeInit, TreeIInv
<1>2. SentIInv /\ RepliesIInv
  <2>1. DOMAIN <<>> = {}
    OBVIOUS
  <2>2. QED
    BY <2>1, EmptyIs DEF Init, ClientInit, SentIInv, RepliesIInv
<1>3. OwnIInv /\ HttpIInv
  BY DEF Init, ClientInit, OwnIInv, HttpIInv
<1>4. FutureIInv
  BY DEF Init, ClientInit, FutureIInv, IsFuture, Empty, NotAsking
<1>5. OutcomeIsOwn
  BY DEF Init, ClientInit, OutcomeIsOwn
<1>6. ServerIInv
  BY DEF Init, ServerIInv
<1>7. ForeignIInv
  BY DEF Init, ForeignIInv, BeingAnswered, AnswersAsSpecified
<1>8. QED
  BY <1>1, <1>2, <1>3, <1>4, <1>5, <1>6, <1>7 DEF ClientIInv

\* What the client does is nothing to the server.
LEMMA ClientKept ==
    ASSUME ClientIInv, UNCHANGED <<connections, httpVars, appVars>>, OwnIInv'
    PROVE  ClientIInv'
<1>1. UNCHANGED <<sent, replies, lastTokenRead, kept, use, futures, asking, calls, outcomes>>
  BY DEF connections, httpVars, appVars
<1>2. SentIInv'
  BY <1>1 DEF ClientIInv, SentIInv
<1>3. RepliesIInv' /\ HttpIInv'
  BY <1>1 DEF ClientIInv, RepliesIInv, HttpIInv
<1>4. FutureIInv'
  BY <1>1 DEF ClientIInv, FutureIInv, IsFuture, AskedFor
<1>5. OutcomeIsOwn'
  BY <1>1 DEF ClientIInv, OutcomeIsOwn
<1>6. QED
  BY <1>2, <1>3, <1>4, <1>5 DEF ClientIInv

LEMMA ServerStep ==
    ASSUME TreeIInv, ClientIInv, ServerIInv, ForeignIInv, Server
    PROVE  TreeIInv' /\ ClientIInv' /\ ServerIInv'
<1>1. ASSUME NEW c \in Clients, Accept(c) PROVE TreeIInv' /\ ClientIInv' /\ ServerIInv'
  <2> DEFINE n == Len(replies[c]) + 1
             body == [kind |-> "object", requests |-> <<sent[c][n]>>]
  <2>1. UNCHANGED <<clientVars, executed, posted>> /\ Len(replies[c]) < Len(sent[c])
        /\ srv' = Post(c, body)
    BY <1>1 DEF Accept
  <2>2. n \in DOMAIN sent[c]
    BY <2>1, SequenceIs DEF ClientIInv, SentIInv, RepliesIInv
  <2>3. IsSequence(sent[c][n])
    BY <2>2, OwnIs DEF ClientIInv, SentIInv
  <2>4. IsSequence(body.requests) /\ body.requests # <<>> /\ DOMAIN body.requests = {1}
        /\ body.requests[1] = sent[c][n]
    BY OneIs, EmptyIs
  <2>5. /\ ServerIInv' /\ srv' # Idle /\ srv'.connection = c
        /\ srv'.body = body /\ srv'.out = <<>>
    BY <2>1, <2>3, <2>4, PostSound
  <2>6. OwnIInv'
    BY <2>1, <2>5 DEF OwnIInv, clientVars, connections
  <2>7. QED
    BY <2>1, <2>5, <2>6, ClientKept DEF clientVars, TreeIInv, treeVars, Rooted
<1>2. CASE AcceptForeign
  <2>1. UNCHANGED clientVars
    BY <1>2 DEF AcceptForeign
  <2>2. ServerIInv' /\ srv'.connection = Foreign
    BY <1>2, BodySequences, PostSound DEF AcceptForeign
  <2>3. OwnIInv'
    BY <2>2 DEF OwnIInv
  <2>4. QED
    BY <2>1, <2>2, <2>3, ClientKept DEF clientVars, TreeIInv, treeVars, Rooted
<1>3. CASE AcceptNothing
  <2>1. UNCHANGED clientVars /\ srv' = srv
    BY <1>3 DEF AcceptNothing, serverVars
  <2>2. OwnIInv' /\ ServerIInv'
    BY <2>1 DEF ClientIInv, OwnIInv, ServerIInv, Request, clientVars, connections
  <2>3. QED
    BY <2>1, <2>2, ClientKept DEF clientVars, TreeIInv, treeVars, Rooted
<1>4. CASE ReadMember /\ UNCHANGED <<clientVars, posted>>
  <2>1. ServerIInv' /\ srv # Idle /\ srv'.connection = srv.connection
        /\ srv'.body = srv.body /\ srv'.out = srv.out
    BY <1>4, ReadSound
  <2>2. OwnIInv'
    BY <1>4, <2>1 DEF ClientIInv, OwnIInv, clientVars, connections
  <2>3. QED
    BY <1>4, <2>1, <2>2, ClientKept DEF clientVars, TreeIInv, treeVars, Rooted
<1>5. CASE NextRequest /\ UNCHANGED <<clientVars, posted>>
  <2>1. ServerIInv' /\ srv'.connection = srv.connection
    BY <1>5, NextSound
  <2>2. srv # Idle /\ srv.number < Len(srv.body.requests)
    BY <1>5 DEF NextRequest, AllRead
  <2>3. srv.connection = Foreign
    <3>1. SUFFICES ASSUME srv.connection # Foreign PROVE FALSE
      OBVIOUS
    <3>2. PICK r : srv.body.requests = <<r>>
      BY <2>2, <3>1 DEF ClientIInv, OwnIInv
    <3>3. srv.number \in 1 .. 1 /\ Len(srv.body.requests) = 1
      BY <2>2, <3>2, OneIs, SequenceIs DEF ServerIInv
    <3>4. QED
      BY <2>2, <3>3
  <2>4. OwnIInv'
    BY <2>1, <2>3 DEF OwnIInv
  <2>5. QED
    BY <1>5, <2>1, <2>4, ClientKept DEF clientVars, TreeIInv, treeVars, Rooted
<1>6. CASE ReplyOwn
  <2> DEFINE c == srv.connection
             n == Len(replies[c]) + 1
             r == sent[c][n]
  <2>1. /\ srv # Idle /\ c \in Clients /\ c # Foreign
        /\ AllRead /\ srv' = Idle
        /\ replies' = [replies EXCEPT ![c] = Append(@, Response)]
        /\ UNCHANGED <<treeVars, sent, httpVars, appVars, posted>>
    BY <1>6, RemoteCallsAssumption DEF ReplyOwn, LastRequest
  <2>2. Len(replies[c]) < Len(sent[c]) /\ srv.body.requests = <<r>> /\ srv.out = <<>>
    BY <2>1 DEF ClientIInv, OwnIInv
  <2>3. /\ IsSequence(replies[c]) /\ IsSequence(sent[c]) /\ DOMAIN replies = Clients
        /\ \A m \in DOMAIN replies[c] : replies[c][m] = <<Expected(sent[c][m])>>
    BY <2>1 DEF ClientIInv, RepliesIInv, SentIInv
  <2>4. n \in DOMAIN sent[c]
    BY <2>2, <2>3, SequenceIs
  <2>5. Proper(r) /\ Has(r, "id")
    BY <2>1, <2>4, OwnIs DEF ClientIInv, SentIInv
  <2>6. Request = r
    <3>1. srv.number \in DOMAIN <<r>>
      BY <2>1, <2>2 DEF ServerIInv
    <3>2. srv.number = 1
      BY <3>1
    <3>3. QED
      BY <2>2, <3>2 DEF Request
  <2>7. Response = <<Expected(r)>>
    <3>1. Concluded(r, Completed(srv.state))
      BY <2>1, <2>6, AnswerSound
    <3>2. Response = Append(<<>>, Expected(r))
      BY <2>2, <2>5, <3>1 DEF Concluded, Response, Written
    <3>3. QED
      BY <3>2, AppendToEmpty
  <2> HIDE DEF r
  <2>8. /\ IsSequence(replies'[c]) /\ Len(replies'[c]) = n
        /\ replies'[c][n] = <<Expected(r)>>
        /\ \A m \in 1 .. Len(replies[c]) : replies'[c][m] = replies[c][m]
    BY <2>1, <2>3, <2>7, AppendIs
  <2>9. DOMAIN replies[c] = 1 .. Len(replies[c]) /\ DOMAIN replies'[c] = 1 .. n
        /\ Len(replies[c]) \in Nat
    BY <2>3, <2>8, SequenceIs
  <2>10. DOMAIN replies' = Clients /\ \A d \in Clients : d # c => replies'[d] = replies[d]
    BY <2>1, <2>3
  <2>11. Len(replies'[c]) <= Len(sent[c])
    BY <2>2, <2>3, <2>8, <2>9, SequenceIs
  <2>12. \A m \in DOMAIN replies'[c] : replies'[c][m] = <<Expected(sent[c][m])>>
    <3>1. \A m \in 1 .. n : m = n \/ m \in 1 .. Len(replies[c])
      BY <2>9
    <3>2. QED
      BY <2>3, <2>8, <2>9, <3>1 DEF r
  <2>13. RepliesIInv'
    BY <2>1, <2>8, <2>10, <2>11, <2>12 DEF ClientIInv, RepliesIInv
  <2>14. HttpIInv'
    <3>1. \A d \in Clients : DOMAIN replies[d] \subseteq DOMAIN replies'[d]
      BY <2>9, <2>10
    <3>2. UNCHANGED <<lastTokenRead, kept>>
      BY <2>1 DEF httpVars
    <3>3. QED
      BY <3>1, <3>2 DEF ClientIInv, HttpIInv
  <2>15. SentIInv' /\ FutureIInv' /\ OutcomeIsOwn'
    BY <2>1 DEF ClientIInv, SentIInv, FutureIInv, IsFuture, AskedFor, OutcomeIsOwn, appVars
  <2>16. OwnIInv' /\ ServerIInv'
    BY <2>1 DEF OwnIInv, ServerIInv
  <2>17. TreeIInv'
    BY <2>1 DEF TreeIInv, treeVars, Rooted
  <2>18. QED
    BY <2>13, <2>14, <2>15, <2>16, <2>17 DEF ClientIInv
<1>7. CASE ReplyForeign
  <2>1. UNCHANGED clientVars /\ srv' = Idle
    BY <1>7 DEF ReplyForeign, LastRequest
  <2>2. OwnIInv' /\ ServerIInv'
    BY <2>1 DEF OwnIInv, ServerIInv
  <2>3. QED
    BY <2>1, <2>2, ClientKept DEF clientVars, TreeIInv, treeVars, Rooted
<1>8. QED
  BY <1>1, <1>2, <1>3, <1>4, <1>5, <1>6, <1>7 DEF Server
-----------------------------------------------------------------------------
(***************************************************************************)
(* What the program does.                                                  *)
(***************************************************************************)
LEMMA BindStep ==
    ASSUME TreeIInv, SentIInv, NEW c \in use.clients, Bind(c)
    PROVE  TreeIInv'
<1>1. c \in Clients
  BY RemoteCallsAssumption DEF SentIInv
<1>2. responder' = [responder EXCEPT ![Root] = c] /\ attached' = attached
  BY DEF Bind, SetResponder
<1>3. Rooted(Root)
  BY RootedStep
<1>4. \A d \in Callables : Rooted(d) => Rooted(d)'
  BY <1>2 DEF Rooted
<1>5. Root \in Callables
  BY CallableTreeAssumption
<1>6. \A d \in Callables : responder'[d] # NoClient => Rooted(d)'
  BY <1>2, <1>3, <1>4, <1>5 DEF TreeIInv
<1>7. QED
  BY <1>1, <1>2, <1>6 DEF TreeIInv

LEMMA AddStep ==
    ASSUME TreeIInv, NEW c \in Callables, AddCallable(c)
    PROVE  TreeIInv'
<1>1. /\ c \in Callables \ (attached \union {Root})
      /\ attached' = attached \union {c}
      /\ responder' = [responder EXCEPT ![c] = responder[Parent[c]]]
  BY DEF AddCallable, Add
<1>2. Parent[c] \in Callables
  BY <1>1, CallableTreeAssumption
<1>3. \A d \in Callables : Rooted(d) => Rooted(d)'
  BY <1>1 DEF Rooted
<1>4. ASSUME Rooted(Parent[c]) PROVE Rooted(c)'
  <2>1. PICK S \in SUBSET Callables :
          Parent[c] \in S /\ \A d \in S \ {Root} : d \in attached /\ Parent[d] \in S
    BY <1>4 DEF Rooted
  <2>2. S \union {c} \in SUBSET Callables
    OBVIOUS
  <2>3. \A d \in (S \union {c}) \ {Root} : d \in attached' /\ Parent[d] \in S \union {c}
    BY <1>1, <2>1
  <2>4. QED
    BY <2>2, <2>3 DEF Rooted
<1>5. \A d \in Callables : responder'[d] # NoClient => Rooted(d)'
  BY <1>1, <1>2, <1>3, <1>4 DEF TreeIInv
<1>6. responder' \in [Callables -> Clients \union {NoClient}]
  BY <1>1, <1>2 DEF TreeIInv
<1>7. QED
  BY <1>1, <1>5, <1>6 DEF TreeIInv

\* What was sent before is not changed.
SentKept ==
    \A c \in Clients : /\ DOMAIN sent[c] \subseteq DOMAIN sent'[c]
                       /\ Len(sent[c]) <= Len(sent'[c])
                       /\ \A n \in DOMAIN sent[c] : sent'[c][n] = sent[c][n]

\* A call: the request is its own, and its responder and token are those of the future.
LEMMA SentStep ==
    ASSUME TreeIInv, SentIInv, NEW m \in use.functions, Sent(m),
           attached' = attached, use' = use
    PROVE  /\ TreeIInv' /\ SentIInv' /\ SentKept
           /\ \A made : made = Made(m) =>
                /\ DOMAIN made = {"reader", "responder", "token", "value", "call"}
                /\ AskedFor(made)'
<1>1. m \in Lambdas /\ m \in Callables
  BY RemoteCallsAssumption, CallableTreeAssumption DEF SentIInv
<1>2. HasResponder(m) /\ responder' = Remembered(m) /\ calls' = calls + 1
  BY DEF Sent
<1>3. /\ GetResponder(m) \in Clients /\ PathSound(m)
      /\ Remembered(m) \in [Callables -> Clients \union {NoClient}]
      /\ \A c \in Callables : Remembered(m)[c] # NoClient => Rooted(c)
  BY <1>1, <1>2, BoundSound DEF TreeIInv
<1>4. TreeIInv'
  <2>1. \A d \in Callables : Rooted(d) => Rooted(d)'
    BY DEF Rooted
  <2>2. QED
    BY <1>2, <1>3, <2>1 DEF TreeIInv
<1>5. PICK c, path, n : c = GetResponder(m) /\ path = ConstructPath(m) /\ n = Len(sent[c]) + 1
  OBVIOUS
<1>6. c \in Clients /\ FindCallable(path) = m
  BY <1>3, <1>5 DEF PathSound
<1>7. IsSequence(sent[c]) /\ DOMAIN sent = Clients /\ calls \in Nat
      /\ \A i \in DOMAIN sent[c] : IsOwn(i, sent[c][i])
  BY <1>6 DEF SentIInv
<1>8. PICK r : r = OwnRequest(n, path, calls + 1)
  OBVIOUS
<1>9. sent' = [sent EXCEPT ![c] = Append(@, r)]
  BY <1>5, <1>8 DEF Sent, RequestOf, OwnRequest
<1>10. /\ IsSequence(sent'[c]) /\ Len(sent'[c]) = n
       /\ \A i \in 1 .. Len(sent[c]) : sent'[c][i] = sent[c][i]
       /\ sent'[c][n] = r
  BY <1>5, <1>6, <1>7, <1>9, AppendIs
<1>11. /\ DOMAIN sent[c] = 1 .. Len(sent[c]) /\ DOMAIN sent'[c] = 1 .. n
       /\ Len(sent[c]) \in Nat
  BY <1>7, <1>10, SequenceIs
<1>12. DOMAIN sent' = Clients /\ \A d \in Clients : d # c => sent'[d] = sent[d]
  BY <1>7, <1>9
<1>13. SentKept
  <2>1. /\ 1 .. Len(sent[c]) \subseteq 1 .. n
        /\ Len(sent[c]) <= n
    BY <1>5, <1>11
  <2>2. \A d \in Clients : Len(sent[d]) <= Len(sent[d])
    BY SequenceIs DEF SentIInv
  <2>3. QED
    BY <1>10, <1>11, <1>12, <2>1, <2>2 DEF SentKept
<1>14. IsOwn(n, r)
  BY <1>1, <1>6, <1>7, <1>8 DEF IsOwn
<1>15. SentIInv'
  <2>1. \A i \in 1 .. n : i = n \/ i \in 1 .. Len(sent[c])
    BY <1>5, <1>11
  <2>2. \A i \in DOMAIN sent'[c] : IsOwn(i, sent'[c][i])
    BY <1>7, <1>10, <1>11, <1>14, <2>1
  <2>3. calls' \in Nat
    BY <1>2, <1>7
  <2>4. QED
    BY <1>10, <1>12, <2>2, <2>3 DEF SentIInv
<1>16. ASSUME NEW made, made = Made(m)
       PROVE  /\ DOMAIN made = {"reader", "responder", "token", "value", "call"}
              /\ AskedFor(made)'
  <2>1. /\ DOMAIN made = {"reader", "responder", "token", "value", "call"}
        /\ made.responder = c /\ made.token = n
        /\ made.call = [method |-> m, argument |-> calls + 1]
    BY <1>5, <1>16 DEF Made
  <2>2. AskedCall(r) = [method |-> m, argument |-> calls + 1]
    BY <1>6, <1>8, OwnAsks
  <2>3. n \in DOMAIN sent'[c]
    BY <1>5, <1>11
  <2>4. QED
    BY <1>6, <1>10, <2>1, <2>2, <2>3 DEF AskedFor
<1>17. QED
  BY <1>4, <1>13, <1>15, <1>16

\* Everything else still refers to the same requests.
LEMMA SentOthers ==
    ASSUME SentKept, RepliesIInv, HttpIInv, OwnIInv, ServerIInv, SentIInv, SentIInv',
           UNCHANGED <<replies, httpVars, serverVars>>
    PROVE  /\ RepliesIInv' /\ HttpIInv' /\ OwnIInv'
           /\ \A x : AskedFor(x) => AskedFor(x)'
           /\ \A x : IsFuture(x) => IsFuture(x)'
<1>1. \A x : AskedFor(x) => AskedFor(x)'
  BY DEF AskedFor, SentKept
<1>2. \A x : IsFuture(x) => IsFuture(x)'
  BY <1>1 DEF IsFuture
<1>3. RepliesIInv'
  <2>1. ASSUME NEW c \in Clients
        PROVE  /\ Len(replies[c]) <= Len(sent'[c])
               /\ \A n \in DOMAIN replies[c] : n \in DOMAIN sent[c]
    <3>1. /\ Len(replies[c]) \in Nat /\ Len(sent[c]) \in Nat /\ Len(sent'[c]) \in Nat
          /\ DOMAIN replies[c] = 1 .. Len(replies[c]) /\ DOMAIN sent[c] = 1 .. Len(sent[c])
      BY SequenceIs DEF RepliesIInv, SentIInv
    <3>2. Len(replies[c]) <= Len(sent[c]) /\ Len(sent[c]) <= Len(sent'[c])
      BY DEF RepliesIInv, SentKept
    <3>3. QED
      BY <3>1, <3>2
  <2>2. QED
    BY <2>1 DEF RepliesIInv, SentKept
<1>4. HttpIInv'
  BY DEF HttpIInv, httpVars
<1>5. OwnIInv'
  <2> SUFFICES ASSUME srv # Idle, srv.connection # Foreign
               PROVE  /\ Len(replies[srv.connection]) < Len(sent'[srv.connection])
                      /\ srv.body.requests =
                            <<sent'[srv.connection][Len(replies[srv.connection]) + 1]>>
                      /\ srv.out = <<>>
    BY DEF OwnIInv, serverVars
  <2> DEFINE c == srv.connection
             n == Len(replies[c]) + 1
  <2>1. c \in Clients
    BY DEF ServerIInv
  <2>2. Len(replies[c]) < Len(sent[c]) /\ srv.body.requests = <<sent[c][n]>> /\ srv.out = <<>>
    BY DEF OwnIInv
  <2>3. /\ Len(replies[c]) \in Nat /\ Len(sent[c]) \in Nat /\ Len(sent'[c]) \in Nat
        /\ DOMAIN sent[c] = 1 .. Len(sent[c])
    BY <2>1, SequenceIs DEF RepliesIInv, SentIInv
  <2>4. Len(sent[c]) <= Len(sent'[c]) /\ \A i \in DOMAIN sent[c] : sent'[c][i] = sent[c][i]
    BY <2>1 DEF SentKept
  <2>5. n \in DOMAIN sent[c]
    BY <2>2, <2>3
  <2>6. Len(replies[c]) < Len(sent'[c])
    BY <2>2, <2>3, <2>4
  <2>7. QED
    BY <2>2, <2>4, <2>5, <2>6
<1>6. QED
  BY <1>1, <1>2, <1>3, <1>4, <1>5

LEMMA CallStep ==
    ASSUME TreeIInv, ClientIInv, ServerIInv, NEW m \in use.functions,
           CallNow(m) \/ \E f \in Futures : Async(m, f),
           UNCHANGED serverVars
    PROVE  TreeIInv' /\ ClientIInv'
<1>1. Sent(m) /\ UNCHANGED <<attached, replies, httpVars, use, outcomes>>
  BY DEF CallNow, Async
<1>2. /\ TreeIInv' /\ SentIInv' /\ SentKept
      /\ \A made : made = Made(m) =>
            /\ DOMAIN made = {"reader", "responder", "token", "value", "call"}
            /\ AskedFor(made)'
  BY <1>1, SentStep DEF ClientIInv
<1>3. PICK made : made = Made(m)
  OBVIOUS
<1>4. IsFuture(made)' /\ AskedFor(made)'
  BY <1>2, <1>3 DEF IsFuture
<1>5. /\ RepliesIInv' /\ HttpIInv' /\ OwnIInv'
      /\ \A x : AskedFor(x) => AskedFor(x)'
      /\ \A x : IsFuture(x) => IsFuture(x)'
  BY <1>1, <1>2, SentOthers DEF ClientIInv
<1>6. OutcomeIsOwn'
  BY <1>1 DEF ClientIInv, OutcomeIsOwn
<1>7. \A x : x \in Futures => IsFuture(futures[x])'
  <2>1. ASSUME NEW f \in Futures, NEW x, x = futures'[f] PROVE IsFuture(x)'
    <3>1. x = futures[f] \/ x = made
      BY <1>3, <2>1 DEF CallNow, Async, ClientIInv, FutureIInv
    <3>2. IsFuture(futures[f])
      BY DEF ClientIInv, FutureIInv
    <3>3. QED
      BY <1>4, <1>5, <2>1, <3>1, <3>2
  <2>2. QED
    BY <2>1 DEF IsFuture, AskedFor
<1>8. DOMAIN futures' = Futures
  BY DEF CallNow, Async, ClientIInv, FutureIInv
<1>9. CASE CallNow(m)
  <2>1. asking' = [op |-> "call", future |-> NoFuture, other |-> NoFuture, of |-> made]
    BY <1>3, <1>9 DEF CallNow
  <2>2. asking'.of = made /\ asking'.op = "call"
    BY <2>1
  <2>3. AskedFor(asking.of)'
    BY <1>4, <2>2 DEF AskedFor
  <2>4. FutureIInv'
    BY <1>7, <1>8, <2>2, <2>3 DEF FutureIInv
  <2>5. QED
    BY <1>2, <1>5, <1>6, <2>4 DEF ClientIInv
<1>10. CASE \E f \in Futures : Async(m, f)
  <2>1. asking' = asking
    BY <1>10 DEF Async
  <2>2. PICK x : x = asking.of
    OBVIOUS
  <2>3. asking # NotAsking => AskedFor(x)
    BY <2>2 DEF ClientIInv, FutureIInv
  <2>4. asking' # NotAsking => AskedFor(asking.of)'
    BY <1>5, <2>1, <2>2, <2>3 DEF AskedFor
  <2>5. FutureIInv'
    BY <1>7, <1>8, <2>1, <2>4 DEF ClientIInv, FutureIInv
  <2>6. QED
    BY <1>2, <1>5, <1>6, <2>5 DEF ClientIInv
<1>11. QED
  BY <1>9, <1>10

LEMMA AskStep ==
    ASSUME ClientIInv, UNCHANGED serverVars,
           NEW op \in {"get", "has", "assign", "drop"}, NEW f \in Futures, NEW g,
           Ask(op, f, g),
           op = "assign" => g \in Futures
    PROVE  ClientIInv'
<1>1. /\ UNCHANGED <<treeVars, connections, httpVars, use, futures, calls, outcomes>>
      /\ asking' = [op |-> op, future |-> f, other |-> g, of |-> futures[f]]
      /\ futures[f].responder # NoClient
  BY DEF Ask, Pending
<1>2. SentIInv' /\ RepliesIInv' /\ HttpIInv' /\ OwnIInv' /\ OutcomeIsOwn'
  BY <1>1 DEF ClientIInv, SentIInv, RepliesIInv, HttpIInv, OwnIInv, OutcomeIsOwn,
              connections, httpVars, serverVars
<1>3. AskedFor(futures[f])
  BY <1>1 DEF ClientIInv, FutureIInv, IsFuture
<1>4. asking'.of = futures[f] /\ asking'.op = op /\ asking'.future = f /\ asking'.other = g
  BY <1>1
<1>5. FutureIInv'
  BY <1>1, <1>3, <1>4 DEF ClientIInv, FutureIInv, IsFuture, AskedFor, connections
<1>6. QED
  BY <1>2, <1>5 DEF ClientIInv

\* Assignments exchange whole futures, so each keeps its own call.
LEMMA ExchangedSound ==
    ASSUME NEW all, DOMAIN all = Futures, \A f \in Futures : IsFuture(all[f]),
           NEW f \in Futures, NEW g \in Futures
    PROVE  /\ DOMAIN Exchanged(all, f, g) = Futures
           /\ \A h \in Futures : IsFuture(Exchanged(all, f, g)[h])
<1> DEFINE new == Exchanged(all, f, g)
<1>1. DOMAIN new = Futures
  BY DEF Exchanged
<1>2. ASSUME NEW h \in Futures PROVE new[h] \in {all[f], all[g], all[h]}
  BY DEF Exchanged
<1> HIDE DEF new
<1>3. ASSUME NEW h \in Futures PROVE IsFuture(new[h])
  <2>1. IsFuture(all[f]) /\ IsFuture(all[g]) /\ IsFuture(all[h])
    OBVIOUS
  <2>2. QED
    BY <1>2, <2>1
<1>4. QED
  BY <1>1, <1>3 DEF new

LEMMA EmptyFuture == IsFuture(Empty)
BY DEF IsFuture, Empty

\* Whatever a future becomes in a step that sends nothing.
LEMMA FuturesStep ==
    ASSUME ClientIInv, UNCHANGED serverVars,
           UNCHANGED <<treeVars, connections, httpVars, use, asking, calls, outcomes>>,
           DOMAIN futures' = Futures, \A f \in Futures : IsFuture(futures'[f])
    PROVE  ClientIInv'
<1>1. SentIInv' /\ RepliesIInv' /\ HttpIInv' /\ OwnIInv' /\ OutcomeIsOwn'
  BY DEF ClientIInv, SentIInv, RepliesIInv, HttpIInv, OwnIInv, OutcomeIsOwn,
         connections, httpVars, serverVars
<1>2. FutureIInv'
  BY DEF ClientIInv, FutureIInv, IsFuture, AskedFor, connections
<1>3. QED
  BY <1>1, <1>2 DEF ClientIInv

\* What is left of a future whose response was read.
LEMMA FinishedStep ==
    ASSUME ClientIInv, UNCHANGED serverVars, asking # NotAsking,
           asking.of.token \in DOMAIN replies[Client], Finished
    PROVE  SentIInv' /\ RepliesIInv' /\ OwnIInv' /\ FutureIInv' /\ OutcomeIsOwn'
<1>1. /\ asking' = NotAsking
      /\ outcomes' = IF asking.op = "has" THEN outcomes
                     ELSE outcomes \union {[call |-> asking.of.call, came |-> Outcome]}
      /\ UNCHANGED <<treeVars, connections, use, calls, polls>>
  BY DEF Finished
<1>2. SentIInv' /\ RepliesIInv' /\ OwnIInv'
  BY <1>1 DEF ClientIInv, SentIInv, RepliesIInv, OwnIInv, connections, serverVars
<1>3. OutcomeIsOwn'
  <2>1. CASE asking.op = "has"
    BY <1>1, <2>1 DEF ClientIInv, OutcomeIsOwn
  <2>2. CASE asking.op # "has"
    <3>1. Outcome = IF asking.of.call.method \in Failing THEN Thrown ELSE asking.of.call
      BY <2>2, ReplyIsOwn DEF ClientIInv, FutureIInv, Outcome
    <3>2. QED
      BY <1>1, <2>2, <3>1 DEF ClientIInv, OutcomeIsOwn
  <2>3. QED
    BY <2>1, <2>2
<1>4. DOMAIN futures = Futures /\ \A h \in Futures : IsFuture(futures[h])
  BY DEF ClientIInv, FutureIInv
<1>5. DOMAIN futures' = Futures /\ \A h \in Futures : IsFuture(futures'[h])
  <2> DEFINE f == asking.future
  <2>1. CASE Outcome = Thrown \/ asking.op \in {"has", "call"}
    <3>1. futures' = futures
      BY <2>1 DEF Finished
    <3>2. QED
      BY <1>4, <3>1
  <2>2. CASE ~(Outcome = Thrown \/ asking.op \in {"has", "call"}) /\ asking.op = "get"
    <3>1. futures' = [futures EXCEPT ![f].value = <<Outcome>>]
      BY <2>2 DEF Finished
    <3>2. ASSUME NEW h \in Futures
          PROVE  /\ DOMAIN futures'[h] = DOMAIN futures[h]
                 /\ futures'[h].responder = futures[h].responder
                 /\ futures'[h].token = futures[h].token
                 /\ futures'[h].call = futures[h].call
      BY <1>4, <3>1 DEF IsFuture
    <3>3. DOMAIN futures' = Futures
      BY <1>4, <3>1
    <3>4. QED
      BY <1>4, <3>2, <3>3 DEF IsFuture, AskedFor
  <2>3. CASE ~(Outcome = Thrown \/ asking.op \in {"has", "call"}) /\ asking.op = "assign"
    <3>1. PICK all : all = [futures EXCEPT ![f].reader = NoCallable]
      OBVIOUS
    <3>2. futures' = Exchanged(all, f, asking.other)
      BY <2>3, <3>1 DEF Finished
    <3>3. f \in Futures /\ asking.other \in Futures
      BY <2>3 DEF ClientIInv, FutureIInv
    <3>4. ASSUME NEW h \in Futures
          PROVE  /\ DOMAIN all[h] = DOMAIN futures[h]
                 /\ all[h].responder = futures[h].responder
                 /\ all[h].token = futures[h].token
                 /\ all[h].call = futures[h].call
      BY <1>4, <3>1 DEF IsFuture
    <3>5. DOMAIN all = Futures
      BY <1>4, <3>1
    <3>6. \A h \in Futures : IsFuture(all[h])
      BY <1>4, <3>4 DEF IsFuture, AskedFor
    <3>7. QED
      BY <3>2, <3>3, <3>5, <3>6, ExchangedSound
  <2>4. CASE ~(Outcome = Thrown \/ asking.op \in {"has", "call"}) /\ asking.op = "drop"
    <3>1. futures' = Dropped(f)
      BY <2>4 DEF Finished
    <3>2. \A h \in Futures : futures'[h] \in {futures[h], Empty}
      BY <1>4, <3>1 DEF Dropped
    <3>3. DOMAIN futures' = Futures
      BY <1>4, <3>1 DEF Dropped
    <3>4. QED
      BY <1>4, <3>2, <3>3, EmptyFuture
  <2>5. asking.op \in {"call", "get", "has", "assign", "drop"}
    BY DEF ClientIInv, FutureIInv
  <2>6. QED
    BY <2>1, <2>2, <2>3, <2>4, <2>5
<1>6. FutureIInv'
  BY <1>1, <1>5 DEF FutureIInv, IsFuture, AskedFor, NotAsking, connections
<1>7. QED
  BY <1>2, <1>3, <1>6

LEMMA WaitStep ==
    ASSUME ClientIInv, UNCHANGED serverVars, asking # NotAsking, Wait
    PROVE  ClientIInv'
<1> DEFINE t == asking.of.token
           c == Client
<1>1. c \in Clients /\ DOMAIN replies[c] = 1 .. Len(replies[c]) /\ Len(replies[c]) \in Nat
  BY SequenceIs DEF ClientIInv, FutureIInv, AskedFor, RepliesIInv, Client
<1>2. lastTokenRead[c] \in Nat /\ DOMAIN kept = Clients /\ kept[c] \subseteq DOMAIN replies[c]
  BY <1>1 DEF ClientIInv, HttpIInv
<1>3. CASE FindKept
  <2>1. t \in DOMAIN replies[c] /\ Finished /\ UNCHANGED httpVars
    BY <1>2, <1>3 DEF FindKept, IsKept
  <2>2. SentIInv' /\ RepliesIInv' /\ OwnIInv' /\ FutureIInv' /\ OutcomeIsOwn'
    BY <2>1, FinishedStep
  <2>3. HttpIInv'
    BY <2>1 DEF ClientIInv, HttpIInv, httpVars, Finished, connections
  <2>4. QED
    BY <2>2, <2>3 DEF ClientIInv
<1>4. ASSUME NEW n \in 1 .. Len(replies[c]), KeepOthers(n) PROVE ClientIInv'
  <2>1. /\ UNCHANGED <<treeVars, connections, appVars>>
        /\ kept' = [kept EXCEPT ![c] = @ \union (lastTokenRead[c] + 1 .. n)]
        /\ lastTokenRead' = [lastTokenRead EXCEPT ![c] = n]
    BY <1>4 DEF KeepOthers
  <2>2. SentIInv' /\ RepliesIInv' /\ OwnIInv' /\ FutureIInv' /\ OutcomeIsOwn'
    BY <2>1 DEF ClientIInv, SentIInv, RepliesIInv, OwnIInv, FutureIInv, IsFuture, AskedFor,
                OutcomeIsOwn, connections, appVars, serverVars
  <2>3. lastTokenRead[c] + 1 .. n \subseteq DOMAIN replies[c] /\ n \in Nat
    BY <1>1, <1>2
  <2>4. HttpIInv'
    BY <1>1, <2>1, <2>3 DEF ClientIInv, HttpIInv, connections
  <2>5. QED
    BY <2>2, <2>4 DEF ClientIInv
<1>5. ASSUME NEW n \in 1 .. Len(replies[c]), TakeReply(n) PROVE ClientIInv'
  <2>1. t \in lastTokenRead[c] + 1 .. n /\ Finished
    BY <1>5 DEF TakeReply, Sought
  <2>2. t \in DOMAIN replies[c] /\ t \in Nat \ {0}
    BY <1>1, <1>2, <2>1
  <2>3. SentIInv' /\ RepliesIInv' /\ OwnIInv' /\ FutureIInv' /\ OutcomeIsOwn'
    BY <2>1, <2>2, FinishedStep
  <2>4. PICK last : /\ last \in {t - 1, n}
                    /\ lastTokenRead' = [lastTokenRead EXCEPT ![c] = last]
                    /\ kept' = [kept EXCEPT ![c] =
                            @ \union ((lastTokenRead[c] + 1 .. last) \ {t})]
    BY <1>5 DEF TakeReply
  <2>5. last \in Nat /\ lastTokenRead[c] + 1 .. last \subseteq DOMAIN replies[c]
    BY <1>1, <1>2, <2>1, <2>2, <2>4
  <2>6. replies' = replies
    BY <2>1 DEF Finished, connections
  <2>7. HttpIInv'
    BY <1>1, <2>4, <2>5, <2>6 DEF ClientIInv, HttpIInv
  <2>8. QED
    BY <2>3, <2>7 DEF ClientIInv
<1>6. QED
  BY <1>3, <1>4, <1>5 DEF Wait

LEMMA UseStep ==
    ASSUME TreeIInv, ClientIInv, ServerIInv, UNCHANGED serverVars, Use
    PROVE  TreeIInv' /\ ClientIInv'
<1>1. ASSUME NEW c \in use.clients, Bind(c) PROVE TreeIInv' /\ ClientIInv'
  <2>1. TreeIInv'
    BY <1>1, BindStep DEF ClientIInv
  <2>2. UNCHANGED <<connections, httpVars, appVars>>
    BY <1>1 DEF Bind
  <2>3. OwnIInv'
    BY <2>2 DEF ClientIInv, OwnIInv, connections, serverVars
  <2>4. QED
    BY <2>1, <2>2, <2>3, ClientKept
<1>2. ASSUME NEW c \in Callables, AddCallable(c) PROVE TreeIInv' /\ ClientIInv'
  <2>1. TreeIInv'
    BY <1>2, AddStep
  <2>2. UNCHANGED <<connections, httpVars, appVars>>
    BY <1>2 DEF AddCallable
  <2>3. OwnIInv'
    BY <2>2 DEF ClientIInv, OwnIInv, connections, serverVars
  <2>4. QED
    BY <2>1, <2>2, <2>3, ClientKept
<1>3. ASSUME NEW m \in use.functions, CallNow(m) \/ \E f \in Futures : Async(m, f)
      PROVE  TreeIInv' /\ ClientIInv'
  BY <1>3, CallStep
<1>4. ASSUME UNCHANGED treeVars PROVE TreeIInv'
  BY <1>4 DEF TreeIInv, treeVars, Rooted
<1>5. ASSUME NEW f \in Futures, Get(f) \/ IsReady(f) \/ DropPending(f)
      PROVE  TreeIInv' /\ ClientIInv'
  <2>1. PICK op \in {"get", "has", "assign", "drop"} : Ask(op, f, NoFuture) /\ op # "assign"
    BY <1>5 DEF Get, IsReady, DropPending
  <2>2. UNCHANGED treeVars
    BY <2>1 DEF Ask
  <2>3. QED
    BY <1>4, <2>1, <2>2, AskStep
<1>6. ASSUME NEW f \in Futures, NEW g \in Futures, AssignPending(f, g)
      PROVE  TreeIInv' /\ ClientIInv'
  <2>1. Ask("assign", f, g)
    BY <1>6 DEF AssignPending
  <2>2. UNCHANGED treeVars
    BY <2>1 DEF Ask
  <2>3. QED
    BY <1>4, <2>1, <2>2, AskStep
<1>7. DOMAIN futures = Futures /\ \A h \in Futures : IsFuture(futures[h])
  BY DEF ClientIInv, FutureIInv
<1>8. ASSUME NEW f \in Futures, NEW g \in Futures, Assign(f, g)
      PROVE  TreeIInv' /\ ClientIInv'
  <2>1. /\ UNCHANGED <<treeVars, connections, httpVars, use, asking, calls, outcomes>>
        /\ futures' = Exchanged(futures, f, g)
    BY <1>8 DEF Assign
  <2>2. DOMAIN futures' = Futures /\ \A h \in Futures : IsFuture(futures'[h])
    BY <1>7, <2>1, ExchangedSound
  <2>3. QED
    BY <1>4, <2>1, <2>2, FuturesStep
<1>9. ASSUME NEW f \in Futures, Drop(f) PROVE TreeIInv' /\ ClientIInv'
  <2>1. /\ UNCHANGED <<treeVars, connections, httpVars, use, asking, calls, outcomes>>
        /\ futures' = [futures EXCEPT ![f] = Empty]
    BY <1>9 DEF Drop, Dropped
  <2>2. DOMAIN futures' = Futures /\ \A h \in Futures : futures'[h] \in {futures[h], Empty}
    BY <1>7, <2>1
  <2>3. \A h \in Futures : IsFuture(futures'[h])
    BY <1>7, <2>2, EmptyFuture
  <2>4. QED
    BY <1>4, <2>1, <2>2, <2>3, FuturesStep
<1>10. ASSUME NEW f \in Futures, UseWithoutReader(f) PROVE TreeIInv' /\ ClientIInv'
  <2>1. UNCHANGED <<treeVars, connections, httpVars, use, futures, asking, calls, outcomes>>
    BY <1>10 DEF UseWithoutReader
  <2>2. QED
    BY <1>4, <1>7, <2>1, FuturesStep
<1>11. QED
  BY <1>1, <1>2, <1>3, <1>5, <1>6, <1>8, <1>9, <1>10 DEF Use
-----------------------------------------------------------------------------
(***************************************************************************)
(* All together.                                                           *)
(***************************************************************************)
IInv == TreeIInv /\ ClientIInv /\ ServerIInv /\ ForeignIInv

LEMMA Step ==
    ASSUME IInv, [Next]_vars
    PROVE  IInv'
<1>1. ForeignIInv'
  BY ForeignStep DEF IInv
<1>2. CASE Server
  BY <1>1, <1>2, ServerStep DEF IInv
<1>3. ASSUME UNCHANGED serverVars PROVE ServerIInv'
  BY <1>3 DEF IInv, ServerIInv, serverVars, Request
<1>4. ASSUME UNCHANGED clientVars, UNCHANGED serverVars PROVE TreeIInv' /\ ClientIInv'
  <2>1. OwnIInv'
    BY <1>4 DEF IInv, ClientIInv, OwnIInv, clientVars, connections, serverVars
  <2>2. QED
    BY <1>4, <2>1, ClientKept DEF IInv, TreeIInv, clientVars, treeVars, Rooted
<1>5. CASE OwnUse /\ App /\ UNCHANGED <<serverVars, posted>>
  <2>1. CASE Use
    BY <1>1, <1>3, <1>5, <2>1, UseStep DEF IInv
  <2>2. CASE asking # NotAsking /\ Wait
    <3>1. UNCHANGED treeVars
      BY <2>2 DEF Wait, FindKept, KeepOthers, TakeReply, Finished
    <3>2. TreeIInv'
      BY <3>1 DEF IInv, TreeIInv, treeVars, Rooted
    <3>3. QED
      BY <1>1, <1>3, <1>5, <2>2, <3>2, WaitStep DEF IInv
  <2>3. QED
    BY <1>5, <2>1, <2>2 DEF App
<1>6. CASE UNCHANGED vars
  BY <1>1, <1>3, <1>4, <1>6 DEF IInv, vars
<1>7. QED
  BY <1>2, <1>5, <1>6 DEF Next

\* The server and the clients keep what the two properties rest on: the members of a
\* request that were read (respondInternal()), the requests and replies of each
\* connection, the tokens of the futures, and the way of what has a responder.
THEOREM RemoteCallsInvariant == Spec => []IInv
<1>1. Init => IInv
  BY InitSound DEF IInv
<1>2. IInv /\ [Next]_vars => IInv'
  BY Step
<1>3. QED
  BY <1>1, <1>2, PTL DEF Spec

\* Whatever is read of a response, and by whatever future it is now, is what came of the
\* call the program made (Future::operator=(), the tokens, the ids and the paths).
THEOREM OutcomesAreOwn == Spec => []OutcomeIsOwn
<1>1. IInv => OutcomeIsOwn
  BY DEF IInv, ClientIInv
<1>2. QED
  BY <1>1, RemoteCallsInvariant, PTL

\* Every request of an array is executed and answered as it asks for, in whatever order
\* its members come, whatever is wrong with the others (the loop of respondInternal()).
THEOREM RequestsAreAnswered == Spec => []AnswersAsSpecified
<1>1. IInv => AnswersAsSpecified
  BY DEF IInv, ForeignIInv
<1>2. QED
  BY <1>1, RemoteCallsInvariant, PTL
=============================================================================
