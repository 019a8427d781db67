------------------------- MODULE FileServers_proof --------------------------
(***************************************************************************)
(* Proofs about FileServers, for every folder, any number of threads and   *)
(* of changes to the folder, and however often the cache is loaded.        *)
(***************************************************************************)
EXTENDS FileServers, SequenceTheorems, TLAPS

-----------------------------------------------------------------------------
(***************************************************************************)
(* The inductive invariant.  What is sent stays as it is only because the  *)
(* cache does not change meanwhile, which is what the lock is for; what    *)
(* the cache has when the lock is released again is what was put into it   *)
(* while it was held.                                                      *)
(***************************************************************************)
MapTo(map, paths) == DOMAIN map \subseteq paths /\ map \in [DOMAIN map -> Seq(Int)]

LoaderStates ==
    {Idle} \union [does : {"reload", "reset"}]
           \union [does : {"files", "modifiers"}, left : SUBSET Paths, applied : Nat]
           \union [does : {"reading"}, left : SUBSET Paths, applied : Nat, name : Paths,
                   opened : Nat, contents : Seq(Int)]

TypeInv ==
    /\ MapTo(disk, Files)
    /\ MapTo(cache, Paths)
    /\ version \in Nat
    /\ modifiers \in Seq(Generated)
    /\ loaded \in [paths : SUBSET Paths, whole : BOOLEAN]
    /\ loader \in LoaderStates

SendingStates ==
    [does : {"sendingCached"}, path : Paths, announced : Nat, body : Seq(Int)]

\* Of a thread no more is needed than that it says what it does.
ThreadInv ==
    /\ thread = [t \in Threads |-> thread[t]]
    /\ \A t \in Threads : "does" \in DOMAIN thread[t]
    /\ \A t \in Sharing : thread[t] \in SendingStates

LockExcludes == Exclusive => Sharing = {}

\* The modifiers that were applied since the cache was emptied.
AppliedThere ==
    Exclusive =>
        /\ loader.applied <= Len(modifiers)
        /\ loader.does # "modifiers" => loader.applied = 0
        /\ \A i \in 1 .. loader.applied : modifiers[i] \in DOMAIN cache

CacheWhole ==
    ~Exclusive /\ loaded.whole =>
        loaded.paths \subseteq DOMAIN cache /\ Range(modifiers) \subseteq DOMAIN cache

IInv ==
    /\ TypeInv /\ ThreadInv /\ LockExcludes
    /\ OneCopySent /\ AppliedThere /\ CacheWhole
-----------------------------------------------------------------------------
\* What the loader is while it fills the cache.
LEMMA LoaderTypes ==
    ASSUME TypeInv
    PROVE  /\ loader.does \in {"files", "modifiers"} =>
                loader \in [does : {"files", "modifiers"}, left : SUBSET Paths, applied : Nat]
           /\ loader.does = "reading" =>
                loader \in [does : {"reading"}, left : SUBSET Paths, applied : Nat,
                            name : Paths, opened : Nat, contents : Seq(Int)]
  BY DEF TypeInv, LoaderStates, Idle

LEMMA NamesAreInPaths ==
    ASSUME TypeInv
    PROVE  Names \subseteq Paths /\ Names \subseteq Files \union {Root}
  BY DEF Names, Paths

\* A step that leaves the server alone, and starts no sending from the cache.
LEMMA ThreadStep ==
    ASSUME IInv, UNCHANGED <<disk, version, serverVars>>, NEW t \in Threads, NEW to,
           thread' = [thread EXCEPT ![t] = to],
           "does" \in DOMAIN to, to.does # "sendingCached"
    PROVE  IInv'
<1>1. UNCHANGED <<disk, version, cache, modifiers, loader, reloads, loaded>>
  BY DEF serverVars
<1>2. /\ \A u \in Threads : thread'[u] = IF u = t THEN to ELSE thread[u]
      /\ thread' = [u \in Threads |-> thread'[u]]
  BY DEF IInv, ThreadInv
<1>3. Sharing' \subseteq Sharing /\ t \notin Sharing'
  BY <1>2 DEF Sharing
<1>4. \A u \in Sharing' : thread'[u] = thread[u]
  BY <1>2, <1>3 DEF Sharing
<1>5. TypeInv' /\ AppliedThere' /\ CacheWhole'
  BY <1>1 DEF IInv, TypeInv, AppliedThere, CacheWhole, Exclusive, MapTo
<1>6. ThreadInv'
  BY <1>2, <1>3, <1>4 DEF IInv, ThreadInv
<1>7. LockExcludes'
  BY <1>1, <1>3 DEF IInv, LockExcludes, Exclusive
<1>8. OneCopySent'
  BY <1>1, <1>3, <1>4 DEF IInv, OneCopySent
<1>9. QED
  BY <1>5, <1>6, <1>7, <1>8 DEF IInv

\* The file is found while the lock is free for sharing.
LEMMA FindCachedStep ==
    ASSUME IInv, NEW t \in Threads, FindCached(t)
    PROVE  IInv'
<1> DEFINE to == [does |-> "sendingCached", path |-> thread[t].path,
                  announced |-> Len(cache[thread[t].path]), body |-> <<>>]
<1>1. UNCHANGED <<disk, version, cache, modifiers, loader, reloads, loaded>>
  BY DEF FindCached, serverVars
<1>2. /\ \A u \in Threads : thread'[u] = IF u = t THEN to ELSE thread[u]
      /\ thread' = [u \in Threads |-> thread'[u]]
  BY DEF IInv, ThreadInv, FindCached, Announce
<1>3. thread[t].path \in DOMAIN cache /\ ~Exclusive
  BY DEF FindCached, MayShare
<1>4. cache[thread[t].path] \in Seq(Int) /\ thread[t].path \in Paths
  BY <1>3 DEF IInv, TypeInv, MapTo
<1>5. to \in SendingStates /\ "does" \in DOMAIN to
  BY <1>4 DEF SendingStates
<1>6. Sharing' \subseteq Sharing \union {t}
  BY <1>2 DEF Sharing
<1>7. TypeInv' /\ AppliedThere' /\ CacheWhole' /\ LockExcludes'
  BY <1>1, <1>3 DEF IInv, TypeInv, AppliedThere, CacheWhole, Exclusive, MapTo, LockExcludes
<1>8. ThreadInv'
  <2> HIDE DEF to
  <2>1. \A u \in Threads : "does" \in DOMAIN thread'[u]
    BY <1>2, <1>5 DEF IInv, ThreadInv
  <2>2. \A u \in Sharing' : thread'[u] \in SendingStates
    BY <1>2, <1>5, <1>6 DEF IInv, ThreadInv, Sharing
  <2>3. SendingStates' = SendingStates
    BY DEF SendingStates, Paths
  <2>4. QED
    BY <1>2, <2>1, <2>2, <2>3 DEF ThreadInv
<1>9. OneCopySent'
  <2> SUFFICES ASSUME NEW u \in Sharing'
               PROVE  /\ thread'[u].path \in DOMAIN cache'
                      /\ thread'[u].announced = Len(cache'[thread'[u].path])
                      /\ IsPrefix(thread'[u].body, cache'[thread'[u].path])
    BY DEF OneCopySent
  <2>1. CASE u = t
    BY <1>1, <1>2, <1>3, <1>4, <2>1 DEF IsPrefix, Sharing
  <2>2. CASE u # t
    BY <1>1, <1>2, <1>6, <2>2 DEF IInv, OneCopySent, Sharing
  <2>3. QED
    BY <2>1, <2>2
<1>10. QED
  BY <1>7, <1>8, <1>9 DEF IInv

\* One more piece of what the cache has is sent.
LEMMA SendCachedStep ==
    ASSUME IInv, NEW t \in Threads, SendCached(t)
    PROVE  IInv'
<1> DEFINE path == thread[t].path
           next == Len(thread[t].body) + 1
           to == [thread[t] EXCEPT !.body = Append(@, cache[path][next])]
<1>1. UNCHANGED <<disk, version, cache, modifiers, loader, reloads, loaded>>
  BY DEF SendCached, serverVars
<1>2. /\ t \in Sharing
      /\ thread[t] \in SendingStates
      /\ path \in DOMAIN cache
      /\ thread[t].announced = Len(cache[path])
      /\ IsPrefix(thread[t].body, cache[path])
  BY DEF SendCached, Sharing, IInv, ThreadInv, OneCopySent
<1>3. cache[path] \in Seq(Int)
  BY <1>2 DEF IInv, TypeInv, MapTo
<1>4. next \in DOMAIN cache[path]
  BY <1>2, <1>3 DEF SendCached, Sends
<1>5. /\ \A u \in Threads : thread'[u] = IF u = t THEN to ELSE thread[u]
      /\ thread' = [u \in Threads |-> thread'[u]]
  BY <1>2, <1>4 DEF SendCached, Sends, IInv, ThreadInv
<1>6. cache[path][next] \in Int
  BY <1>3, <1>4
<1>7. /\ to \in SendingStates /\ "does" \in DOMAIN to
      /\ to.does = thread[t].does /\ to.path = path
      /\ to.announced = thread[t].announced
      /\ to.body = Append(thread[t].body, cache[path][next])
  <2>1. thread[t].body \in Seq(Int)
    BY <1>2 DEF SendingStates
  <2>2. Append(thread[t].body, cache[path][next]) \in Seq(Int)
    BY <2>1, <1>6
  <2>3. QED
    BY <1>2, <2>2 DEF SendingStates
<1>8. Sharing' = Sharing
  BY <1>2, <1>5, <1>7 DEF Sharing
<1>9. TypeInv' /\ AppliedThere' /\ CacheWhole' /\ LockExcludes'
  BY <1>1, <1>8 DEF IInv, TypeInv, AppliedThere, CacheWhole, Exclusive, MapTo, LockExcludes
<1> HIDE DEF to
<1>10. ThreadInv'
  <2>1. \A u \in Threads : "does" \in DOMAIN thread'[u]
    BY <1>5, <1>7 DEF IInv, ThreadInv
  <2>2. \A u \in Sharing' : thread'[u] \in SendingStates
    BY <1>5, <1>7, <1>8 DEF IInv, ThreadInv, Sharing
  <2>3. QED
    BY <1>5, <2>1, <2>2 DEF ThreadInv
<1>11. IsPrefix(to.body, cache[path])
  BY <1>2, <1>3, <1>4, <1>7 DEF IsPrefix
<1>12. OneCopySent'
  <2> SUFFICES ASSUME NEW u \in Sharing
               PROVE  /\ thread'[u].path \in DOMAIN cache
                      /\ thread'[u].announced = Len(cache[thread'[u].path])
                      /\ IsPrefix(thread'[u].body, cache[thread'[u].path])
    BY <1>1, <1>8 DEF OneCopySent
  <2>1. CASE u = t
    BY <1>2, <1>5, <1>7, <1>11, <2>1
  <2>2. CASE u # t
    BY <1>5, <2>2 DEF IInv, OneCopySent, Sharing
  <2>3. QED
    BY <2>1, <2>2
<1>13. QED
  BY <1>9, <1>10, <1>12 DEF IInv

\* The cache may change as long as nothing of it is being sent.
LEMMA ServerStep ==
    ASSUME IInv, UNCHANGED <<disk, version, thread>>, Sharing = {} \/ cache' = cache
    PROVE  /\ Sharing' = Sharing
           /\ ThreadInv' /\ OneCopySent'
           /\ MapTo(disk', Files) /\ version' \in Nat
<1>1. Sharing' = Sharing
  BY DEF Sharing
<1>2. ThreadInv'
  BY <1>1 DEF IInv, ThreadInv, SendingStates, Paths
<1>3. OneCopySent'
  BY <1>1 DEF IInv, OneCopySent
<1>4. MapTo(disk', Files) /\ version' \in Nat
  BY DEF IInv, TypeInv
<1>5. QED
  BY <1>1, <1>2, <1>3, <1>4

LEMMA AddGeneratedStep ==
    ASSUME IInv, NEW path \in Generated, AddGenerated(path)
    PROVE  IInv'
<1>1. /\ UNCHANGED <<disk, version, thread, loader>>
      /\ Sharing = {} /\ loader = Idle
      /\ cache' = Inserted(cache, path, GeneratedContents)
      /\ modifiers' = Append(modifiers, path)
      /\ loaded' = [loaded EXCEPT !.paths = @ \union {path}]
  BY DEF AddGenerated, IInv, TypeInv, LoaderStates, Idle
<1>2. ThreadInv' /\ OneCopySent' /\ MapTo(disk', Files) /\ version' \in Nat /\ Sharing' = {}
  BY <1>1, ServerStep
<1>3. GeneratedContents \in Seq(Int) /\ path \in Paths
  BY DEF GeneratedContents, Paths
<1>4. MapTo(cache', Paths) /\ DOMAIN cache' = DOMAIN cache \union {path}
  BY <1>1, <1>3 DEF IInv, TypeInv, MapTo, Inserted
<1>5. modifiers \in Seq(Generated) /\ modifiers' \in Seq(Generated)
  BY <1>1 DEF IInv, TypeInv
<1>6. ~Exclusive /\ ~Exclusive'
  BY <1>1 DEF Exclusive, Idle
<1>7. TypeInv'
  BY <1>1, <1>2, <1>3, <1>4, <1>5 DEF IInv, TypeInv
<1>8. CacheWhole'
  <2>1. Range(modifiers') \subseteq Range(modifiers) \union {path}
    BY <1>1, <1>5 DEF Range
  <2>2. loaded'.whole = loaded.whole /\ loaded'.paths = loaded.paths \union {path}
    BY <1>1 DEF IInv, TypeInv
  <2>3. QED
    BY <1>4, <1>6, <2>1, <2>2 DEF IInv, CacheWhole
<1>9. QED
  BY <1>2, <1>6, <1>7, <1>8 DEF IInv, LockExcludes, AppliedThere

LEMMA CallReloadStep ==
    ASSUME IInv, NEW how \in {"reload", "reset"}, CallReload(how)
    PROVE  IInv'
<1>1. UNCHANGED <<disk, version, thread, cache, modifiers, loaded>>
  BY DEF CallReload
<1>2. ThreadInv' /\ OneCopySent' /\ MapTo(disk', Files) /\ version' \in Nat
  BY <1>1, ServerStep
<1>3. loader = Idle /\ loader' = [does |-> how]
  BY DEF CallReload, IInv, TypeInv, LoaderStates, Idle
<1>4. ~Exclusive /\ ~Exclusive'
  BY <1>3 DEF Exclusive, Idle
<1>5. TypeInv'
  BY <1>1, <1>2, <1>3 DEF IInv, TypeInv, MapTo, LoaderStates
<1>6. QED
  BY <1>1, <1>2, <1>4, <1>5 DEF IInv, LockExcludes, AppliedThere, CacheWhole

LEMMA StartFillingStep ==
    ASSUME IInv, StartFilling
    PROVE  IInv'
<1>1. /\ UNCHANGED <<disk, version, thread, loaded>>
      /\ Sharing = {} /\ cache' = <<>>
      /\ modifiers' \in {<<>>, modifiers}
      /\ loader' = [does |-> "files", left |-> Names, applied |-> 0]
  BY DEF StartFilling, MayFill
<1>2. ThreadInv' /\ OneCopySent' /\ MapTo(disk', Files) /\ version' \in Nat /\ Sharing' = {}
  BY <1>1, ServerStep
<1>3. MapTo(cache', Paths)
  BY <1>1 DEF MapTo
<1>4. modifiers' \in Seq(Generated)
  <2>1. modifiers \in Seq(Generated) /\ <<>> \in Seq(Generated)
    BY DEF IInv, TypeInv
  <2>2. QED
    BY <1>1, <2>1
<1>5. loader' \in [does : {"files", "modifiers"}, left : SUBSET Paths, applied : Nat]
  BY <1>1, NamesAreInPaths DEF IInv
<1>6. TypeInv'
  BY <1>1, <1>2, <1>3, <1>4, <1>5 DEF IInv, TypeInv, LoaderStates
<1>7. Exclusive'
  BY <1>1 DEF Exclusive
<1>8. AppliedThere'
  BY <1>1, <1>4 DEF AppliedThere
<1>9. QED
  BY <1>2, <1>6, <1>7, <1>8 DEF IInv, LockExcludes, CacheWhole

LEMMA OpenFileStep ==
    ASSUME IInv, NEW name \in Files \union {Root}, OpenFile(name)
    PROVE  IInv'
<1>1. /\ UNCHANGED <<disk, version, thread, cache, modifiers, loaded>>
      /\ loader.does = "files"
      /\ loader' = [does |-> "reading", left |-> loader.left \ {name},
                    applied |-> loader.applied, name |-> name, opened |-> version,
                    contents |-> <<>>]
  BY DEF OpenFile
<1>2. loader \in [does : {"files", "modifiers"}, left : SUBSET Paths, applied : Nat]
  BY <1>1, LoaderTypes DEF IInv
<1>3. Exclusive /\ Sharing = {}
  BY <1>1 DEF Exclusive, IInv, LockExcludes
<1>4. ThreadInv' /\ OneCopySent' /\ MapTo(disk', Files) /\ version' \in Nat /\ Sharing' = {}
  BY <1>1, <1>3, ServerStep
<1>5. name \in Paths /\ version \in Nat /\ <<>> \in Seq(Int)
  BY DEF Paths, IInv, TypeInv
<1>6. loader' \in LoaderStates
  <2>1. loader' \in [does : {"reading"}, left : SUBSET Paths, applied : Nat,
                     name : Paths, opened : Nat, contents : Seq(Int)]
    BY <1>1, <1>2, <1>5
  <2>2. QED
    BY <2>1 DEF LoaderStates
<1>7. loader'.does = "reading" /\ loader'.applied = loader.applied
  BY <1>1
<1>8. TypeInv'
  BY <1>1, <1>4, <1>6 DEF IInv, TypeInv, MapTo, LoaderStates, Paths
<1>9. Exclusive'
  BY <1>7 DEF Exclusive
<1>10. AppliedThere'
  BY <1>1, <1>3, <1>7 DEF IInv, AppliedThere
<1>11. QED
  BY <1>4, <1>8, <1>9, <1>10 DEF IInv, LockExcludes, CacheWhole

\* Whatever the other programs do meanwhile, chunks are what is read.
LEMMA YieldedChunks ==
    ASSUME TypeInv, loader.does = "reading"
    PROVE  \A chunk \in Yielded : chunk \in Seq(Int)
<1> DEFINE path == OnDisk(loader.name)
           read == Len(loader.contents)
           now == IF path \in DOMAIN disk /\ read + 1 \in DOMAIN disk[path]
                  THEN <<disk[path][read + 1]>> ELSE <<>>
<1>1. path \in DOMAIN disk => disk[path] \in Seq(Int)
  BY DEF TypeInv, MapTo
<1>2. now \in Seq(Int)
  <2>1. CASE path \in DOMAIN disk /\ read + 1 \in DOMAIN disk[path]
    <3>1. disk[path][read + 1] \in Int
      BY <1>1, <2>1
    <3>2. QED
      BY <2>1, <3>1
  <2>2. CASE ~(path \in DOMAIN disk /\ read + 1 \in DOMAIN disk[path])
    BY <2>2
  <2>3. QED
    BY <2>1, <2>2
<1>3. \A v \in 1 .. version - 1 : <<v>> \in Seq(Int)
  BY DEF TypeInv
<1>4. ASSUME NEW chunk \in Yielded
      PROVE  chunk = now \/ chunk = <<>> \/ \E v \in 1 .. version - 1 : chunk = <<v>>
  BY <1>4 DEF Yielded, Yields
<1>5. <<>> \in Seq(Int)
  OBVIOUS
<1> HIDE DEF now
<1>6. QED
  BY <1>2, <1>3, <1>4, <1>5

LEMMA ReadChunkStep ==
    ASSUME IInv, ReadChunk
    PROVE  IInv'
<1>1. /\ UNCHANGED <<disk, version, thread, cache, modifiers, loaded>>
      /\ loader.does = "reading"
  BY DEF ReadChunk
<1>2. PICK chunk \in Yielded : loader' = [loader EXCEPT !.contents = @ \o chunk]
  BY DEF ReadChunk
<1>3. loader \in [does : {"reading"}, left : SUBSET Paths, applied : Nat,
                  name : Paths, opened : Nat, contents : Seq(Int)]
  BY <1>1, LoaderTypes DEF IInv
<1>4. chunk \in Seq(Int)
  BY <1>1, YieldedChunks DEF IInv
<1>5. Exclusive /\ Sharing = {}
  BY <1>1 DEF Exclusive, IInv, LockExcludes
<1>6. ThreadInv' /\ OneCopySent' /\ MapTo(disk', Files) /\ version' \in Nat /\ Sharing' = {}
  BY <1>1, <1>5, ServerStep
<1>7. loader.contents \o chunk \in Seq(Int)
  BY <1>3, <1>4
<1>8. /\ loader' \in [does : {"reading"}, left : SUBSET Paths, applied : Nat,
                      name : Paths, opened : Nat, contents : Seq(Int)]
      /\ loader'.does = "reading" /\ loader'.applied = loader.applied
  BY <1>2, <1>3, <1>7
<1>9. TypeInv'
  BY <1>1, <1>6, <1>8 DEF IInv, TypeInv, MapTo, LoaderStates, Paths
<1>10. Exclusive'
  BY <1>8 DEF Exclusive
<1>11. AppliedThere'
  BY <1>1, <1>5, <1>8 DEF IInv, AppliedThere
<1>12. QED
  BY <1>6, <1>9, <1>10, <1>11 DEF IInv, LockExcludes, CacheWhole

LEMMA EnterFileStep ==
    ASSUME IInv, EnterFile
    PROVE  IInv'
<1>1. /\ UNCHANGED <<disk, version, thread, modifiers, loaded>>
      /\ loader.does = "reading"
      /\ cache' = Inserted(cache, loader.name, loader.contents)
      /\ loader' = [does |-> "files", left |-> loader.left, applied |-> loader.applied]
  BY DEF EnterFile
<1>2. loader \in [does : {"reading"}, left : SUBSET Paths, applied : Nat,
                  name : Paths, opened : Nat, contents : Seq(Int)]
  BY <1>1, LoaderTypes DEF IInv
<1>3. Exclusive /\ Sharing = {}
  BY <1>1 DEF Exclusive, IInv, LockExcludes
<1>4. ThreadInv' /\ OneCopySent' /\ MapTo(disk', Files) /\ version' \in Nat /\ Sharing' = {}
  BY <1>1, <1>3, ServerStep
<1>5. MapTo(cache', Paths) /\ DOMAIN cache \subseteq DOMAIN cache'
  <2>1. loader.name \in Paths /\ loader.contents \in Seq(Int) /\ MapTo(cache, Paths)
    BY <1>2 DEF IInv, TypeInv
  <2>2. /\ MapTo(Inserted(cache, loader.name, loader.contents), Paths)
        /\ DOMAIN Inserted(cache, loader.name, loader.contents) =
             DOMAIN cache \union {loader.name}
    BY <2>1 DEF Inserted, MapTo
  <2>3. QED
    BY <1>1, <2>2 DEF MapTo, Paths
<1>6. /\ loader' \in [does : {"files", "modifiers"}, left : SUBSET Paths, applied : Nat]
      /\ loader'.does = "files" /\ loader'.applied = loader.applied
  BY <1>1, <1>2
<1>7. TypeInv'
  BY <1>1, <1>4, <1>5, <1>6 DEF IInv, TypeInv, LoaderStates, Paths
<1>8. Exclusive'
  BY <1>6 DEF Exclusive
<1>9. AppliedThere'
  BY <1>1, <1>3, <1>5, <1>6 DEF IInv, AppliedThere
<1>10. QED
  BY <1>4, <1>7, <1>8, <1>9 DEF IInv, LockExcludes, CacheWhole

LEMMA FailToLoadStep ==
    ASSUME IInv, NEW name \in Files \union {Root}, FailToLoad(name)
    PROVE  IInv'
<1>1. /\ UNCHANGED <<disk, version, thread, cache, modifiers>>
      /\ loader' = Idle
      /\ loaded' = [loaded EXCEPT !.whole = FALSE]
  BY DEF FailToLoad, Unlocked
<1>2. ThreadInv' /\ OneCopySent' /\ MapTo(disk', Files) /\ version' \in Nat
  BY <1>1, ServerStep
<1>3. loaded' \in [paths : SUBSET Paths, whole : BOOLEAN] /\ ~loaded'.whole
  BY <1>1 DEF IInv, TypeInv
<1>4. ~Exclusive'
  BY <1>1 DEF Exclusive, Idle
<1>5. TypeInv'
  BY <1>1, <1>2, <1>3 DEF IInv, TypeInv, MapTo, LoaderStates
<1>6. QED
  BY <1>2, <1>3, <1>4, <1>5 DEF IInv, LockExcludes, AppliedThere, CacheWhole

LEMMA StartModifiersStep ==
    ASSUME IInv, StartModifiers
    PROVE  IInv'
<1>1. /\ UNCHANGED <<disk, version, thread, cache, modifiers, loaded>>
      /\ loader.does = "files" /\ loader.applied = 0
      /\ loader' = [loader EXCEPT !.does = "modifiers"]
  BY DEF StartModifiers
<1>2. loader \in [does : {"files", "modifiers"}, left : SUBSET Paths, applied : Nat]
  BY <1>1, LoaderTypes DEF IInv
<1>3. Exclusive /\ Sharing = {}
  BY <1>1 DEF Exclusive, IInv, LockExcludes
<1>4. ThreadInv' /\ OneCopySent' /\ MapTo(disk', Files) /\ version' \in Nat /\ Sharing' = {}
  BY <1>1, <1>3, ServerStep
<1>5. /\ loader' \in [does : {"files", "modifiers"}, left : SUBSET Paths, applied : Nat]
      /\ loader'.does = "modifiers" /\ loader'.applied = 0
  BY <1>1, <1>2
<1>6. TypeInv'
  BY <1>1, <1>4, <1>5 DEF IInv, TypeInv, MapTo, LoaderStates
<1>7. Exclusive'
  BY <1>5 DEF Exclusive
<1>8. AppliedThere'
  BY <1>1, <1>5 DEF AppliedThere, IInv, TypeInv
<1>9. QED
  BY <1>4, <1>6, <1>7, <1>8 DEF IInv, LockExcludes, CacheWhole

LEMMA ApplyModifierStep ==
    ASSUME IInv, ApplyModifier
    PROVE  IInv'
<1> DEFINE path == modifiers[loader.applied + 1]
<1>1. /\ UNCHANGED <<disk, version, thread, modifiers, loaded>>
      /\ loader.does = "modifiers" /\ loader.applied # Len(modifiers)
      /\ cache' = Inserted(cache, path, GeneratedContents)
      /\ loader' = [loader EXCEPT !.applied = @ + 1]
  BY DEF ApplyModifier, AllApplied
<1>2. /\ loader \in [does : {"files", "modifiers"}, left : SUBSET Paths, applied : Nat]
      /\ modifiers \in Seq(Generated)
  BY <1>1, LoaderTypes DEF IInv, TypeInv
<1>3. Exclusive /\ Sharing = {} /\ loader.applied < Len(modifiers)
  BY <1>1, <1>2 DEF Exclusive, IInv, LockExcludes, AppliedThere
<1>4. ThreadInv' /\ OneCopySent' /\ MapTo(disk', Files) /\ version' \in Nat /\ Sharing' = {}
  BY <1>1, <1>3, ServerStep
<1>5. path \in Paths
  <2>1. path \in Generated
    BY <1>2, <1>3
  <2>2. QED
    BY <2>1 DEF Paths
<1>6. GeneratedContents \in Seq(Int)
  BY DEF GeneratedContents
<1>7. MapTo(cache', Paths) /\ DOMAIN cache' = DOMAIN cache \union {path}
  BY <1>1, <1>5, <1>6 DEF IInv, TypeInv, MapTo, Inserted
<1>8. /\ loader' \in [does : {"files", "modifiers"}, left : SUBSET Paths, applied : Nat]
      /\ loader'.does = "modifiers" /\ loader'.applied = loader.applied + 1
  BY <1>1, <1>2
<1>9. TypeInv'
  BY <1>1, <1>4, <1>7, <1>8 DEF IInv, TypeInv, LoaderStates
<1>10. Exclusive'
  BY <1>8 DEF Exclusive
<1>11. AppliedThere'
  BY <1>1, <1>2, <1>3, <1>7, <1>8 DEF IInv, AppliedThere
<1>12. QED
  BY <1>4, <1>9, <1>10, <1>11 DEF IInv, LockExcludes, CacheWhole

LEMMA FinishLoadingStep ==
    ASSUME IInv, FinishLoading
    PROVE  IInv'
<1>1. /\ UNCHANGED <<disk, version, thread, cache, modifiers>>
      /\ loader.does = "modifiers" /\ loader.applied = Len(modifiers)
      /\ loader' = Idle
      /\ loaded' = [paths |-> DOMAIN cache, whole |-> TRUE]
  BY DEF FinishLoading, AllApplied
<1>2. ThreadInv' /\ OneCopySent' /\ MapTo(disk', Files) /\ version' \in Nat
  BY <1>1, ServerStep
<1>3. loaded' \in [paths : SUBSET Paths, whole : BOOLEAN]
  BY <1>1 DEF IInv, TypeInv, MapTo
<1>4. Exclusive /\ ~Exclusive'
  BY <1>1 DEF Exclusive, Idle
<1>5. TypeInv'
  BY <1>1, <1>2, <1>3 DEF IInv, TypeInv, MapTo, LoaderStates
<1>6. Range(modifiers) \subseteq DOMAIN cache
  BY <1>1, <1>4 DEF Range, IInv, TypeInv, AppliedThere
<1>7. CacheWhole'
  BY <1>1, <1>6 DEF CacheWhole
<1>8. QED
  BY <1>2, <1>4, <1>5, <1>7 DEF IInv, LockExcludes, AppliedThere

LEMMA ChangeFileStep ==
    ASSUME IInv, NEW path \in Files, ChangeFile(path)
    PROVE  IInv'
<1>1. UNCHANGED <<cache, modifiers, loader, loaded, thread>> /\ version' = version + 1
  BY DEF ChangeFile, serverVars
<1>2. MapTo(disk', Files) /\ version' \in Nat
  <2>1. PICK contents \in Contents(version') :
          disk' \in {[p \in DOMAIN disk \union {path} |-> IF p = path THEN contents ELSE disk[p]],
                     Without(disk, path)}
    BY DEF ChangeFile
  <2>2. version' \in Nat
    BY <1>1 DEF IInv, TypeInv
  <2>3. contents \in Seq(Int)
    <3>1. PICK length \in Lengths : contents = [i \in 1 .. length |-> version']
      BY <2>1 DEF Contents
    <3>2. length \in Nat
      BY FileServersAssumption
    <3>3. QED
      BY <2>2, <3>1, <3>2
  <2>4. MapTo(disk, Files)
    BY DEF IInv, TypeInv
  <2>5. QED
    BY <2>1, <2>2, <2>3, <2>4 DEF MapTo, Without
<1>3. Sharing' = Sharing
  BY <1>1 DEF Sharing
<1>4. TypeInv' /\ AppliedThere' /\ CacheWhole' /\ LockExcludes'
  BY <1>1, <1>2, <1>3 DEF IInv, TypeInv, AppliedThere, CacheWhole, Exclusive, MapTo, LockExcludes
<1>5. ThreadInv' /\ OneCopySent'
  BY <1>1, <1>3 DEF IInv, ThreadInv, SendingStates, Paths, OneCopySent
<1>6. QED
  BY <1>4, <1>5 DEF IInv

\* What a thread does that sends nothing from the cache.
LEMMA OtherThreadSteps ==
    ASSUME IInv, NEW t \in Threads,
           \/ \E server \in {"cached", "dynamic"}, path \in Paths : Calls(t, server, path)
           \/ RefuseCached(t) \/ FindGenerated(t) \/ FindDynamic(t)
           \/ RefuseDynamic(t) \/ SendDynamic(t) \/ Conclude(t)
    PROVE  IInv'
<1>1. CASE \E server \in {"cached", "dynamic"}, path \in Paths : Calls(t, server, path)
  <2>1. PICK server \in {"cached", "dynamic"}, path \in Paths : Calls(t, server, path)
    BY <1>1
  <2> DEFINE to == [does |-> server, path |-> path]
  <2>2. thread' = [thread EXCEPT ![t] = to] /\ UNCHANGED <<disk, version, serverVars>>
    BY <2>1 DEF Calls
  <2>3. "does" \in DOMAIN to /\ to.does # "sendingCached"
    OBVIOUS
  <2> HIDE DEF to
  <2>4. QED
    BY <2>2, <2>3, ThreadStep
<1>2. CASE RefuseCached(t)
  <2> DEFINE to == Idle
  <2>1. thread' = [thread EXCEPT ![t] = to]
    BY <1>2 DEF RefuseCached
  <2>2. "does" \in DOMAIN to /\ to.does # "sendingCached"
    BY DEF Idle
  <2>3. UNCHANGED <<disk, version, serverVars>>
    BY <1>2 DEF RefuseCached
  <2> HIDE DEF to
  <2>4. QED
    BY <2>1, <2>2, <2>3, ThreadStep
<1>3. CASE FindGenerated(t)
  <2> DEFINE chunks == FlattenSeq(Providers[thread[t].path].chunks)
             to == [does |-> "sendingDynamic", path |-> thread[t].path,
                    announced |-> Len(chunks), body |-> chunks]
  <2>1. thread' = [thread EXCEPT ![t] = to] /\ UNCHANGED <<disk, version, serverVars>>
    BY <1>3 DEF FindGenerated
  <2>2. "does" \in DOMAIN to /\ to.does # "sendingCached"
    OBVIOUS
  <2> HIDE DEF to
  <2>3. QED
    BY <2>1, <2>2, ThreadStep
<1>4. CASE FindDynamic(t)
  <2> DEFINE to == [does |-> "sendingDynamic", path |-> thread[t].path,
                    announced |-> Len(disk[OnDisk(thread[t].path)]), body |-> <<>>]
  <2>1. thread' = [thread EXCEPT ![t] = to] /\ UNCHANGED <<disk, version, serverVars>>
    BY <1>4 DEF FindDynamic, Announce
  <2>2. "does" \in DOMAIN to /\ to.does # "sendingCached"
    OBVIOUS
  <2> HIDE DEF to
  <2>3. QED
    BY <2>1, <2>2, ThreadStep
<1>5. CASE RefuseDynamic(t)
  <2> DEFINE to == Idle
  <2>1. thread' = [thread EXCEPT ![t] = to]
    BY <1>5 DEF RefuseDynamic
  <2>2. "does" \in DOMAIN to /\ to.does # "sendingCached"
    BY DEF Idle
  <2>3. UNCHANGED <<disk, version, serverVars>>
    BY <1>5 DEF RefuseDynamic
  <2> HIDE DEF to
  <2>4. QED
    BY <2>1, <2>2, <2>3, ThreadStep
<1>6. CASE SendDynamic(t)
  <2>1. PICK chunk : thread' = [thread EXCEPT ![t].body = Append(@, chunk)]
    BY <1>6 DEF SendDynamic, Sends
  <2> DEFINE to == [thread[t] EXCEPT !.body = Append(@, chunk)]
  <2>2. thread[t].does = "sendingDynamic" /\ "does" \in DOMAIN thread[t]
    BY <1>6 DEF SendDynamic, IInv, ThreadInv
  <2>3. thread' = [thread EXCEPT ![t] = to] /\ "does" \in DOMAIN to /\ to.does = "sendingDynamic"
    BY <2>1, <2>2
  <2>4. UNCHANGED <<disk, version, serverVars>>
    BY <1>6 DEF SendDynamic
  <2> HIDE DEF to
  <2>5. QED
    BY <2>3, <2>4, ThreadStep
<1>7. CASE Conclude(t)
  <2> DEFINE to == Idle
  <2>1. thread' = [thread EXCEPT ![t] = to]
    BY <1>7 DEF Conclude
  <2>2. "does" \in DOMAIN to /\ to.does # "sendingCached"
    BY DEF Idle
  <2>3. UNCHANGED <<disk, version, serverVars>>
    BY <1>7 DEF Conclude
  <2> HIDE DEF to
  <2>4. QED
    BY <2>1, <2>2, <2>3, ThreadStep
<1>8. QED
  BY <1>1, <1>2, <1>3, <1>4, <1>5, <1>6, <1>7

LEMMA InitIInv == Init => IInv
<1> SUFFICES ASSUME Init PROVE IInv
  OBVIOUS
<1>1. <<1, 1>> \in Seq(Int) /\ <<>> \in Seq(Generated)
  OBVIOUS
<1>2. MapTo(disk, Files)
  BY <1>1 DEF Init, MapTo
<1>3. MapTo(cache, Paths)
  BY <1>1 DEF Init, MapTo, Names, Paths
<1>4. TypeInv
  BY <1>1, <1>2, <1>3 DEF Init, TypeInv, MapTo, Names, LoaderStates
<1>5. Sharing = {} /\ ThreadInv
  BY DEF Init, Idle, Sharing, ThreadInv
<1>6. ~Exclusive /\ CacheWhole
  BY DEF Init, Idle, Exclusive, CacheWhole, Range
<1>7. QED
  BY <1>4, <1>5, <1>6 DEF IInv, LockExcludes, OneCopySent, AppliedThere

LEMMA StutterIInv == IInv /\ UNCHANGED vars => IInv'
<1> SUFFICES ASSUME IInv, UNCHANGED vars PROVE IInv'
  OBVIOUS
<1>1. Sharing' = Sharing /\ (Exclusive' <=> Exclusive)
  BY DEF vars, serverVars, Sharing, Exclusive
<1>2. TypeInv' /\ ThreadInv'
  BY <1>1 DEF vars, serverVars, IInv, TypeInv, ThreadInv, MapTo, Paths, SendingStates
<1>3. LockExcludes' /\ OneCopySent' /\ AppliedThere' /\ CacheWhole'
  BY <1>1 DEF vars, serverVars, IInv, LockExcludes, OneCopySent, AppliedThere, CacheWhole
<1>4. QED
  BY <1>2, <1>3 DEF IInv

LEMMA NextIInv == IInv /\ [Next]_vars => IInv'
<1> SUFFICES ASSUME IInv, [Next]_vars PROVE IInv'
  OBVIOUS
<1>1. CASE \E path \in Files : ChangeFile(path)
  BY <1>1, ChangeFileStep
<1>2. CASE \E t \in Threads, server \in {"cached", "dynamic"}, path \in Paths :
            Calls(t, server, path)
  BY <1>2, OtherThreadSteps
<1>3. CASE \E t \in Threads : Get(t)
  BY <1>3, OtherThreadSteps, FindCachedStep, SendCachedStep DEF Get
<1>4. CASE \E path \in Generated : AddGenerated(path)
  BY <1>4, AddGeneratedStep
<1>5. CASE \E how \in {"reload", "reset"} : CallReload(how)
  BY <1>5, CallReloadStep
<1>6. CASE Load
  BY <1>6, StartFillingStep, OpenFileStep, ReadChunkStep, EnterFileStep, FailToLoadStep, StartModifiersStep,
     ApplyModifierStep, FinishLoadingStep DEF Load
<1>7. CASE UNCHANGED vars
  BY <1>7, StutterIInv
<1>8. QED
  BY <1>1, <1>2, <1>3, <1>4, <1>5, <1>6, <1>7 DEF Next
-----------------------------------------------------------------------------
\* The lock keeps loading and sending apart, and the cache has what was put into it.
THEOREM Inductive == Spec => []IInv
<1>1. QED
  BY InitIInv, NextIInv, PTL DEF Spec

\* What the caching server sends is as long as it announced and all of one copy of the
\* file, however often the file changes and the cache is loaded anew while it is sent.
THEOREM SendsOneCopy == Spec => []OneCopySent
<1>1. IInv => OneCopySent
  BY DEF IInv
<1>2. QED
  BY <1>1, Inductive, PTL

\* Generated files are in the cache whenever it may be used, unless a load failed.
THEOREM GeneratedFilesSurvive == Spec => []GeneratedSurvive
<1>1. IInv => GeneratedSurvive
  BY DEF IInv, CacheWhole, GeneratedSurvive
<1>2. QED
  BY <1>1, Inductive, PTL

\* No get is refused because the cache is being loaded.
THEOREM NothingIsMissing == Spec => NothingMissing
<1>1. IInv /\ [Next]_vars =>
        [\A t \in Threads : Refused(t) /\ loaded.whole => thread[t].path \notin loaded.paths]_vars
  <2> SUFFICES ASSUME IInv, Next, NEW t \in Threads, Refused(t), loaded.whole
               PROVE  thread[t].path \notin loaded.paths
    OBVIOUS
  <2>1. RefuseCached(t)
    <3>1. /\ thread[t].does = "cached" /\ thread'[t] = Idle
          /\ thread[t] # thread'[t]
      BY DEF Refused, Idle
    <3>2. ASSUME NEW u \in Threads, NEW to, to # Idle, thread' = [thread EXCEPT ![u] = to]
          PROVE  FALSE
      <4>1. thread'[t] \in {to, thread[t]}
        BY <3>2 DEF IInv, ThreadInv
      <4>2. QED
        BY <3>1, <3>2, <4>1
    <3>3. ASSUME NEW u \in Threads, thread' = [thread EXCEPT ![u] = Idle],
                 thread[u].does # "cached"
          PROVE  FALSE
      BY <3>1, <3>3 DEF IInv, ThreadInv
    <3>4. thread' # thread
      BY <3>1
    <3>5. PICK u \in Threads : Get(u)
      <4>1. ASSUME NEW u \in Threads, NEW server \in {"cached", "dynamic"}, NEW path \in Paths,
                   Calls(u, server, path)
            PROVE  FALSE
        <5>1. thread' = [thread EXCEPT ![u] = [does |-> server, path |-> path]]
          BY <4>1 DEF Calls
        <5>2. [does |-> server, path |-> path] # Idle
          BY DEF Idle
        <5>3. QED
          BY <5>1, <5>2, <3>2
      <4>2. QED
        BY <3>4, <4>1 DEF Next, ChangeFile, AddGenerated, CallReload, Load, StartFilling,
           OpenFile, ReadChunk, EnterFile, FailToLoad, StartModifiers, ApplyModifier, FinishLoading
    <3>6. ~FindCached(u)
      <4> SUFFICES ASSUME FindCached(u) PROVE FALSE
        OBVIOUS
      <4> DEFINE to == [does |-> "sendingCached", path |-> thread[u].path,
                        announced |-> Len(cache[thread[u].path]), body |-> <<>>]
      <4>1. thread' = [thread EXCEPT ![u] = to]
        BY DEF FindCached, Announce, IInv, ThreadInv
      <4>2. to # Idle
        BY DEF Idle
      <4>3. QED
        BY <4>1, <4>2, <3>2
    <3>7. ~FindDynamic(u)
      <4> SUFFICES ASSUME FindDynamic(u) PROVE FALSE
        OBVIOUS
      <4> DEFINE to == [does |-> "sendingDynamic", path |-> thread[u].path,
                        announced |-> Len(disk[OnDisk(thread[u].path)]), body |-> <<>>]
      <4>1. thread' = [thread EXCEPT ![u] = to]
        BY DEF FindDynamic, Announce, IInv, ThreadInv
      <4>2. to # Idle
        BY DEF Idle
      <4>3. QED
        BY <4>1, <4>2, <3>2
    <3>8. ~FindGenerated(u)
      <4> SUFFICES ASSUME FindGenerated(u) PROVE FALSE
        OBVIOUS
      <4> DEFINE chunks == FlattenSeq(Providers[thread[u].path].chunks)
      <4> DEFINE to == [does |-> "sendingDynamic", path |-> thread[u].path,
                        announced |-> Len(chunks), body |-> chunks]
      <4>1. thread' = [thread EXCEPT ![u] = to]
        BY DEF FindGenerated, IInv, ThreadInv
      <4>2. to # Idle
        BY DEF Idle
      <4> HIDE DEF to, chunks
      <4>3. QED
        BY <4>1, <4>2, <3>2
    <3>9. ~SendCached(u) /\ ~SendDynamic(u)
      <4> SUFFICES ASSUME NEW chunk, Sends(u, chunk),
                          thread[u].does \in {"sendingCached", "sendingDynamic"}
                   PROVE  FALSE
        BY DEF SendCached, SendDynamic
      <4> DEFINE to == [thread[u] EXCEPT !.body = Append(@, chunk)]
      <4>1. thread' = [thread EXCEPT ![u] = to]
        BY DEF Sends
      <4>2. "does" \in DOMAIN thread[u]
        BY DEF IInv, ThreadInv
      <4>3. to.does = thread[u].does
        BY <4>2
      <4>4. to # Idle
        BY <4>3 DEF Idle
      <4> HIDE DEF to
      <4>5. QED
        BY <4>1, <4>4, <3>2
    <3>10. ~RefuseDynamic(u) /\ ~Conclude(u)
      BY <3>3 DEF RefuseDynamic, Conclude
    <3>11. RefuseCached(u)
      BY <3>5, <3>6, <3>7, <3>8, <3>9, <3>10 DEF Get
    <3>12. u = t
      BY <3>1, <3>11 DEF RefuseCached, IInv, ThreadInv
    <3>13. QED
      BY <3>11, <3>12
  <2>2. QED
    BY <2>1 DEF RefuseCached, MayShare, IInv, CacheWhole
<1>2. QED
  BY <1>1, Inductive, PTL DEF Spec, NothingMissing
=============================================================================
