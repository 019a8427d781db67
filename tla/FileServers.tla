----------------------------- MODULE FileServers ----------------------------
(***************************************************************************)
(* CachingFileServer and DynamicFileServer (src/bomba_download_server.hpp) *)
(* over a folder that other programs change meanwhile.                     *)
(*                                                                         *)
(* The threads of a TCP server get files of both; another thread calls     *)
(* reload() and reset() of the caching one.  Its _mutex is held shared     *)
(* while a file is looked up and sent, and exclusively while the cache is  *)
(* filled.  Contents are sequences of version numbers, one for each chunk; *)
(* what is sent behind the end of a file is Garbage.  No lock keeps the    *)
(* other programs away: a file may be written while it is read.            *)
(***************************************************************************)
EXTENDS Integers, Sequences, SequencesExt, FiniteSets

CONSTANTS
    Files,          \* the paths that may be in the folder
    Index, Root,    \* "/index.html" (one of Files or not) and "/"
    NoExtension,    \* those of Files that have no extension
    Generated,      \* paths for generated files of the caching server
    Providers,      \* generated files of the dynamic server: a function from paths to
                    \* records of "known", allKnownAtOnce, and "chunks"
    Threads,        \* the threads that get files
    Lengths,        \* bound: how many chunks another program may write
    MaxVersion, MaxGets, MaxReloads   \* bounds: changes of files, gets, reloads and resets

ASSUME FileServersAssumption ==
    /\ NoExtension \subseteq Files /\ Root \notin Files
    /\ Generated \intersect NoExtension = {}
    /\ Lengths \subseteq Nat
    /\ \A path \in DOMAIN Providers :
          Providers[path].known => Len(Providers[path].chunks) = 1

VARIABLES
    disk,        \* the folder: a function from the paths in it to contents
    version,     \* the number of changes to it
    cache,       \* _cache: a function from paths to contents
    modifiers,   \* _modifiers: the generated files they insert
    loader,      \* the call of reload() or reset(): what it does, the names it still
                 \* has to enter, how many modifiers it has applied; and of the file
                 \* it reads the name, the version at its opening, and what it got
    reloads,     \* the number of such calls
    thread,      \* what each thread does
    gets,        \* the number of gets
    loaded       \* history: the paths in the cache after the last load that came to its
                 \* end, and whether none has failed since

serverVars == <<cache, modifiers, loader, reloads, loaded>>
vars == <<disk, version, serverVars, thread, gets>>

Garbage == 0
GeneratedContents == <<-1>>
Idle == [does |-> "idle"]
Contents(n) == {[i \in 1 .. length |-> n] : length \in Lengths}

\* unordered_map::insert: what is there stays.
Inserted(map, path, contents) ==
    IF path \in DOMAIN map THEN map
    ELSE [p \in DOMAIN map \union {path} |-> IF p = path THEN contents ELSE map[p]]

Without(map, path) == [p \in DOMAIN map \ {path} |-> map[p]]

\* The index page is what the folder's own path means.
OnDisk(path) == IF path = Root THEN Index ELSE path

\* The names under which cacheFile() enters files: the index page has two, and is read
\* once for each.
Names == {name \in Files \union {Root} : OnDisk(name) \in DOMAIN disk}

Init ==
    /\ disk = [path \in Files \ NoExtension |-> <<1, 1>>]
    /\ version = 1
    /\ cache = [name \in Names |-> <<1, 1>>]
    /\ modifiers = <<>>
    /\ loader = Idle /\ reloads = 0
    /\ thread = [t \in Threads |-> Idle] /\ gets = 0
    /\ loaded = [paths |-> DOMAIN cache, whole |-> TRUE]
-----------------------------------------------------------------------------
\* Another program writes a file, in place, or removes it.
ChangeFile(path) ==
    /\ version < MaxVersion
    /\ version' = version + 1
    /\ \E contents \in Contents(version') :
          disk' \in {[p \in DOMAIN disk \union {path} |-> IF p = path THEN contents ELSE disk[p]],
                     Without(disk, path)}
    /\ UNCHANGED <<serverVars, thread, gets>>
-----------------------------------------------------------------------------
\* The lock.
Sharing == {t \in Threads : thread[t].does = "sendingCached"}
Exclusive == loader.does \in {"files", "reading", "modifiers"}

Calls(t, server, path) ==
    /\ thread[t].does = "idle"
    /\ gets < MaxGets
    /\ gets' = gets + 1
    /\ thread' = [thread EXCEPT ![t] = [does |-> server, path |-> path]]
    /\ UNCHANGED <<disk, version, serverVars>>

\* Fault: get() does not take the lock.
FaultMayShare == TRUE
MayShare == ~Exclusive

\* A response is started with its size.
Announce(t, does, contents) ==
    thread' = [thread EXCEPT ![t] =
        [does |-> does, path |-> @.path, announced |-> Len(contents), body |-> <<>>]]

\* CachingFileServer::get() finds the file, and keeps the lock.
FindCached(t) ==
    /\ thread[t].does = "cached" /\ MayShare
    /\ thread[t].path \in DOMAIN cache
    /\ Announce(t, "sendingCached", cache[thread[t].path])
    /\ UNCHANGED <<disk, version, serverVars, gets>>

RefuseCached(t) ==
    /\ thread[t].does = "cached" /\ MayShare
    /\ thread[t].path \notin DOMAIN cache
    /\ thread' = [thread EXCEPT ![t] = Idle]
    /\ UNCHANGED <<disk, version, serverVars, gets>>

Sends(t, chunk) ==
    /\ Len(thread[t].body) < thread[t].announced
    /\ thread' = [thread EXCEPT ![t].body = Append(@, chunk)]

\* The cached contents go to the client, who may be slow.
SendCached(t) ==
    /\ thread[t].does = "sendingCached"
    /\ LET contents == IF thread[t].path \in DOMAIN cache THEN cache[thread[t].path] ELSE <<>>
           next == Len(thread[t].body) + 1
       IN Sends(t, IF next \in DOMAIN contents THEN contents[next] ELSE Garbage)
    /\ UNCHANGED <<disk, version, serverVars, gets>>

\* DynamicFileServer::get(): a generated file comes before one of the folder, and one
\* whose size is not known at once is put together before its size is announced.
FindGenerated(t) ==
    /\ thread[t].does = "dynamic" /\ thread[t].path \in DOMAIN Providers
    /\ LET chunks == FlattenSeq(Providers[thread[t].path].chunks)
       IN thread' = [thread EXCEPT ![t] =
            [does |-> "sendingDynamic", path |-> @.path,
             announced |-> Len(chunks), body |-> chunks]]
    /\ UNCHANGED <<disk, version, serverVars, gets>>

FindDynamic(t) ==
    /\ thread[t].does = "dynamic" /\ thread[t].path \notin DOMAIN Providers
    /\ OnDisk(thread[t].path) \in DOMAIN disk \ NoExtension
    /\ Announce(t, "sendingDynamic", disk[OnDisk(thread[t].path)])
    /\ UNCHANGED <<disk, version, serverVars, gets>>

\* There is no such file; or it has no extension, and an exception ends the request.
RefuseDynamic(t) ==
    /\ thread[t].does = "dynamic" /\ thread[t].path \notin DOMAIN Providers
    /\ OnDisk(thread[t].path) \notin DOMAIN disk \ NoExtension
    /\ thread' = [thread EXCEPT ![t] = Idle]
    /\ UNCHANGED <<disk, version, serverVars, gets>>

\* A chunk is read from the file as it is now: it may be another version of it, or end
\* before the announced size, and then the buffer on the stack has what it had.
SendDynamic(t) ==
    /\ thread[t].does = "sendingDynamic"
    /\ LET path == OnDisk(thread[t].path)
           next == Len(thread[t].body) + 1
       IN Sends(t, IF path \in DOMAIN disk /\ next \in DOMAIN disk[path]
                   THEN disk[path][next] ELSE Garbage)
    /\ UNCHANGED <<disk, version, serverVars, gets>>

\* The call ends, with it the shared lock.
Conclude(t) ==
    /\ thread[t].does \in {"sendingCached", "sendingDynamic"}
    /\ Len(thread[t].body) = thread[t].announced
    /\ thread' = [thread EXCEPT ![t] = Idle]
    /\ UNCHANGED <<disk, version, serverVars, gets>>
-----------------------------------------------------------------------------
\* addGeneratedFile(), which takes no lock: the application has to call it while
\* nothing else goes on.  It runs the modifier before it keeps it.
AddGenerated(path) ==
    /\ loader.does = "idle" /\ Sharing = {}
    /\ path \notin Range(modifiers)
    /\ cache' = Inserted(cache, path, GeneratedContents)
    /\ modifiers' = Append(modifiers, path)
    /\ loaded' = [loaded EXCEPT !.paths = @ \union {path}]
    /\ UNCHANGED <<disk, version, loader, reloads, thread, gets>>

CallReload(how) ==
    /\ loader.does = "idle"
    /\ reloads < MaxReloads
    /\ reloads' = reloads + 1
    /\ loader' = [does |-> how]
    /\ UNCHANGED <<disk, version, cache, modifiers, thread, gets, loaded>>

\* Fault: reload() does not wait for the threads that send.
FaultMayFill == TRUE
MayFill == Sharing = {}

\* The lock is there: the cache is emptied, and the folder listed.
StartFilling ==
    /\ loader.does \in {"reload", "reset"} /\ MayFill
    /\ modifiers' = IF loader.does = "reset" THEN <<>> ELSE modifiers
    /\ cache' = <<>>
    /\ loader' = [does |-> "files", left |-> Names, applied |-> 0]
    /\ UNCHANGED <<disk, version, reloads, thread, gets, loaded>>

\* The next file is opened, if it is still there.
OpenFile(name) ==
    /\ loader.does = "files" /\ name \in loader.left /\ OnDisk(name) \notin NoExtension
    /\ loader' = [does |-> "reading", left |-> loader.left \ {name}, applied |-> loader.applied,
                  name |-> name, opened |-> version, contents |-> <<>>]
    /\ UNCHANGED <<disk, version, cache, modifiers, reloads, thread, gets, loaded>>

\* What a stream may yield behind so many chunks, <<>> being its end: what the file has
\* there now.  If the folder has changed since the opening it may also end early, the
\* file being written, or go on with an older version, if the file was removed: a
\* stream keeps it.
Yields(name, read, opened) ==
    LET path == OnDisk(name)
        now == IF path \in DOMAIN disk /\ read + 1 \in DOMAIN disk[path]
               THEN <<disk[path][read + 1]>> ELSE <<>>
        kept == IF path \notin DOMAIN disk /\ \E length \in Lengths : read < length
                THEN 1 .. version - 1 ELSE {}
    IN IF version = opened THEN {now} ELSE {now, <<>>} \union {<<v>> : v \in kept}

Yielded == Yields(loader.name, Len(loader.contents), loader.opened)

ReadChunk ==
    /\ loader.does = "reading"
    /\ \E chunk \in Yielded \ {<<>>} : loader' = [loader EXCEPT !.contents = @ \o chunk]
    /\ UNCHANGED <<disk, version, cache, modifiers, reloads, thread, gets, loaded>>

\* The file has ended, and is entered.
EnterFile ==
    /\ loader.does = "reading" /\ <<>> \in Yielded
    /\ cache' = Inserted(cache, loader.name, loader.contents)
    /\ loader' = [does |-> "files", left |-> loader.left, applied |-> loader.applied]
    /\ UNCHANGED <<disk, version, modifiers, reloads, thread, gets, loaded>>

\* Fault: the exception leaves without the lock being released.
FaultUnlocked == [does |-> "files", left |-> {}, applied |-> Len(modifiers) + 1]
Unlocked == Idle

\* extensionDescription() of a file without an extension throws: reload() ends with
\* what the cache has by then.
FailToLoad(name) ==
    /\ loader.does = "files" /\ name \in loader.left /\ OnDisk(name) \in NoExtension
    /\ loader' = Unlocked
    /\ loaded' = [loaded EXCEPT !.whole = FALSE]
    /\ UNCHANGED <<disk, version, cache, modifiers, reloads, thread, gets>>

StartModifiers ==
    /\ loader.does = "files" /\ loader.left = {} /\ loader.applied = 0
    /\ loader' = [loader EXCEPT !.does = "modifiers"]
    /\ UNCHANGED <<disk, version, cache, modifiers, reloads, thread, gets, loaded>>

\* Fault: the last modifier is not applied.
FaultAllApplied == loader.applied >= Len(modifiers) - 1
AllApplied == loader.applied = Len(modifiers)

ApplyModifier ==
    /\ loader.does = "modifiers" /\ ~AllApplied
    /\ LET path == modifiers[loader.applied + 1] IN cache' = Inserted(cache, path, GeneratedContents)
    /\ loader' = [loader EXCEPT !.applied = @ + 1]
    /\ UNCHANGED <<disk, version, modifiers, reloads, thread, gets, loaded>>

FinishLoading ==
    /\ loader.does = "modifiers" /\ AllApplied
    /\ loader' = Idle
    /\ loaded' = [paths |-> DOMAIN cache, whole |-> TRUE]
    /\ UNCHANGED <<disk, version, cache, modifiers, reloads, thread, gets>>
-----------------------------------------------------------------------------
Paths == Files \union {Root} \union Generated \union DOMAIN Providers

Get(t) ==
    \/ FindCached(t) \/ RefuseCached(t) \/ SendCached(t)
    \/ FindGenerated(t) \/ FindDynamic(t) \/ RefuseDynamic(t) \/ SendDynamic(t)
    \/ Conclude(t)

Load ==
    \/ StartFilling
    \/ \E name \in Files \union {Root} : OpenFile(name) \/ FailToLoad(name)
    \/ ReadChunk \/ EnterFile
    \/ StartModifiers \/ ApplyModifier \/ FinishLoading

Next ==
    \/ \E path \in Files : ChangeFile(path)
    \/ \E t \in Threads, server \in {"cached", "dynamic"}, path \in Paths : Calls(t, server, path)
    \/ \E t \in Threads : Get(t)
    \/ \E path \in Generated : AddGenerated(path)
    \/ \E how \in {"reload", "reset"} : CallReload(how)
    \/ Load

Spec == Init /\ [][Next]_vars

\* Every thread is run, and every client takes its response.
FairSpec == Spec /\ WF_vars(Load) /\ \A t \in Threads : WF_vars(Get(t))
-----------------------------------------------------------------------------
\* What the caching server sends is as long as its header says, and all of one copy: a
\* cached file that is being sent is not dropped or replaced, however long the client
\* takes, though it is reloaded again and again.  (The copy itself may be a mixture, if
\* the file was written while it was read into the cache.)
OneCopySent ==
    \A t \in Sharing :
        /\ thread[t].path \in DOMAIN cache
        /\ thread[t].announced = Len(cache[thread[t].path])
        /\ IsPrefix(thread[t].body, cache[thread[t].path])

\* A reload is not to be seen: the caching server says that it has not got a file only
\* if the last load that came to its end had not got it, or one has failed since.
Refused(t) == thread[t].does = "cached" /\ thread'[t] = Idle
NothingMissing ==
    [][\A t \in Threads : Refused(t) /\ loaded.whole => thread[t].path \notin loaded.paths]_vars

\* Generated files survive every reload(), except one that failed: whenever the cache
\* may be used it has them.
GeneratedSurvive ==
    ~Exclusive /\ loaded.whole => Range(modifiers) \subseteq DOMAIN cache

\* Every get is answered and every reload ends, though they wait for each other and
\* a load may fail half way.
AllReturn ==
    /\ \A t \in Threads : []<>(thread[t].does = "idle")
    /\ []<>(loader.does = "idle")
=============================================================================
