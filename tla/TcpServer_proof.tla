--------------------------- MODULE TcpServer_proof --------------------------
(***************************************************************************)
(* The registry of sessions: proofs for every set of sessions.             *)
(*                                                                         *)
(* That the registry is consistent does not depend on who destroys what:   *)
(* swapping with the last session and popping it keeps every _index right, *)
(* with whatever index destroySession() is called.  So it is proved for    *)
(* any number of threads.  That the right session is destroyed needs that  *)
(* the index is still the one of the session, and so a single thread.      *)
(***************************************************************************)
EXTENDS TcpServer, TLAPS

TypeInv ==
    /\ sessions \in Seq(Sessions)
    /\ index \in [Sessions -> Nat]
    /\ pending \subseteq Sessions
    /\ accepting \in BOOLEAN
    /\ worker \in [Threads -> [at : {"run", "receive", "send", "blocked", "fed",
                                     "time", "destroySession"},
                               session : Sessions \union {None},
                               index : Nat]]
    /\ \A t \in Threads : worker[t].at # "run" => worker[t].session \in Sessions
    /\ server \in {"running", "stopping", "joined"}

IInv == TypeInv /\ RegistryConsistent

\* A handler that will destroy its session has the index the session still has.
IndexCurrent ==
    \A t \in Threads :
        worker[t].at = "destroySession" => worker[t].index = index[worker[t].session]

OneThreadInv == IInv /\ NoUseAfterDestroy /\ IndexCurrent

OneThread == \A t, u \in Threads : t = u
-----------------------------------------------------------------------------
(***************************************************************************)
(* What destroySession(i) leaves of the vector and the indices.            *)
(***************************************************************************)
Moved(i) == IF NotLast(i) THEN [sessions EXCEPT ![i + 1] = Last(sessions)] ELSE sessions
Victim(i) == IF NotLast(i) THEN sessions[i + 1] ELSE Last(sessions)

LEMMA MovedLemma ==
    ASSUME sessions \in Seq(Sessions), sessions # <<>>, NEW i \in Nat
    PROVE  /\ Len(sessions) \in Nat \ {0}
           /\ Front(Moved(i)) \in Seq(Sessions)
           /\ Len(Front(Moved(i))) = Len(sessions) - 1
           /\ \A j \in 1 .. Len(sessions) - 1 :
                Front(Moved(i))[j] = IF j = i + 1 THEN Last(sessions) ELSE sessions[j]
<1>1. /\ Len(sessions) \in Nat \ {0} /\ DOMAIN sessions = 1 .. Len(sessions)
      /\ \A j \in 1 .. Len(sessions) : sessions[j] \in Sessions
  OBVIOUS
<1>2. /\ Moved(i) \in Seq(Sessions) /\ Len(Moved(i)) = Len(sessions)
      /\ \A j \in 1 .. Len(sessions) - 1 :
            Moved(i)[j] = IF j = i + 1 THEN Last(sessions) ELSE sessions[j]
  BY <1>1 DEF Moved, NotLast, Last
<1>3. QED
  BY <1>1, <1>2 DEF Front

\* Two sessions of a consistent registry differ.
LEMMA Distinct ==
    ASSUME sessions \in Seq(Sessions), RegistryConsistent,
           NEW i \in 1 .. Len(sessions), NEW j \in 1 .. Len(sessions), sessions[i] = sessions[j]
    PROVE  i = j
BY DEF RegistryConsistent

LEMMA AliveLemma ==
    ASSUME IInv
    PROVE  \A s : s \in Alive <=> \E k \in 1 .. Len(sessions) : sessions[k] = s
BY DEF IInv, TypeInv, Alive, ToSet
-----------------------------------------------------------------------------
LEMMA DestroyIInv ==
    ASSUME IInv, NEW t \in Threads, DestroySession(t)
    PROVE  IInv'
<1> DEFINE i == worker[t].index
<1>1. /\ i \in Nat /\ sessions # <<>> /\ sessions \in Seq(Sessions)
      /\ sessions' = Front(Moved(i)) /\ index' = MovedIndex(i)
  BY DEF IInv, TypeInv, DestroySession, Moved
<1>2. /\ Len(sessions) \in Nat \ {0}
      /\ sessions' \in Seq(Sessions) /\ Len(sessions') = Len(sessions) - 1
      /\ \A j \in 1 .. Len(sessions) - 1 :
            sessions'[j] = IF j = i + 1 THEN Last(sessions) ELSE sessions[j]
  BY <1>1, MovedLemma
<1> DEFINE last == sessions[Len(sessions)]
<1>3. last \in Sessions /\ last = Last(sessions)
  BY <1>1, <1>2 DEF Last
<1>4. index' = IF NotLast(i) THEN [index EXCEPT ![last] = i] ELSE index
  BY <1>1, <1>3 DEF MovedIndex
<1>5. worker' = [worker EXCEPT ![t] = Idle]
  BY DEF DestroySession, AfterDestroy
<1>6. TypeInv'
  <2>1. index' \in [Sessions -> Nat]
    BY <1>1, <1>4, <1>3 DEF IInv, TypeInv
  <2>2. pending' \subseteq Sessions /\ accepting' = accepting /\ server' = server
    BY DEF IInv, TypeInv, DestroySession
  <2>3. /\ worker' \in [Threads -> [at : {"run", "receive", "send", "blocked", "fed",
                                      "time", "destroySession"},
                               session : Sessions \union {None}, index : Nat]]
        /\ \A u \in Threads : worker'[u].at # "run" => worker'[u].session \in Sessions
    BY <1>5 DEF IInv, TypeInv, Idle
  <2>4. QED
    BY <1>2, <2>1, <2>2, <2>3 DEF IInv, TypeInv
<1>7. RegistryConsistent'
  <2> SUFFICES ASSUME NEW j \in 1 .. Len(sessions')
               PROVE  index'[sessions'[j]] = j - 1
    BY DEF RegistryConsistent
  <2>1. /\ j \in 1 .. Len(sessions) /\ j # Len(sessions)
        /\ sessions[j] \in Sessions /\ index[sessions[j]] = j - 1 /\ sessions[j] # last
    BY <1>1, <1>2, Distinct DEF IInv, RegistryConsistent
  <2>2. CASE j = i + 1
    <3>1. NotLast(i) /\ sessions'[j] = last
      BY <1>1, <1>2, <1>3, <2>1, <2>2 DEF NotLast
    <3>2. QED
      BY <1>1, <1>3, <1>4, <2>2, <3>1 DEF IInv, TypeInv
  <2>3. CASE j # i + 1
    <3>1. sessions'[j] = sessions[j]
      BY <1>2, <2>1, <2>3
    <3>2. QED
      BY <1>3, <1>4, <2>1, <3>1 DEF IInv, TypeInv
  <2>4. QED
    BY <2>2, <2>3
<1>8. QED
  BY <1>6, <1>7 DEF IInv

LEMMA AcceptIInv ==
    ASSUME IInv, NEW t \in Threads, Accept(t)
    PROVE  IInv'
<1>1. PICK s \in Sessions \ Alive :
        /\ s \notin pending
        /\ index' = [index EXCEPT ![s] = Len(sessions)]
        /\ sessions' = Append(sessions, s)
        /\ pending' = pending \union {s}
  BY DEF Accept, NewIndex
<1>2. UNCHANGED <<accepting, worker, server>>
  BY DEF Accept
<1>3. TypeInv'
  BY <1>1, <1>2 DEF IInv, TypeInv
<1>4. RegistryConsistent'
  <2> SUFFICES ASSUME NEW j \in 1 .. Len(sessions')
               PROVE  index'[sessions'[j]] = j - 1
    BY DEF RegistryConsistent
  <2>1. sessions \in Seq(Sessions) /\ Len(sessions) \in Nat /\ index \in [Sessions -> Nat]
        /\ Len(sessions') = Len(sessions) + 1
    BY <1>1 DEF IInv, TypeInv
  <2>2. CASE j = Len(sessions) + 1
    BY <1>1, <2>1, <2>2
  <2>3. CASE j \in 1 .. Len(sessions)
    <3>1. sessions'[j] = sessions[j] /\ sessions[j] \in Alive /\ sessions[j] \in Sessions
      BY <1>1, <2>1, <2>3, AliveLemma
    <3>2. QED
      BY <1>1, <2>1, <2>3, <3>1 DEF IInv, RegistryConsistent
  <2>4. QED
    BY <2>1, <2>2, <2>3
<1>5. QED
  BY <1>3, <1>4 DEF IInv

\* The other actions leave the registry alone; Join empties it.
LEMMA OthersIInv ==
    ASSUME IInv,
           \/ \E t \in Threads : \/ AcceptError(t) \/ Handle(t) \/ ReadSome(t)
                                 \/ Feed(t) \/ Sent(t) \/ Blocks(t) \/ Unblocks(t)
                                 \/ AddTime(t) \/ Cancel(t)
           \/ StopRunning \/ Join
           \/ UNCHANGED vars
    PROVE  IInv'
<1>1. ASSUME NEW t \in Threads, AcceptError(t) PROVE IInv'
  BY <1>1 DEF IInv, TypeInv, RegistryConsistent, AcceptError
<1>2. ASSUME NEW t \in Threads, Handle(t) PROVE IInv'
  BY <1>2 DEF IInv, TypeInv, RegistryConsistent, Handle
<1>3. ASSUME NEW t \in Threads, ReadSome(t) PROVE IInv'
  BY <1>3 DEF IInv, TypeInv, RegistryConsistent, ReadSome
<1>4. ASSUME NEW t \in Threads, AddTime(t) PROVE IInv'
  BY <1>4 DEF IInv, TypeInv, RegistryConsistent, AddTime, Idle
<1>5. ASSUME NEW t \in Threads, Cancel(t) PROVE IInv'
  BY <1>5 DEF IInv, TypeInv, RegistryConsistent, Cancel
<1>6. CASE StopRunning
  BY <1>6 DEF IInv, TypeInv, RegistryConsistent, StopRunning
<1>7. CASE Join
  BY <1>7 DEF IInv, TypeInv, RegistryConsistent, Join
<1>8. CASE UNCHANGED vars
  BY <1>8 DEF IInv, TypeInv, RegistryConsistent, vars
<1>9. ASSUME NEW t \in Threads, Feed(t) \/ Sent(t) \/ Blocks(t) \/ Unblocks(t)
      PROVE  IInv'
  <2>1. PICK at \in {"send", "blocked", "fed"} : worker' = [worker EXCEPT ![t].at = at]
    BY <1>9 DEF Feed, Sent, Blocks, Unblocks
  <2>2. worker[t].at # "run" /\ UNCHANGED <<sessions, index, pending, accepting, server>>
    BY <1>9 DEF Feed, Sent, Blocks, Unblocks
  <2>3. QED
    BY <2>1, <2>2 DEF IInv, TypeInv, RegistryConsistent
<1>10. QED
  BY <1>1, <1>2, <1>3, <1>4, <1>5, <1>6, <1>7, <1>8, <1>9

LEMMA InitIInv == Init => IInv
BY DEF Init, IInv, TypeInv, RegistryConsistent, Idle

LEMMA NextIInv == IInv /\ [Next]_vars => IInv'
BY DestroyIInv, AcceptIInv, OthersIInv DEF Next

\* IInv is an invariant, for any number of threads.
THEOREM Inductive == Spec => []IInv
BY InitIInv, NextIInv, PTL DEF Spec

\* Variables keep their types; no session in the registry has an _index behind its end.
THEOREM TypeCorrect == Spec => []TypeOK
<1>1. IInv => TypeOK
  <2> SUFFICES ASSUME IInv PROVE TypeOK
    OBVIOUS
  <2>1. \A s \in Alive : index[s] \in 0 .. (Len(sessions) - 1)
    BY AliveLemma DEF IInv, TypeInv, RegistryConsistent
  <2>2. QED
    BY <2>1 DEF IInv, TypeInv, TypeOK
<1>2. QED
  BY <1>1, Inductive, PTL

\* The registry stays consistent however sessions come and go, for any number of
\* threads, and also if destroySession() is called with an index that is stale.
THEOREM RegistryIsConsistent == Spec => []RegistryConsistent
<1>1. IInv => RegistryConsistent
  BY DEF IInv
<1>2. QED
  BY <1>1, Inductive, PTL
-----------------------------------------------------------------------------
(***************************************************************************)
(* With one thread in run().                                               *)
(***************************************************************************)
\* destroySession() with the index of a session takes out this session alone.
LEMMA DestroysOwn ==
    ASSUME OneThreadInv, NEW t \in Threads, DestroySession(t)
    PROVE  /\ Alive' = Alive \ {worker[t].session}
           /\ Len(sessions') = Len(sessions) - 1
           /\ pending' = pending \ {worker[t].session}
<1> DEFINE i == worker[t].index
           s == worker[t].session
<1>1. /\ i \in Nat /\ sessions # <<>> /\ sessions \in Seq(Sessions)
      /\ sessions' = Front(Moved(i)) /\ pending' = pending \ {Victim(i)}
  BY DEF OneThreadInv, IInv, TypeInv, DestroySession, Moved, Victim
<1>2. /\ Len(sessions) \in Nat \ {0} /\ Len(sessions') = Len(sessions) - 1
      /\ \A j \in 1 .. Len(sessions) - 1 :
            sessions'[j] = IF j = i + 1 THEN Last(sessions) ELSE sessions[j]
  BY <1>1, MovedLemma
<1>3. PICK k \in 1 .. Len(sessions) : sessions[k] = s
  BY AliveLemma DEF OneThreadInv, NoUseAfterDestroy, DestroySession
<1>4. i = k - 1
  BY <1>3 DEF OneThreadInv, IndexCurrent, IInv, RegistryConsistent, DestroySession
<1>5. Victim(i) = s
  BY <1>1, <1>2, <1>3, <1>4 DEF Victim, NotLast, Last
<1>6. IInv'
  BY DestroyIInv DEF OneThreadInv
<1>7. \A r : r \in Alive' <=> \E j \in 1 .. Len(sessions') : sessions'[j] = r
  <2>1. sessions' \in Seq(Sessions)
    BY <1>6 DEF IInv, TypeInv
  <2>2. DOMAIN sessions' = 1 .. Len(sessions')
    BY <2>1
  <2>3. Alive' = {sessions'[j] : j \in DOMAIN sessions'}
    BY DEF Alive, ToSet
  <2>4. QED
    BY <2>2, <2>3
<1>8. \A r : r \in Alive <=> \E j \in 1 .. Len(sessions) : sessions[j] = r
  BY AliveLemma DEF OneThreadInv
<1>9. ASSUME NEW r \in Alive' PROVE r \in Alive \ {s}
  <2>1. PICK j \in 1 .. Len(sessions') : sessions'[j] = r
    BY <1>7, <1>9
  <2>2. PICK m \in 1 .. Len(sessions) : sessions[m] = r /\ m # k
    BY <1>2, <1>4, <2>1 DEF Last
  <2>3. QED
    BY <1>3, <1>8, <2>2, Distinct DEF OneThreadInv, IInv, TypeInv
<1>10. ASSUME NEW r \in Alive \ {s} PROVE r \in Alive'
  <2>1. PICK j \in 1 .. Len(sessions) : sessions[j] = r
    BY <1>8, <1>10
  <2>2. j # k
    BY <1>3, <2>1, <1>10
  <2>3. CASE j = Len(sessions)
    BY <1>2, <1>4, <1>7, <2>1, <2>2, <2>3 DEF Last
  <2>4. CASE j # Len(sessions)
    BY <1>2, <1>4, <1>7, <2>1, <2>2, <2>4
  <2>5. QED
    BY <2>3, <2>4
<1>11. QED
  BY <1>1, <1>2, <1>5, <1>9, <1>10

LEMMA OneThreadStep ==
    ASSUME OneThread, OneThreadInv, [Next]_vars
    PROVE  OneThreadInv'
<1> SUFFICES NoUseAfterDestroy' /\ IndexCurrent'
  BY NextIInv DEF OneThreadInv
<1>1. ASSUME NEW t \in Threads, Accept(t)
      PROVE  NoUseAfterDestroy' /\ IndexCurrent'
  <2>1. \A u \in Threads : worker'[u] = worker[u] /\ worker[u].at = "run"
    BY <1>1 DEF Accept, Takes, OneThread
  <2>2. PICK s \in Sessions : sessions' = Append(sessions, s) /\ pending' = pending \union {s}
    BY <1>1 DEF Accept
  <2>3. Alive \union {s} \subseteq Alive'
    <3>1. /\ sessions \in Seq(Sessions) /\ Len(sessions') = Len(sessions) + 1
          /\ Len(sessions) \in Nat /\ sessions'[Len(sessions) + 1] = s
          /\ DOMAIN sessions = 1 .. Len(sessions)
          /\ DOMAIN sessions' = 1 .. Len(sessions) + 1
          /\ \A j \in 1 .. Len(sessions) : sessions'[j] = sessions[j]
      BY <2>2 DEF OneThreadInv, IInv, TypeInv
    <3>2. QED
      BY <3>1 DEF Alive, ToSet
  <2>4. QED
    BY <2>1, <2>2, <2>3 DEF OneThreadInv, NoUseAfterDestroy, IndexCurrent
<1>2. ASSUME NEW t \in Threads, DestroySession(t)
      PROVE  NoUseAfterDestroy' /\ IndexCurrent'
  <2>1. worker' = [worker EXCEPT ![t] = Idle]
    BY <1>2 DEF DestroySession, AfterDestroy
  <2>2. \A u \in Threads : worker'[u].at = "run"
    BY <2>1 DEF OneThread, OneThreadInv, IInv, TypeInv, Idle
  <2>3. QED
    BY <1>2, <2>2, DestroysOwn DEF OneThreadInv, NoUseAfterDestroy, IndexCurrent
<1>3. ASSUME NEW t \in Threads, AcceptError(t) \/ Handle(t) \/ ReadSome(t) \/ AddTime(t) \/ Cancel(t)
      PROVE  NoUseAfterDestroy' /\ IndexCurrent'
  <2>1. Alive' = Alive /\ index' = index
    BY <1>3 DEF AcceptError, Handle, ReadSome, AddTime, Cancel, Alive
  <2>2. \A u \in Threads : u = t
    BY DEF OneThread
  <2>3. CASE AcceptError(t)
    BY <2>1, <2>3 DEF AcceptError, OneThreadInv, NoUseAfterDestroy, IndexCurrent
  <2>4. CASE Handle(t)
    <3>1. PICK s \in pending :
            /\ pending' = pending \ {s}
            /\ worker' = [worker EXCEPT ![t] = [at |-> "receive", session |-> s, index |-> 0]]
      BY <2>4 DEF Handle
    <3>2. worker'[t] = [at |-> "receive", session |-> s, index |-> 0]
      BY <3>1 DEF OneThreadInv, IInv, TypeInv
    <3>3. QED
      BY <2>1, <2>2, <3>1, <3>2 DEF OneThreadInv, NoUseAfterDestroy, IndexCurrent
  <2>5. CASE ReadSome(t)
    <3>1. worker'[t].at = "time" /\ worker'[t].session = worker[t].session
      BY <2>5 DEF ReadSome, OneThreadInv, IInv, TypeInv
    <3>2. QED
      BY <2>1, <2>2, <2>5, <3>1 DEF ReadSome, OneThreadInv, NoUseAfterDestroy, IndexCurrent
  <2>6. CASE AddTime(t)
    <3>1. worker'[t].at = "run"
      BY <2>6 DEF AddTime, Idle, OneThreadInv, IInv, TypeInv
    <3>2. QED
      BY <2>1, <2>2, <2>6, <3>1 DEF AddTime, OneThreadInv, NoUseAfterDestroy, IndexCurrent
  <2>7. CASE Cancel(t)
    <3>1. /\ worker'[t].session = worker[t].session
          /\ worker'[t].index = index[worker[t].session]
      BY <2>7 DEF Cancel, OneThreadInv, IInv, TypeInv
    <3>2. worker[t].session \in Alive /\ worker'[t].index = index'[worker'[t].session]
      BY <2>1, <2>7, <3>1 DEF Cancel, OneThreadInv, NoUseAfterDestroy
    <3>3. IndexCurrent'
      BY <2>2, <3>2 DEF IndexCurrent
    <3>4. NoUseAfterDestroy'
      <4>1. pending' = pending /\ pending \subseteq Alive'
        BY <2>1, <2>7 DEF Cancel, OneThreadInv, NoUseAfterDestroy
      <4>2. worker'[t].session \in Alive'
        BY <2>1, <3>1, <3>2
      <4>3. QED
        BY <2>2, <4>1, <4>2 DEF NoUseAfterDestroy
    <3>5. QED
      BY <3>3, <3>4
  <2>8. QED
    BY <1>3, <2>3, <2>4, <2>5, <2>6, <2>7
<1>8. ASSUME NEW t \in Threads, Feed(t) \/ Sent(t) \/ Blocks(t) \/ Unblocks(t)
      PROVE  NoUseAfterDestroy' /\ IndexCurrent'
  <2>1. PICK at \in {"send", "blocked", "fed"} : worker' = [worker EXCEPT ![t].at = at]
    BY <1>8 DEF Feed, Sent, Blocks, Unblocks
  <2>2. /\ Alive' = Alive /\ index' = index /\ pending' = pending
        /\ worker[t].at # "run"
    BY <1>8 DEF Feed, Sent, Blocks, Unblocks, Alive
  <2>3. worker'[t].at = at /\ worker'[t].session = worker[t].session
    BY <2>1 DEF OneThreadInv, IInv, TypeInv
  <2>4. \A u \in Threads : u = t
    BY DEF OneThread
  <2>5. QED
    BY <2>2, <2>3, <2>4 DEF OneThreadInv, NoUseAfterDestroy, IndexCurrent
<1>4. CASE StopRunning
  BY <1>4 DEF StopRunning, OneThreadInv, NoUseAfterDestroy, IndexCurrent, Alive
<1>5. CASE Join
  BY <1>5 DEF Join, MayJoin, OneThreadInv, NoUseAfterDestroy, IndexCurrent, Alive
<1>6. CASE UNCHANGED vars
  BY <1>6 DEF vars, OneThreadInv, NoUseAfterDestroy, IndexCurrent, Alive
<1>7. QED
  BY <1>1, <1>2, <1>3, <1>4, <1>5, <1>6, <1>8 DEF Next

LEMMA OneThreadInit == Init => OneThreadInv
BY InitIInv DEF Init, OneThreadInv, NoUseAfterDestroy, IndexCurrent, Idle

\* With one thread in run(), as in BackgroundTcpServer, OneThreadInv is an invariant.
THEOREM OneThreadInductive ==
    ASSUME OneThread PROVE Spec => []OneThreadInv
<1>1. OneThreadInv /\ [Next]_vars => OneThreadInv'
  BY OneThreadStep
<1>2. QED
  BY <1>1, OneThreadInit, PTL DEF Spec

\* With one thread a handler works, and a read is pending, only for a session that
\* has not been destroyed.
THEOREM NothingUsedAfterDestroy ==
    ASSUME OneThread PROVE Spec => []NoUseAfterDestroy
<1>1. OneThreadInv => NoUseAfterDestroy
  BY DEF OneThreadInv
<1>2. QED
  BY <1>1, OneThreadInductive, PTL

\* With one thread cancel() destroys the session that called it, and no other one.
THEOREM DestroysItself ==
    ASSUME OneThread PROVE Spec => DestroysThis
<1>1. OneThreadInv /\ [Next]_vars =>
        [\A t \in Threads :
            worker[t].at = "destroySession" /\ worker'[t] # worker[t] =>
                /\ Alive' = Alive \ {worker[t].session}
                /\ Len(sessions') = Len(sessions) - 1]_vars
  <2> SUFFICES ASSUME OneThreadInv, Next, NEW t \in Threads,
                      worker[t].at = "destroySession", worker'[t] # worker[t]
               PROVE  /\ Alive' = Alive \ {worker[t].session}
                      /\ Len(sessions') = Len(sessions) - 1
    OBVIOUS
  <2>1. \A u \in Threads : u = t
    BY DEF OneThread
  <2>2. DestroySession(t)
    BY <2>1 DEF Next, Accept, AcceptError, Handle, Takes, Feed, Sent, Blocks, Unblocks,
                ReadSome, AddTime, Cancel, StopRunning, Join
  <2>3. QED
    BY <2>2, DestroysOwn
<1>2. QED
  BY <1>1, OneThreadInductive, PTL DEF Spec, DestroysThis
=============================================================================
