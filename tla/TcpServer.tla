----------------------------- MODULE TcpServer -----------------------------
(***************************************************************************)
(* TcpServer and BackgroundTcpServer (src/bomba_tcp_server.hpp): accepting *)
(* connections, the registry of their sessions, and the end of a session   *)
(* and of the server.                                                      *)
(*                                                                         *)
(* The threads that call run() execute completion handlers, one at a time  *)
(* each.  A session has at most one completion pending: the read that      *)
(* readSome() started.  The registry is a vector in which every session    *)
(* knows its own index; a session leaves it by swapping with the last one. *)
(* Code under _sessionsLock is one step; what a handler reads or does      *)
(* outside of the lock is a step of its own.                               *)
(***************************************************************************)
EXTENDS Integers, Sequences, SequencesExt

CONSTANTS
    Threads,     \* the threads in run()
    Sessions,    \* session objects, a destroyed one may be created anew
    None         \* no session

ASSUME ServerAssumption == None \notin Sessions

VARIABLES
    sessions,    \* _sessions
    index,       \* _index of every session
    pending,     \* the sessions whose async_receive has not been handled yet
    accepting,   \* whether an async_accept is pending
    worker,      \* what every thread is doing, for which session
    server       \* "running", "stopping" once stop() was called, "joined"

vars == <<sessions, index, pending, accepting, worker, server>>

Idle == [at |-> "run", session |-> None, index |-> 0]
Alive == ToSet(sessions)
-----------------------------------------------------------------------------
Init ==
    /\ sessions = <<>>
    /\ index = [s \in Sessions |-> 0]
    /\ pending = {}
    /\ accepting = TRUE
    /\ worker = [t \in Threads |-> Idle]
    /\ server = "running"

\* A thread takes a completion only in run(), and run() returns after stop().
Takes(t) == server = "running" /\ worker[t].at = "run"

\* Fault: the index is that of a session already counted.
FaultNewIndex == Len(sessions) + 1

NewIndex == Len(sessions)

\* A connection is accepted: its session is created at the end of the vector,
\* its constructor starts the first read, and the next accept is started.
Accept(t) ==
    /\ Takes(t)
    /\ accepting
    /\ \E s \in Sessions \ Alive :
        /\ s \notin pending
        /\ index' = [index EXCEPT ![s] = NewIndex]
        /\ sessions' = Append(sessions, s)
        /\ pending' = pending \union {s}
    /\ UNCHANGED <<accepting, worker, server>>

\* async_accept completes with an error: the handler returns, and no further
\* accept is ever started.
AcceptError(t) ==
    /\ Takes(t)
    /\ accepting
    /\ accepting' = FALSE
    /\ UNCHANGED <<sessions, index, pending, worker, server>>

\* A read completes: its handler starts and runs _buffer.receive().
Handle(t) ==
    /\ Takes(t)
    /\ \E s \in pending :
        /\ pending' = pending \ {s}
        /\ worker' = [worker EXCEPT ![t] = [at |-> "receive", session |-> s, index |-> 0]]
    /\ UNCHANGED <<sessions, index, accepting, server>>

\* receive() hands what it read to the responder, which writes to the socket in
\* feedToResponder() or has nothing to write yet.
Feed(t) ==
    /\ worker[t].at = "receive"
    /\ \E at \in {"send", "fed"} : worker' = [worker EXCEPT ![t].at = at]
    /\ UNCHANGED <<sessions, index, pending, accepting, server>>

\* The socket took all that was written, and receive() goes on to its end.
Sent(t) ==
    /\ worker[t].at = "send"
    /\ worker' = [worker EXCEPT ![t].at = "fed"]
    /\ UNCHANGED <<sessions, index, pending, accepting, server>>

\* _socket.send() is a blocking one: as long as the peer does not read and the
\* buffers between are full, the handler waits, and its thread with it ...
Blocks(t) ==
    /\ worker[t].at = "send"
    /\ worker' = [worker EXCEPT ![t].at = "blocked"]
    /\ UNCHANGED <<sessions, index, pending, accepting, server>>

\* ... until the peer reads on.
Unblocks(t) ==
    /\ worker[t].at = "blocked"
    /\ worker' = [worker EXCEPT ![t].at = "send"]
    /\ UNCHANGED <<sessions, index, pending, accepting, server>>

\* receive() returned true: readSome() starts the next read ...
ReadSome(t) ==
    /\ worker[t].at = "fed"
    /\ pending' = pending \union {worker[t].session}
    /\ worker' = [worker EXCEPT ![t].at = "time"]
    /\ UNCHANGED <<sessions, index, accepting, server>>

\* ... and the handler ends after it has added up the time, through this->_parent.
AddTime(t) ==
    /\ worker[t].at = "time"
    /\ worker' = [worker EXCEPT ![t] = Idle]
    /\ UNCHANGED <<sessions, index, pending, accepting, server>>

\* Fault: a session whose communication ends is only closed.
FaultCancel(t) ==
    /\ worker[t].at = "fed"
    /\ worker' = [worker EXCEPT ![t] = Idle]
    /\ UNCHANGED <<sessions, index, pending, accepting, server>>

\* receive() returned false: cancel() closes the socket and reads _index, the
\* argument of destroySession(), before it waits for the lock.
Cancel(t) ==
    /\ worker[t].at = "fed"
    /\ worker' = [worker EXCEPT ![t].at = "destroySession",
                                ![t].index = index[worker[t].session]]
    /\ UNCHANGED <<sessions, index, pending, accepting, server>>

\* Is the session at index i of the vector followed by others?
FaultNotLast(i) == i < Len(sessions) - 2
NotLast(i) == i < Len(sessions) - 1

\* Fault: the session that takes the place of the destroyed one keeps its index.
FaultMovedIndex(i) == index

\* _index of every session once the last one is moved to index i.
MovedIndex(i) ==
    IF NotLast(i) THEN [index EXCEPT ![Last(sessions)] = i] ELSE index

\* Fault: the handler goes on after cancel(), which destroyed its session.
FaultAfterDestroy(t) == [worker[t] EXCEPT !.at = "time"]

\* What the handler does after cancel(): return.
AfterDestroy(t) == Idle

\* destroySession(i), under the lock: swap with the last session, pop it.
DestroySession(t) ==
    LET i == worker[t].index
        victim == IF NotLast(i) THEN sessions[i + 1] ELSE Last(sessions)
        moved == IF NotLast(i) THEN [sessions EXCEPT ![i + 1] = Last(sessions)] ELSE sessions
    IN  /\ worker[t].at = "destroySession"
        /\ sessions # <<>>
        /\ index' = MovedIndex(i)
        /\ sessions' = Front(moved)
        /\ pending' = pending \ {victim}
        /\ worker' = [worker EXCEPT ![t] = AfterDestroy(t)]
        /\ UNCHANGED <<accepting, server>>

\* stopRunning(); ~BackgroundTcpServer calls it first ...
StopRunning ==
    /\ server = "running"
    /\ server' = "stopping"
    /\ UNCHANGED <<sessions, index, pending, accepting, worker>>

\* Fault: the destructor waits until the connections have ended, too.
FaultMayJoin == sessions = <<>> /\ (\A t \in Threads : worker[t].at = "run")

\* The worker is joined when the handler it is in has ended.
MayJoin == \A t \in Threads : worker[t].at = "run"

\* ... and joins the worker; then the server and its sessions are destroyed.
Join ==
    /\ server = "stopping"
    /\ MayJoin
    /\ server' = "joined"
    /\ sessions' = <<>>
    /\ pending' = {}
    /\ UNCHANGED <<index, accepting, worker>>

\* The steps a handler takes by itself, once it is in a thread.
Handler(t) ==
    \/ Feed(t) \/ Sent(t)
    \/ ReadSome(t) \/ AddTime(t) \/ Cancel(t) \/ DestroySession(t)

Next ==
    \/ \E t \in Threads :
        \/ Accept(t) \/ AcceptError(t) \/ Handle(t)
        \/ Feed(t) \/ Sent(t) \/ Blocks(t) \/ Unblocks(t)
        \/ ReadSome(t) \/ AddTime(t) \/ Cancel(t) \/ DestroySession(t)
    \/ StopRunning
    \/ Join

Spec == Init /\ [][Next]_vars

\* A handler that was started runs on as long as it is not blocked in a send, and
\* a join returns once it can.  That a peer reads what it is sent (Unblocks) is
\* not assumed; whether anybody connects, sends, or stops the server is up to them.
FairSpec == Spec /\ (\A t \in Threads : WF_vars(Handler(t))) /\ WF_vars(Join)
-----------------------------------------------------------------------------
TypeOK ==
    /\ sessions \in Seq(Sessions)
    /\ \A s \in Alive : index[s] \in 0 .. (Len(sessions) - 1)
    /\ pending \subseteq Sessions
    /\ accepting \in BOOLEAN
    /\ worker \in [Threads -> [at : {"run", "receive", "send", "blocked", "fed",
                                     "time", "destroySession"},
                               session : Sessions \union {None},
                               index : Nat]]
    /\ server \in {"running", "stopping", "joined"}

\* The registry is consistent: every session is in the vector once, at the place
\* its own _index names, however sessions were created and destroyed before.
RegistryConsistent ==
    \A i \in 1 .. Len(sessions) : index[sessions[i]] = i - 1

\* Nobody touches a destroyed session: the session a handler works for, and one
\* whose read is still pending, is in the registry.
NoUseAfterDestroy ==
    /\ pending \subseteq Alive
    /\ \A t \in Threads : worker[t].at # "run" => worker[t].session \in Alive

\* Code comment at cancel(): "it destroys this".  What destroySession() takes out
\* of the registry is the session that called it, and nothing else.
DestroysThis ==
    [][\A t \in Threads :
        worker[t].at = "destroySession" /\ worker'[t] # worker[t] =>
            /\ Alive' = Alive \ {worker[t].session}
            /\ Len(sessions') = Len(sessions) - 1]_vars

\* A session whose communication ended is destroyed, and does not stay in the
\* registry with a closed socket, unless its handler is blocked in a send to it.
\* (It ended when no read of it is pending and no handler of it will start one.)
EndedSessionsDestroyed ==
    \A s \in Sessions :
        (s \in Alive /\ s \notin pending) ~>
            \/ s \notin Alive \/ s \in pending
            \/ \E t \in Threads : worker[t].at = "blocked" /\ worker[t].session = s

\* The destructor of BackgroundTcpServer returns, whatever its worker was doing
\* when stop() was called.  The one thing that keeps it is a peer that does not
\* read: stop() does not end a blocking send, and join() waits for it.
StopEnds ==
    (server = "stopping") ~>
        (server = "joined" \/ \E t \in Threads : worker[t].at = "blocked")
=============================================================================
