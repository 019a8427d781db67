---------------------------- MODULE JsonRpcServer ----------------------------
(***************************************************************************)
(* JsonRpcServerProtocol (src/bomba_json_rpc.hpp): the members of a        *)
(* request are read once, in the order they come in, and the method is     *)
(* called as soon as its name, its params and the id are known; if not all *)
(* of them come, it is called after the last one.  The parser goes back to *)
(* params for that.  A position is the number of a member.                 *)
(*                                                                         *)
(* A request is a sequence of members [name, value].  The methods take one *)
(* number; a call stands for its result.                                   *)
(***************************************************************************)
EXTENDS CallableTree, Integers

CONSTANTS
    Failing,       \* the functions that throw
    NoConnection   \* no request is being answered

Version == "2.0"
Unfit == -1            \* what the parser does not accept as an argument
NotGiven == 0          \* the default value of an argument
Error == "error"

VARIABLES
    srv,           \* the request that is being answered, and how far that has got
    executed       \* the requests that were read, and the calls of functions they made

serverVars == <<srv, executed>>

Idle == [connection |-> NoConnection]

Member(name, value) == [name |-> name, value |-> value]
-----------------------------------------------------------------------------
\* The state of respondInternal() when a request begins.
Begun ==
    [at |-> 1, method |-> NoCallable, params |-> 0, called |-> FALSE,
     responding |-> FALSE, failed |-> FALSE, over |-> FALSE, answer |-> <<>>,
     calls |-> <<>>]

\* post(): the body, the number of the request in it, what was written for the
\* requests before it, and the state of this one.
Post(connection, body) ==
    [connection |-> connection, body |-> body, number |-> 1, out |-> <<>>, state |-> Begun]

Request == srv.body.requests[srv.number]
Here == Request[srv.state.at]

Wrote(s, member) == IF s.responding THEN [s EXCEPT !.answer = Append(@, member)] ELSE s

Failed(s) == [Wrote(s, Member("error", Error)) EXCEPT !.failed = TRUE]

\* An exception, or a callback that returned false, ends readObject().
Ended(s) == [s EXCEPT !.over = TRUE]

\* return !failed
ReadOn(s) == IF s.failed THEN Ended(s) ELSE [s EXCEPT !.at = @ + 1]
-----------------------------------------------------------------------------
Argument(s) == IF s.params = 0 THEN NotGiven ELSE Request[s.params].value

CallOf(s) == [method |-> s.method, argument |-> Argument(s)]

\* The arguments are read, the function is executed, its result is written; an
\* exception on the way becomes an error.
Invoked(s) ==
    LET made == [s EXCEPT !.calls = Append(@, CallOf(s))]
    IN  IF Argument(s) = Unfit THEN Ended(Failed(s))
        ELSE IF s.method \in Failing THEN Ended(Failed(made))
        ELSE Wrote(made, Member("result", CallOf(s)))

\* call().  An object that is not a function returns false, which nobody looks at.
Called(s) ==
    LET c == [s EXCEPT !.called = TRUE]
    IN  IF s.method = NoCallable THEN s
        ELSE IF s.method \in Lambdas THEN Invoked(c) ELSE c

\* Fault: a request without an id is taken for a notification too early.
FaultKnown(s) == s.method # NoCallable /\ s.params # 0

\* Are the method, the params and the id all known?
Known(s) == s.method # NoCallable /\ s.params # 0 /\ s.responding

CalledIfKnown(s) == IF Known(s) THEN Called(s) ELSE s
-----------------------------------------------------------------------------
Reading(name) ==
    /\ srv # Idle
    /\ ~srv.state.over /\ srv.state.at <= Len(Request)
    /\ Here.name = name
    /\ UNCHANGED executed

Becomes(s) == srv' = [srv EXCEPT !.state = s]

ReadVersion ==
    /\ Reading("jsonrpc")
    /\ Becomes(IF Here.value = Version THEN ReadOn(srv.state)
               ELSE Ended(Failed(srv.state)))

\* writeId() begins the response.
Started(s, id) == Wrote([s EXCEPT !.responding = TRUE], Member("id", id))

\* After the call the parser is where it was: behind the id.
ReadId ==
    /\ Reading("id")
    /\ Becomes(IF srv.state.called THEN ReadOn(srv.state)
               ELSE ReadOn(CalledIfKnown(Started(srv.state, Here.value))))

\* A method that is not found fails, before what else is known is looked at.
Found(s, path) ==
    LET method == FindCallable(path)
    IN  IF method = NoCallable THEN Failed(s) ELSE [s EXCEPT !.method = method]

ReadMethod ==
    /\ Reading("method")
    /\ Becomes(IF srv.state.method # NoCallable THEN ReadOn(srv.state)
               ELSE ReadOn(CalledIfKnown(Found(srv.state, Here.value))))

\* Here the parser stays where the call leaves it.  That is behind the params, unless
\* the method is an object: it reads nothing, and the params are no member's name.
ReadParams ==
    /\ Reading("params")
    /\ LET s == [srv.state EXCEPT !.params = srv.state.at]
       IN  Becomes(IF Known(s) /\ s.method \notin Lambdas
                   THEN Ended(Failed(Called(s)))
                   ELSE ReadOn(CalledIfKnown(s)))

ReadAnother ==
    /\ Reading("another")
    /\ Becomes(Ended(Failed(srv.state)))
-----------------------------------------------------------------------------
\* What was not called because something is missing is called after the last member.
Completed(s) ==
    IF s.failed \/ s.called THEN s
    ELSE IF s.method = NoCallable THEN Failed(s)
    ELSE Called(s)

Written(s) == IF s.responding THEN Append(srv.out, s.answer) ELSE srv.out

\* Which request made the calls: that is not in the code, the properties look at it.
Logged(s) ==
    executed \union
        {[connection |-> srv.connection, number |-> srv.number, calls |-> s.calls]}

AllRead == srv # Idle /\ (srv.state.over \/ srv.state.at > Len(Request))

\* The next element of an array.  After a failure the parser goes back to the
\* beginning of the request and skips it, so it is behind it in any case.
NextRequest ==
    /\ AllRead
    /\ srv.number < Len(srv.body.requests)
    /\ LET s == Completed(srv.state)
       IN  /\ srv' = [srv EXCEPT !.out = Written(s), !.number = @ + 1, !.state = Begun]
           /\ executed' = Logged(s)

\* The last one.
LastRequest ==
    /\ AllRead
    /\ srv.number = Len(srv.body.requests)
    /\ executed' = Logged(Completed(srv.state))
    /\ srv' = Idle

\* What the response to the whole body holds then.
Response == Written(Completed(srv.state))

ReadMember == ReadVersion \/ ReadId \/ ReadMethod \/ ReadParams \/ ReadAnother
=============================================================================
