---------------------------- MODULE JsonRpcClient ----------------------------
(***************************************************************************)
(* Calls of remote functions: RpcLambda and Future                         *)
(* (src/bomba_rpc_object.hpp) over JsonRpcClientProtocol                   *)
(* (src/bomba_json_rpc.hpp) and HttpClient (src/bomba_http.hpp).  A        *)
(* program has several clients, each with a connection of its own, and     *)
(* futures of calls that go through any of them.                           *)
(*                                                                         *)
(* The HTTP client is modelled by whole responses; how it finds them in    *)
(* the stream is what NetworkClients is about.  It finds them all if every *)
(* response was handed over before the next request of the connection, or  *)
(* if those that are under way together have one size: a response behind   *)
(* the one that was sought is cut off with the size of that one.  A use is *)
(* of one of these kinds, and one that has several requests under way      *)
(* calls no function that fails, as an error has another size.  The n-th   *)
(* request of a connection has the token n.                                *)
(***************************************************************************)
EXTENDS CallableTree

CONSTANTS
    Clients,       \* the clients of the program
    Futures,       \* its variables of the type Future
    Uses           \* what a program makes of them: BOUNDS on how many calls it makes
                   \* ("calls") and how often it calls is_ready() ("polls"), which
                   \* "functions" it calls, with which "clients", and whether it has
                   \* several requests under way on a connection ("pipelined")

VARIABLES
    use,           \* the member of Uses this run of the program has
    sent,          \* the requests each client wrote
    replies,       \* what was answered to them
    received,      \* how many replies the client took from its socket
    lastTokenRead, \* _lastTokenRead
    kept,          \* the tokens in _responses
    futures,       \* the state of each variable
    asking,        \* the call that waits for a response
    calls,         \* how many calls were made
    polls,         \* how often is_ready() was called
    outcomes,      \* what the calls whose response was read came to
    handed,        \* history: the tokens of each client whose response was handed over,
                   \* to whoever asked
    crashed        \* whether the program was terminated

connections == <<sent, replies>>
httpVars == <<received, lastTokenRead, kept>>
appVars == <<use, futures, asking, calls, polls, outcomes, handed, crashed>>
clientVars == <<treeVars, connections, httpVars, appVars>>
-----------------------------------------------------------------------------
NoValue == <<>>
Thrown == [method |-> NoCallable, argument |-> 0]

\* A future that stands for no call.  "call" is not in the code: it is the call the
\* program made when it got the future.
Empty == [reader |-> NoCallable, responder |-> NoClient, token |-> 0,
          value |-> NoValue, call |-> <<>>]

NoFuture == "no future"

\* What asks for a response: a future, or the call itself; "of" is what it knows.
NotAsking == [op |-> "none", future |-> NoFuture, other |-> NoFuture, of |-> Empty]

Running == ~crashed /\ asking = NotAsking

ClientInit ==
    /\ use \in Uses
    /\ TreeInit
    /\ sent = [c \in Clients |-> <<>>]
    /\ replies = [c \in Clients |-> <<>>]
    /\ received = [c \in Clients |-> 0]
    /\ lastTokenRead = [c \in Clients |-> 0]
    /\ kept = [c \in Clients |-> {}]
    /\ futures = [f \in Futures |-> Empty]
    /\ asking = NotAsking
    /\ calls = 0 /\ polls = 0
    /\ outcomes = {}
    /\ handed = [c \in Clients |-> {}]
    /\ crashed = FALSE

\* A JsonRpcClient is made for the root of the tree: later ones take its place.
Bind(client) ==
    /\ Running
    /\ responder[Root] # client
    /\ sent[client] = <<>>
    /\ SetResponder(client)
    /\ UNCHANGED <<connections, httpVars, appVars>>

AddCallable(c) ==
    /\ Running
    /\ Add(c)
    /\ UNCHANGED <<connections, httpVars, appVars>>
-----------------------------------------------------------------------------
(***************************************************************************)
(* send(): the object of a request is always written in this order.  Every *)
(* call has an argument of its own.  What calls a function without having  *)
(* a responder gets a std::logic_error, and nothing changes.               *)
(***************************************************************************)
RequestOf(method, argument, token) ==
    << [name |-> "jsonrpc", value |-> "2.0"], [name |-> "id", value |-> token],
       [name |-> "method", value |-> ConstructPath(method)],
       [name |-> "params", value |-> argument] >>

\* Whether a client may get another request, in this use.
MaySend(c) == use.pipelined \/ DOMAIN sent[c] \subseteq handed[c]

Sent(method) ==
    /\ Running
    /\ HasResponder(method)
    /\ MaySend(GetResponder(method))
    /\ calls < use.calls
    /\ calls' = calls + 1
    /\ responder' = Remembered(method)
    /\ LET c == GetResponder(method)
       IN  sent' = [sent EXCEPT ![c] =
               Append(@, RequestOf(method, calls + 1, Len(@) + 1))]

\* The future of the call that Sent() makes.
Made(method) ==
    [reader |-> method, responder |-> GetResponder(method),
     token |-> Len(sent[GetResponder(method)]) + 1, value |-> NoValue,
     call |-> [method |-> method, argument |-> calls + 1]]

\* async(), into a variable that is declared for it.
Async(method, f) ==
    /\ futures[f] = Empty
    /\ Sent(method)
    /\ futures' = [futures EXCEPT ![f] = Made(method)]
    /\ UNCHANGED <<attached, replies, httpVars, use, asking, polls, outcomes, handed,
                   crashed>>

\* operator(): it waits for the response.
CallNow(method) ==
    /\ Sent(method)
    /\ asking' = [op |-> "call", future |-> NoFuture, other |-> NoFuture,
                  of |-> Made(method)]
    /\ UNCHANGED <<attached, replies, httpVars, use, futures, polls, outcomes, handed,
                   crashed>>
-----------------------------------------------------------------------------
(***************************************************************************)
(* What is done with futures.  Those that have their value, or stand for   *)
(* no call, do not ask.                                                    *)
(***************************************************************************)
Pending(f) == futures[f].responder # NoClient /\ futures[f].value = NoValue

Ask(op, f, g) ==
    /\ Running
    /\ Pending(f)
    /\ futures[f].reader # NoCallable
    /\ asking' = [op |-> op, future |-> f, other |-> g, of |-> futures[f]]
    /\ UNCHANGED <<treeVars, connections, httpVars, use, futures, calls, outcomes,
                   handed, crashed>>

Get(f) == Ask("get", f, NoFuture) /\ UNCHANGED polls

\* is_ready(): hasResponse() of HttpClient waits as getResponse() does.
IsReady(f) ==
    /\ polls < use.polls
    /\ Ask("has", f, NoFuture)
    /\ polls' = polls + 1

\* The swaps of operator=().
Exchanged(all, f, g) == [all EXCEPT ![f] = all[g], ![g] = all[f]]

\* f = std::move(g): if f is pending, cleanup() first waits for its response ...
AssignPending(f, g) ==
    /\ f # g
    /\ Ask("assign", f, g)
    /\ UNCHANGED polls

Assign(f, g) ==
    /\ f # g
    /\ Running
    /\ ~Pending(f)
    /\ futures[g] # Empty
    /\ futures' = Exchanged(futures, f, g)
    /\ UNCHANGED <<treeVars, connections, httpVars, use, asking, calls, polls, outcomes,
                   handed, crashed>>

\* ~Future(), and so does cleanup() there.
DropPending(f) == Ask("drop", f, NoFuture) /\ UNCHANGED polls

Dropped(f) == [futures EXCEPT ![f] = Empty]

Drop(f) ==
    /\ Running
    /\ futures[f] # Empty
    /\ ~Pending(f)
    /\ futures' = Dropped(f)
    /\ UNCHANGED <<treeVars, connections, httpVars, use, asking, calls, polls, outcomes,
                   handed, crashed>>

\* A variable that is pending without a reader, which an assignment leaves: get(), which
\* its destructor calls as well, goes through a null pointer.
UseWithoutReader(f) ==
    /\ Running
    /\ Pending(f)
    /\ futures[f].reader = NoCallable
    /\ crashed' = TRUE
    /\ UNCHANGED <<treeVars, connections, httpVars, use, futures, asking, calls, polls,
                   outcomes, handed>>
-----------------------------------------------------------------------------
(***************************************************************************)
(* getResponse() of the two protocols, and what the callers do with it.    *)
(***************************************************************************)
Client == asking.of.responder

\* The reader of JsonRpcClientProtocol: the id must be that of the request; an error
\* and everything unknown is thrown.
ReadReply(token) ==
    LET reply == replies[Client][token][1]
    IN  IF reply[1].value = token /\ reply[2].name = "result"
        THEN reply[2].value ELSE Thrown

Outcome == IF asking.op = "has" THEN NoValue ELSE ReadReply(asking.of.token)

\* In the destructor an exception terminates the program; from an assignment it comes
\* before anything was exchanged, otherwise the future has lost its reader by then.
Finished ==
    /\ asking' = NotAsking
    /\ outcomes' = IF asking.op = "has" THEN outcomes
                   ELSE outcomes \union {[call |-> asking.of.call, came |-> Outcome]}
    /\ crashed' = (asking.op = "drop" /\ Outcome = Thrown)
    /\ futures' =
        IF Outcome = Thrown \/ asking.op \in {"has", "call"} THEN futures
        ELSE LET f == asking.future
             IN  CASE asking.op = "get" -> [futures EXCEPT ![f].value = <<Outcome>>]
                   [] asking.op = "assign" ->
                        Exchanged([futures EXCEPT ![f].reader = NoCallable], f, asking.other)
                   [] asking.op = "drop" -> Dropped(f)
    /\ handed' = [handed EXCEPT ![Client] = @ \union {asking.of.token}]
    /\ UNCHANGED <<treeVars, connections, use, calls, polls>>

\* Fault: what was kept is not looked at.
FaultIsKept == FALSE

IsKept == asking.of.token \in kept[Client]

\* A response that was kept is read, and stays.
FindKept ==
    /\ asking # NotAsking
    /\ IsKept
    /\ Finished
    /\ UNCHANGED httpVars

\* The replies that arrived, up to the n-th; those before lastTokenRead were cut off.
Takes(n) ==
    /\ asking # NotAsking
    /\ ~IsKept
    /\ n > received[Client]
    /\ received' = [received EXCEPT ![Client] = n]

Sought(n) == asking.of.token \in lastTokenRead[Client] + 1 .. n

\* Other responses are kept, and the client waits on.
KeepOthers(n) ==
    /\ Takes(n)
    /\ ~Sought(n)
    /\ kept' = [kept EXCEPT ![Client] = @ \union (lastTokenRead[Client] + 1 .. n)]
    /\ lastTokenRead' = [lastTokenRead EXCEPT ![Client] = n]
    /\ UNCHANGED <<treeVars, connections, appVars>>

\* The response is among them; those behind it have its size, and are kept.  If its
\* reader throws it is the last, as such a use waits for each; it stays in _leftovers,
\* and is not looked at before the next one arrives.
TakeReply(n) ==
    /\ Takes(n)
    /\ Sought(n)
    /\ LET last == IF Outcome = Thrown THEN asking.of.token - 1 ELSE n
       IN  /\ lastTokenRead' = [lastTokenRead EXCEPT ![Client] = last]
           /\ kept' = [kept EXCEPT ![Client] =
                   @ \union ((lastTokenRead[Client] + 1 .. last) \ {asking.of.token})]
    /\ Finished

Wait == FindKept \/ \E n \in 1 .. Len(replies[Client]) : KeepOthers(n) \/ TakeReply(n)
-----------------------------------------------------------------------------
Use ==
    \/ \E c \in use.clients : Bind(c)
    \/ \E c \in Callables : AddCallable(c)
    \/ \E m \in use.functions : CallNow(m) \/ \E f \in Futures : Async(m, f)
    \/ \E f \in Futures : Get(f) \/ IsReady(f) \/ DropPending(f) \/ Drop(f) \/ UseWithoutReader(f)
    \/ \E f, g \in Futures : AssignPending(f, g) \/ Assign(f, g)

App == Use \/ (asking # NotAsking /\ Wait)
=============================================================================
