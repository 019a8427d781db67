----------------------------- MODULE RemoteCalls -----------------------------
(***************************************************************************)
(* Programs that call each other: the futures and clients of one program   *)
(* and the JSON-RPC server they are connected to; or that server and one   *)
(* request from somebody else, who writes the members in any order, leaves *)
(* some out, or sends an array of requests.                                *)
(***************************************************************************)
EXTENDS JsonRpcServer, JsonRpcClient

CONSTANTS
    Foreign,       \* the connection of somebody else
    Bodies         \* what may be posted there: records of "kind", "object", "array" or
                   \* "other", and a sequence of requests

IsSequence(s) == Len(s) \in Nat /\ s = [i \in 1 .. Len(s) |-> s[i]]

ASSUME RemoteCallsAssumption ==
    /\ Clients \cap {Foreign, NoConnection, NoClient} = {}
    /\ Failing \subseteq Lambdas
    /\ \A u \in Uses : /\ u.calls \in Nat /\ u.polls \in Nat
                       /\ u.functions \subseteq Lambdas /\ u.clients \subseteq Clients
                       /\ u.pipelined => u.functions \cap Failing = {}
    /\ \A b \in Bodies : /\ IsSequence(b.requests)
                         /\ \A n \in DOMAIN b.requests : IsSequence(b.requests[n])

VARIABLE posted    \* what somebody else posts, if anything: the body, and the
                   \* HTTP responses with their contents, when it is answered

vars == <<clientVars, serverVars, posted>>
-----------------------------------------------------------------------------
Nothing == [kind |-> "nothing", requests |-> <<>>]

\* While somebody else posts, it does not matter what the program would do.
Unused == CHOOSE u \in Uses : TRUE

Init ==
    /\ ClientInit
    /\ srv = Idle /\ executed = {}
    /\ posted \in [body : Bodies \union {Nothing}, responses : {<<>>}]
    /\ posted.body # Nothing => use = Unused

OwnUse == posted.body = Nothing

\* post() of a request of a client, in the order they were written.
Accept(c) ==
    /\ srv = Idle
    /\ Len(replies[c]) < Len(sent[c])
    /\ srv' = Post(c, [kind |-> "object", requests |-> <<sent[c][Len(replies[c]) + 1]>>])
    /\ UNCHANGED <<clientVars, executed, posted>>

AcceptForeign ==
    /\ srv = Idle
    /\ posted.responses = <<>>
    /\ posted.body.requests # <<>>
    /\ srv' = Post(Foreign, posted.body)
    /\ UNCHANGED <<clientVars, executed, posted>>

\* What has no requests gets an empty response.  If it is neither an object nor an
\* array, post() returns false, so a second response follows: 400.
AcceptNothing ==
    /\ posted.responses = <<>>
    /\ ~OwnUse /\ posted.body.requests = <<>>
    /\ posted' = [posted EXCEPT !.responses =
            <<[status |-> 200, content |-> <<>>]>> \o
            IF posted.body.kind = "other" THEN <<[status |-> 400, content |-> <<>>]>> ELSE <<>>]
    /\ UNCHANGED <<clientVars, serverVars>>

ReplyOwn ==
    /\ srv # Idle /\ srv.connection \in Clients
    /\ LastRequest
    /\ replies' = [replies EXCEPT ![srv.connection] = Append(@, Response)]
    /\ UNCHANGED <<treeVars, sent, httpVars, appVars, posted>>

ReplyForeign ==
    /\ srv # Idle /\ srv.connection = Foreign
    /\ LastRequest
    /\ posted' = [posted EXCEPT !.responses = <<[status |-> 200, content |-> Response]>>]
    /\ UNCHANGED clientVars

Server ==
    \/ \E c \in Clients : Accept(c)
    \/ AcceptForeign \/ AcceptNothing
    \/ (ReadMember \/ NextRequest) /\ UNCHANGED <<clientVars, posted>>
    \/ ReplyOwn \/ ReplyForeign

Next == Server \/ (OwnUse /\ App /\ UNCHANGED <<serverVars, posted>>)

Spec == Init /\ [][Next]_vars

\* The server's thread runs, and so does a call that waits; nobody has to make a call.
FairSpec ==
    /\ Spec
    /\ WF_vars(Server)
    /\ WF_vars(OwnUse /\ asking # NotAsking /\ Wait /\ UNCHANGED <<serverVars, posted>>)
-----------------------------------------------------------------------------
\* What a request asks for, whatever the order of its members.
Names(r) == {r[i].name : i \in DOMAIN r}
Has(r, name) == name \in Names(r)
Value(r, name) == r[CHOOSE i \in DOMAIN r : r[i].name = name].value

NamesDiffer(r) == \A i, j \in DOMAIN r : r[i].name = r[j].name => i = j

Proper(r) ==
    /\ NamesDiffer(r)
    /\ Names(r) \subseteq {"jsonrpc", "id", "method", "params"}
    /\ Has(r, "jsonrpc") => Value(r, "jsonrpc") = Version
    /\ Has(r, "method") /\ FindCallable(Value(r, "method")) \in Lambdas

AskedCall(r) ==
    [method |-> FindCallable(Value(r, "method")),
     argument |-> IF Has(r, "params") THEN Value(r, "params") ELSE NotGiven]

Fits(r) == AskedCall(r).argument # Unfit

Expected(r) ==
    << Member("id", Value(r, "id")),
       IF Fits(r) /\ AskedCall(r).method \notin Failing
       THEN Member("result", AskedCall(r)) ELSE Member("error", Error) >>

\* The answer to the n-th request is at place[n] of the response; 0 is nowhere.
\* Every answer is that of one request, in the order of the requests.
InOrder(place, content) ==
    /\ \A j \in DOMAIN content : \E n \in DOMAIN place : place[n] = j
    /\ \A m, n \in DOMAIN place :
        m < n /\ place[m] # 0 /\ place[n] # 0 => place[m] < place[n]

AnsweredAt(j, r, content) ==
    Proper(r) => IF Has(r, "id") THEN j # 0 /\ content[j] = Expected(r) ELSE j = 0

ReadAs(n) == {e \in executed : e.connection = Foreign /\ e.number = n}

ExecutedOnce(n, r) ==
    \E e \in executed :
        /\ ReadAs(n) = {e}
        /\ IF Proper(r) /\ Fits(r) THEN e.calls = <<AskedCall(r)>>
           ELSE NamesDiffer(r) => Len(e.calls) <= 1

\* Each proper request whose parameters fit its method is executed exactly once, with its
\* own arguments, and a proper one is answered with its own result or an error if it has
\* an id, and not answered if it has none: in whatever order its members come, and
\* whatever is wrong with its neighbours in an array (the loop of respondInternal() and
\* the restored positions).  Any other request, as long as the names of its members
\* differ, is executed at most once, and nothing is in the response but one answer for
\* each request that has one, in their order.
AnswersAsSpecified ==
    posted.responses # <<>> /\ posted.body.kind # "other" =>
        LET requests == posted.body.requests
            content == posted.responses[1].content
        IN  /\ Len(posted.responses) = 1
            /\ \E place \in [DOMAIN requests -> 0 .. Len(content)] :
                /\ InOrder(place, content)
                /\ \A n \in DOMAIN requests : AnsweredAt(place[n], requests[n], content)
            /\ \A n \in DOMAIN requests : ExecutedOnce(n, requests[n])

\* A response that was read, by whatever future it is now, is what came of the call the
\* program made: of this method, with these arguments, or an exception if it failed
\* (paths, tokens and ids, Future::operator=(), getResponder()).
OutcomeIsOwn ==
    \A o \in outcomes :
        o.came = IF o.call.method \in Failing THEN Thrown ELSE o.call

\* A future of the client is pending though its response was handed over: is_ready()
\* took it, or it threw.
LeftPending(c) ==
    \E f \in Futures :
        Pending(f) /\ futures[f].responder = c /\ futures[f].token \in handed[c] \ kept[c]

\* What asks for a response that was not handed over before ends, though others may have
\* been asked for before it: it is found by its token, by whichever client and future it
\* is (getResponse(), cleanup()).  This is of programs that wait for each response before
\* the next request of the connection, and of those whose responses have one size; and
\* as long as no future is left pending that, asked again, throws again and leaves the
\* reply that came behind unread.
GetEnds ==
    LET c == asking.of.responder
    IN  asking # NotAsking /\ asking.of.token \notin handed[c] /\ ~LeftPending(c)
            ~> asking = NotAsking
=============================================================================
