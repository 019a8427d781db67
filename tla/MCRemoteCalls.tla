---------------------------- MODULE MCRemoteCalls ----------------------------
(***************************************************************************)
(* A tree of a function, an object, and two functions in it, of which one  *)
(* has the name of the function outside.                                   *)
(*   AnyOrder: every order of every set of members with a method; methods  *)
(*     that are functions, fail, are objects, or are not there.            *)
(*   Strange: the same with a member or a version nobody knows.            *)
(*   Arrays: three requests, of which the second is of any kind.           *)
(*   Somebody else's requests do not meet those of a program's clients: a  *)
(*   behaviour has either, and the programs have one client and three      *)
(*   calls or two clients and two calls, and either wait for each response *)
(*   or call no function that fails.                                       *)
(***************************************************************************)
EXTENDS RemoteCalls

Tree == {"root", "get", "group", "group_get", "fail"}
Functions == {"get", "group_get", "fail"}
ParentOf == [get |-> "root", group |-> "root", group_get |-> "group", fail |-> "group"]
NamesInTree == [root |-> "", get |-> "get", group |-> "group", group_get |-> "get", fail |-> "fail"]

Id(n) == Member("id", n)
Ver(v) == Member("jsonrpc", v)
Params(a) == Member("params", a)
Paths == {<<"get">>, <<"group", "get">>, <<"group", "fail">>, <<"group">>, <<"none">>}
Method(p) == Member("method", p)

Orders(members) == SetToSeqs(members)

Sets(n) ==
    {optional \union {Method(p)} :
        p \in Paths, optional \in SUBSET {Id(n), Ver("2.0"), Params(5)}}
Unfitting(n) == {{Id(n), Method(<<"get">>), Params(Unfit)}, {Id(n), Params(5)}}
Odd(n) ==
    {{Id(n), Ver("1.0"), Method(<<"get">>), Params(5)},
     {Id(n), Member("another", 0), Method(<<"get">>), Params(5)}}

One(r) == [kind |-> "object", requests |-> <<r>>]
AnyOrder == {One(r) : r \in UNION {Orders(s) : s \in Sets(1) \union Unfitting(1)}}
Strange == {One(r) : r \in UNION {Orders(s) : s \in Odd(1)}}

Firsts == {<<Id(1), Method(<<"get">>), Params(1)>>, <<Params(1), Method(<<"group", "get">>)>>}
Lasts == {<<Method(<<"group", "get">>), Params(3), Id(3)>>}
Arrays ==
    {[kind |-> "array", requests |-> <<a, b, c>>] :
        a \in Firsts, c \in Lasts,
        b \in UNION {Orders(s) : s \in Odd(2) \union Unfitting(2) \union
                        {t \in Sets(2) : Id(2) \in t}}}
NoRequests == {[kind |-> k, requests |-> <<>>] : k \in {"array", "other"}}

OneClient(ahead) ==
    [calls |-> 3, polls |-> 1, clients |-> {"one"}, pipelined |-> ahead,
     functions |-> IF ahead THEN Functions \ {"fail"} ELSE Functions]
TwoClients(ahead) ==
    [calls |-> 2, polls |-> 0, clients |-> {"one", "two"}, pipelined |-> ahead,
     functions |-> IF ahead THEN Functions \ {"fail"} ELSE Functions]
AllUses == {OneClient(ahead) : ahead \in BOOLEAN} \union {TwoClients(ahead) : ahead \in BOOLEAN}

AllBodies == AnyOrder \union Strange \union Arrays \union NoRequests
=============================================================================
