---------------------------- MODULE CallableTree ----------------------------
(***************************************************************************)
(* The tree of what can be called: IRemoteCallable and PathWithSeparator   *)
(* (src/bomba_core.hpp), with DynamicRpcObject                             *)
(* (src/bomba_dynamic_object.hpp) as what has children.  The same tree is  *)
(* declared in the server and in its client.  The server looks a path up   *)
(* from its root; the client finds the way of a callable up to its root,   *)
(* and on this way the responder that sends its calls.                     *)
(*                                                                         *)
(* A path is a sequence of names; the character that separates them is     *)
(* left out, so names that contain it are, too.                            *)
(***************************************************************************)
EXTENDS Naturals, Sequences, FiniteSetsExt, SequencesExt

CONSTANTS
    Callables,     \* what can be called, the objects that contain others included
    Root,          \* the callable that the server and the client are given
    Lambdas,       \* the callables that are functions
    Parent,        \* the object that is to contain a callable
    NameOf,        \* the name it has there
    Members,       \* the callables that are members of an RpcObject: they are
                   \* attached when it is constructed
    NoCallable,    \* nullptr
    NoClient       \* nullptr, of an IRpcResponder

\* An object contains other objects, but not itself, and what it contains has
\* different names.
ASSUME CallableTreeAssumption ==
    /\ Root \in Callables /\ Lambdas \subseteq Callables
    /\ NoCallable \notin Callables /\ Members \subseteq Callables \ {Root}
    /\ Parent \in [Callables \ {Root} -> Callables \ Lambdas]
    /\ IsFiniteSet(Callables)
    /\ \E depth \in [Callables -> 0 .. Cardinality(Callables)] :
        \A c \in Callables \ {Root} : depth[Parent[c]] < depth[c]
    /\ NameOf \in [Callables -> STRING]
    /\ \A c, d \in Callables \ {Root} :
        Parent[c] = Parent[d] /\ NameOf[c] = NameOf[d] => c = d

VARIABLES
    attached,      \* the callables whose _parent is set, at the client
    responder      \* _responder of each of them

treeVars == <<attached, responder>>
-----------------------------------------------------------------------------
Contents(c) == {d \in Callables \ {Root} : Parent[d] = c}

\* getChild(): the child with the name, if any.
GetChild(c, name) ==
    LET named == {d \in Contents(c) : NameOf[d] = name}
    IN  IF c = NoCallable \/ named = {} THEN NoCallable ELSE CHOOSE d \in named : TRUE

\* Where the first names of a path lead to.
FindCallable(path) ==
    LET found[n \in 0 .. Len(path)] ==
            IF n = 0 THEN Root ELSE GetChild(found[n - 1], path[n])
    IN  found[Len(path)]

\* The way from a callable to the last object that has no parent.
WayUp[c \in Callables] == IF c \in attached THEN <<c>> \o WayUp[Parent[c]] ELSE <<c>>

\* Fault: the names of the objects on the way are left out.
FaultConstructPath(c) == <<NameOf[c]>>

ConstructPath(c) ==
    LET way == WayUp[c]
    IN  [i \in 1 .. Len(way) - 1 |-> NameOf[way[Len(way) - i]]]
-----------------------------------------------------------------------------
\* Where on the way up the first responder is, if there is one.
Bound(c) == {i \in DOMAIN WayUp[c] : responder[WayUp[c][i]] # NoClient}

HasResponder(c) == Bound(c) # {}

GetResponder(c) == responder[WayUp[c][Min(Bound(c))]]

\* ... and every object on the way up to it keeps it.
Remembered(c) ==
    LET asked == {WayUp[c][i] : i \in 1 .. Min(Bound(c))}
    IN  [d \in Callables |-> IF d \in asked THEN GetResponder(c) ELSE responder[d]]

TreeInit ==
    /\ attached = Members
    /\ responder = [c \in Callables |-> NoClient]

SetResponder(client) ==
    /\ responder' = [responder EXCEPT ![Root] = client]
    /\ UNCHANGED attached

\* add(), with a holder that refers to the callable: setSelfAsParent() gives it the
\* responder of the object, even if that has none yet.
Add(c) ==
    /\ c \in Callables \ (attached \union {Root})
    /\ attached' = attached \union {c}
    /\ responder' = [responder EXCEPT ![c] = responder[Parent[c]]]
=============================================================================
