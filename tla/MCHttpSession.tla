--------------------------- MODULE MCHttpSession ---------------------------
(***************************************************************************)
(* A stream of 14 bytes with headers of 3 and bodies of 0, 1 or 4: up to   *)
(* four requests in a row, in every mixture and every split of the stream. *)
(* Sound responders write all of a response or none; Careless ones throw   *)
(* while they stream a response of known size.                             *)
(***************************************************************************)
EXTENDS HttpSession

Request(type, length, close, b) ==
    [type |-> type, length |-> length, close |-> close, responder |-> b]
Does(writes, ends) == [writes |-> writes, ends |-> ends]

SoundBehaviours == {b \in Behaviours : Sound(b)}

Gets == {Request("GET", NoLength, c, b) : c \in BOOLEAN, b \in SoundBehaviours}
Posts == {Request("POST", n, FALSE, b) : n \in {0, 1, 4}, b \in SoundBehaviours}
Odd == {Request("POST", NoLength, FALSE, Does("nothing", "true")),
        Request("WEIRD", NoLength, FALSE, Does("nothing", "true")),
        Request("POST", 4, TRUE, Does("unknown", "true"))}

SoundRequests == Gets \union Posts \union Odd
CarelessRequests == SoundRequests \union {Request("GET", NoLength, FALSE, Does("known", "throws"))}
=============================================================================
