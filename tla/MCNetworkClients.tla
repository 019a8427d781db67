-------------------------- MODULE MCNetworkClients --------------------------
(***************************************************************************)
(* Three requests; a read of at most 5 bytes ends within a header, within  *)
(* a body, between two responses, or holds several responses.              *)
(*   OneAtATime: HTTP, one request under way, bodies of any of three sizes,*)
(*     the empty one included, any response may be an error.               *)
(*   SameSize: HTTP, all may be under way, the bodies have one size.       *)
(*   NotHttpSent: as those two, and one response may not be HTTP.          *)
(*   Binary: all may be under way, responses of two sizes.                 *)
(*   Mixed: HTTP, bodies of different sizes under way: it goes wrong.      *)
(*   Errors: HTTP, all under way, responses may be errors: it goes wrong.  *)
(***************************************************************************)
EXTENDS NetworkClients

Use(p, n, sizes, mayFail) ==
    [protocol |-> p, underWay |-> n, bodies |-> sizes,
     emptyHasLength |-> p = "binary", errors |-> mayFail, malformed |-> FALSE]

Malformed(use) == [use EXCEPT !.malformed = TRUE]

OneAtATime == {Use("http", 1, {0, 1, 3}, TRUE)}
SameSize == {Use("http", 3, {1}, FALSE), Use("http", 3, {2}, FALSE)}
NotHttpSent == {Malformed(Use("http", 1, {0, 1}, TRUE)), Malformed(Use("http", 3, {1}, FALSE))}
BinaryOnly == {Use("binary", 3, {0, 1}, FALSE)}
Supported == OneAtATime \union SameSize \union NotHttpSent \union BinaryOnly
Mixed == {Use("http", 3, {1, 3}, FALSE)}
Errors == {Use("http", 3, {1}, TRUE)}
=============================================================================
