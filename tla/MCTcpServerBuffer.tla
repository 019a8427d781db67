------------------------- MODULE MCTcpServerBuffer -------------------------
(***************************************************************************)
(* A session whose array holds 6 bytes and whose reads take at most 4 (the *)
(* code's ratio of 3 to 2), and a peer that sends 14 bytes: messages that  *)
(* fit a read, that fill the array exactly, that exceed it, and that       *)
(* exceed what one growth of the vector can take.                          *)
(***************************************************************************)
EXTENDS TcpServerBuffer

MCMessageLengths == {1, 3, 6, 13}
=============================================================================
