---------------------------- MODULE MCTcpServer ----------------------------
(***************************************************************************)
(* Four connections at a time: enough for a session to be first, last, and *)
(* in the middle of the registry when it or another one is destroyed.      *)
(***************************************************************************)
EXTENDS TcpServer, TLC
CONSTANTS t1, t2, s1, s2, s3, s4

OneThread == {t1}
TwoThreads == {t1, t2}
FourSessions == {s1, s2, s3, s4}
=============================================================================
