--------------------------- MODULE NetworkClients ---------------------------
(***************************************************************************)
(* The two clients over SyncNetworkClient, as one specification: what the  *)
(* application, the server and the network do is the same for both, and a  *)
(* workload says which protocol's reader is used.                          *)
(***************************************************************************)
EXTENDS HttpClient

Binary == INSTANCE BinaryClient

Init == ClientInit /\ frame = 0 /\ lastTokenRead = 0

Outside ==
    \/ Answer \/ Arrive \/ CloseConnection
    \/ WriteRequest
    \/ \E t \in Tokens : GetResponse(t) \/ HasResponse(t)

NotHttp == UNCHANGED <<frame, lastTokenRead>>

Client == HttpNext \/ (Binary!BinaryNext /\ NotHttp)

Next == (Outside /\ NotHttp) \/ Client

Spec == Init /\ [][Next]_vars

\* The client runs; the server answers what it was asked unless it ends the
\* connection, and the network delivers.  Nobody has to send or ask anything.
FairSpec ==
    /\ Spec
    /\ WF_vars(Client)
    /\ WF_vars(Answer /\ NotHttp)
    /\ WF_vars(Arrive /\ NotHttp)
-----------------------------------------------------------------------------
TypeOK == ClientTypeOK /\ frame \in Nat /\ lastTokenRead \in Nat

\* test "Testing binary RPC out of order", "Should not throw exceptions nor get
\* stuck": getResponse() of the binary client hands over the response.  (It does not.)
GetWaitsForResponse == Binary!GetWaitsForResponse
=============================================================================
