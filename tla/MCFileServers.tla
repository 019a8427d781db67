---------------------------- MODULE MCFileServers ---------------------------
EXTENDS FileServers

const_Files == {"/index.html", "/LICENSE"}
\* Generated by both servers; the dynamic one does not know its size beforehand.
const_Providers == [path \in {"/gen.css"} |-> [known |-> FALSE, chunks |-> <<<<8>>, <<8, 8>>>>]]
=============================================================================
