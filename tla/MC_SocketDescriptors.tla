------------------------ MODULE MC_SocketDescriptors ------------------------
(* Two servers for one path and a client, with room for three descriptors.    *)
EXTENDS SocketDescriptors

CONSTANTS s1, s2, c, path

MC_Server == {s1, s2}
MC_Client == {c}
MC_PathOf == [s \in MC_Server |-> path]
=============================================================================
