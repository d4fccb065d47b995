-------------------------- MODULE MCMeshPeerClient --------------------------
(***************************************************************************)
(* Three configured peers: each may be the first, a middle or the last one *)
(* that connect_all() tries.                                               *)
(***************************************************************************)
EXTENDS MeshPeerClient

CONSTANTS alpha, beta, gamma

MCRegistry == <<alpha, beta, gamma>>

=============================================================================
