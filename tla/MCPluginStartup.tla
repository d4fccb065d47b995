-------------------------- MODULE MCPluginStartup --------------------------
(***************************************************************************)
(* A node with the three peers of MCMeshPeerClient.                        *)
(***************************************************************************)
EXTENDS PluginStartup, MCMeshPeerClient

=============================================================================
