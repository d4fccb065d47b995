----------------------------- MODULE MCMeshTask -----------------------------
(***************************************************************************)
(* One call from the server's loop and one from a thread without a loop go *)
(* to a peer with one profile, which another client uses too; one from the *)
(* gateway's loop is addressed to the calling node by its own name, and    *)
(* one more is local.  The pool has one worker.  The peer has no mesh      *)
(* client of its own, but knows a profile of the calling node.             *)
(***************************************************************************)
EXTENDS MeshTask

CONSTANTS c1, c2, c3, c4, o1, server, gateway, plain, home, peer, local, ray, cody,
          consultation, action

MCThreadOf ==
    [c \in Calls |-> CASE c = c1 -> server [] c = c2 -> plain [] c \in {c3, c4} -> gateway]

MCTargetOf ==
    [c \in Calls |-> CASE c \in {c1, c2} -> peer [] c = c3 -> home [] c = c4 -> local]

MCPeerCapabilities ==
    << [profile_name |-> ray, node_id |-> peer, intents |-> {consultation}, tags |-> {}],
       [profile_name |-> cody, node_id |-> home, intents |-> {action}, tags |-> {}] >>

Say(parts, type, profile) ==
    [parts |-> parts, intent_type |-> type, target_profile |-> profile,
     target_node |-> None]

\* A request to a profile by its name, one for the profile that is elsewhere,
\* and one whose metadata asks for it against its parts.
MCOtherMessages ==
    { Say({"data"}, consultation, ray), Say({"data"}, None, None),
      Say({"text"}, action, cody) }

=============================================================================
