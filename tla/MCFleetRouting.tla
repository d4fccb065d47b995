--------------------------- MODULE MCFleetRouting ---------------------------
(***************************************************************************)
(* Two local profiles and one profile of a peer.  The first local profile  *)
(* may be registered with two different declarations, as may the peer's.   *)
(***************************************************************************)
EXTENDS FleetRouting

CONSTANTS doris, ray, peerRay, home, peer, review, consult

MCProfiles == {doris, ray, peerRay}
MCNodes    == {home, peer}
MCKeywords == {review, consult}

Cap(name, node, intents, tags) ==
    [profile_name |-> name, node_id |-> node, intents |-> intents, tags |-> tags]

MCCatalogue ==
    { Cap(doris, home, {review}, {}),
      Cap(doris, home, {consult}, {review}),
      Cap(ray, home, {review, consult}, {}),
      Cap(peerRay, peer, {review}, {review}),
      Cap(peerRay, peer, {consult}, {consult}) }

MCRequested ==
    [intent_type    : MCKeywords,
     tags           : {{}, {review}},
     target_profile : {None, doris, peerRay},
     target_node    : {None, home, peer}]

=============================================================================
