-------------------------- MODULE MCHermesExecutor --------------------------
(***************************************************************************)
(* A node with two local profiles and one configured peer whose card       *)
(* advertises two skills.  "deploy" is a capability only the peer has.     *)
(***************************************************************************)
EXTENDS HermesExecutor, TLC

CONSTANTS r1, r2, r3, doris, ray, peerRay, peerOps, home, peer,
          review, consult, deploy

MCProfiles == {doris, ray, peerRay, peerOps}
MCNodes    == {home, peer}
MCKeywords == {review, consult, deploy}

Cap(name, node, intents, tags) ==
    [profile_name |-> name, node_id |-> node, intents |-> intents, tags |-> tags]

MCInitialCapabilities ==
    << Cap(doris, home, {review}, {}), Cap(ray, home, {review, consult}, {}) >>

MCSkills ==
    [p \in {peer} |->
       << Cap(peerRay, peer, {review}, {review}),
          Cap(peerOps, peer, {deploy}, {deploy}) >>]

MCOneSkill == [p \in {peer} |-> << Cap(peerRay, peer, {review}, {review}) >>]

Ask(type, tags, profile, node) ==
    [intent_type |-> type, tags |-> tags,
     target_profile |-> profile, target_node |-> node]

\* One intent for each way through route() that ends in a dispatch, and, when
\* the profile is busy or the peer is not connected, in a refusal.
MCRequested ==
    { Ask(review, {}, None, None),
      Ask(consult, {}, ray, None),
      Ask(review, {}, None, peer),
      Ask(deploy, {}, None, None) }

MCLocalAndAddressed ==
    { Ask(review, {}, None, None),
      Ask(consult, {}, ray, None),
      Ask(review, {}, None, peer) }

\* The requests of a run without liveness are interchangeable, but for those
\* that may be cancelled.
AnyOrder == Permutations(Requests \ Cancellable)

=============================================================================
