-------------------------- MODULE FleetController --------------------------
(***************************************************************************)
(* The routing engine of a node (src/core/fleet_controller.py): a registry *)
(* of capabilities in registration order and the set of busy profile       *)
(* names.  The module defines what route(), release(), register_profile()  *)
(* and discover() compute and do to that state; who calls them, and when,  *)
(* is the business of the modules that extend this one.                    *)
(*                                                                         *)
(* A Python None or empty string in an intent or a dispatch is None here.  *)
(* Intent types and tags share the set Keywords, because the skill tags of *)
(* a peer become both the intents and the tags of its capabilities         *)
(* (mesh_peer_client.py:341).                                              *)
(***************************************************************************)
EXTENDS Naturals, Sequences

CONSTANTS
    Profiles,    \* profile names, "<peer>/<skill>" names included
    Nodes,       \* node identities
    LocalNode,   \* the node_id of this instance
    Keywords,    \* intent types and tags
    None         \* an absent target, profile or node

ASSUME FleetAssumption ==
    /\ LocalNode \in Nodes
    /\ None \notin Profiles \cup Nodes

VARIABLES
    capabilities,   \* _capabilities: a dict, hence kept in insertion order
    busy            \* _busy: names of the profiles that are dispatched

fleetVars == <<capabilities, busy>>

Capability == [profile_name : Profiles,
               node_id      : Nodes,
               intents      : SUBSET Keywords,
               tags         : SUBSET Keywords]

TaskIntent == [intent_type    : Keywords,
               tags           : SUBSET Keywords,
               target_profile : Profiles \cup {None},
               target_node    : Nodes \cup {None}]

ProfileDispatch == [status       : {"dispatched", "no_capacity", "unavailable"},
                    profile_name : Profiles \cup {None},
                    node_address : Nodes \cup {None},
                    endpoint     : {"internal", "a2a", "none"}]

FleetTypeOK ==
    /\ capabilities \in Seq(Capability)
    /\ busy \subseteq Profiles

-----------------------------------------------------------------------------
(* Reading the registry.  A candidate list is the set of the positions of  *)
(* its capabilities; its order is the order of the positions.              *)

Registered(name) ==
    {i \in DOMAIN capabilities : capabilities[i].profile_name = name}

FilterByNode(node) ==
    {i \in DOMAIN capabilities : capabilities[i].node_id = node}

\* Slip: tags are not looked at.
CanHandleByType(cap, intent_type, tags) == intent_type \in cap.intents

CanHandle(cap, intent_type, tags) ==
    \/ intent_type \in cap.intents
    \/ tags \cap cap.tags # {}

First(candidates) == {i \in candidates : \A j \in candidates : i <= j}

\* Slip: a shared tag counts as much as the declared type.
BestMatchByEither(candidates, intent_type, tags) ==
    First({i \in candidates : CanHandle(capabilities[i], intent_type, tags)})

\* The position of the best match, or no position: the first candidate that
\* declares the intent type, and only when there is none the first one that
\* shares a tag with the request.
BestMatch(candidates, intent_type, tags) ==
    LET exact == {i \in candidates : intent_type \in capabilities[i].intents}
        byTag == {i \in candidates : tags \cap capabilities[i].tags # {}}
    IN  First(IF exact # {} THEN exact ELSE byTag)

The(positions) == capabilities[CHOOSE i \in positions : TRUE]

Discover(intent_type, tags) ==
    {i \in DOMAIN capabilities : CanHandle(capabilities[i], intent_type, tags)}

-----------------------------------------------------------------------------
(* The routing decision.                                                   *)

\* Slip: local profiles are told by a fixed name, not by this node's own.
EndpointForFixedName(cap) == "a2a"

EndpointFor(cap) == IF cap.node_id = LocalNode THEN "internal" ELSE "a2a"

Answer(status, cap) ==
    [status       |-> status,
     profile_name |-> cap.profile_name,
     node_address |-> cap.node_id,
     endpoint     |-> EndpointFor(cap)]

Unavailable(profile, node) ==
    [status       |-> "unavailable",
     profile_name |-> profile,
     node_address |-> node,
     endpoint     |-> "none"]

\* Slip: the tracker is not consulted.
ClaimUnchecked(cap) == Answer("dispatched", cap)

\* The availability check that ends every successful match.
Claim(cap) ==
    Answer(IF cap.profile_name \in busy THEN "no_capacity" ELSE "dispatched", cap)

RouteToProfile(intent) ==
    LET named == Registered(intent.target_profile)
        cap   == The(named)
    IN  IF named = {}
          THEN Unavailable(intent.target_profile, None)
        ELSE IF intent.target_node \notin {None, cap.node_id}
          THEN Unavailable(intent.target_profile, intent.target_node)
        ELSE IF ~ CanHandle(cap, intent.intent_type, {})
          THEN Answer("unavailable", cap)
        ELSE Claim(cap)

RouteByMatch(intent) ==
    LET Best(candidates) == BestMatch(candidates, intent.intent_type, intent.tags)
        anyNode    == intent.target_node = None
        match      == Best(IF anyNode THEN DOMAIN capabilities
                                      ELSE FilterByNode(intent.target_node))
        localMatch == Best(FilterByNode(LocalNode))
        preferLocal ==
            /\ anyNode
            /\ The(match).node_id # LocalNode
            /\ localMatch # {}
            /\ CanHandle(The(localMatch), intent.intent_type, {})
            /\ The(localMatch).profile_name \notin busy
    IN  IF match = {} THEN Unavailable(None, intent.target_node)
        ELSE Claim(The(IF preferLocal THEN localMatch ELSE match))

Route(intent) ==
    IF intent.target_profile # None THEN RouteToProfile(intent)
                                    ELSE RouteByMatch(intent)

-----------------------------------------------------------------------------
(* What the calls do to the state.                                         *)

\* Slip: a refused intent marks its profile busy too.
MarkBusyAlways(dispatch) == busy' = busy \cup {dispatch.profile_name}

MarkBusy(dispatch) ==
    busy' = IF dispatch.status = "dispatched"
              THEN busy \cup {dispatch.profile_name}
              ELSE busy

\* Slip: the tracker is reset instead of one name being taken out.
ReleaseAll(profile) == busy' = {}

\* release() frees by profile name alone; its task_id is not looked at.
Release(profile) == busy' = busy \ {profile}

\* Slip: the old entry is removed first, so the new one goes to the end.
ReinsertProfile(cap) ==
    LET Other(c) == c.profile_name # cap.profile_name
    IN  capabilities' = Append(SelectSeq(capabilities, Other), cap)

\* Assigning to an existing key of the dict keeps its place in the order.
RegisterProfile(cap) ==
    LET known == Registered(cap.profile_name)
    IN  capabilities' =
            IF known = {}
              THEN Append(capabilities, cap)
              ELSE [i \in DOMAIN capabilities |->
                      IF i \in known THEN cap ELSE capabilities[i]]

-----------------------------------------------------------------------------
(* The decision is a function of the registry and of the busy profiles, so *)
(* what it must satisfy is stated of every state and every intent.         *)

Free(i) == capabilities[i].profile_name \notin busy

DeclaresIntent(i, intent) == intent.intent_type \in capabilities[i].intents

OnTarget(i, intent) == intent.target_node \in {None, capabilities[i].node_id}

Untargeted(intent) == intent.target_profile = None /\ intent.target_node = None

\* A dispatch goes to a registered profile that is free, honours both
\* explicit targets, and goes to a profile that declares the intent type; a
\* profile that only shares a tag is chosen when the caller names no profile
\* and no candidate declares the type.
DispatchIsRight ==
    \A intent \in TaskIntent :
      Route(intent).status = "dispatched" =>
        \E i \in DOMAIN capabilities :
          /\ Free(i)
          /\ OnTarget(i, intent)
          /\ capabilities[i].profile_name = Route(intent).profile_name
          /\ intent.target_profile \in {None, capabilities[i].profile_name}
          /\ \/ DeclaresIntent(i, intent)
             \/ /\ intent.target_profile = None
                /\ intent.tags \cap capabilities[i].tags # {}
                /\ ~ \E j \in DOMAIN capabilities :
                       OnTarget(j, intent) /\ DeclaresIntent(j, intent)

\* An intent with no explicit target leaves the node only when the first
\* local profile that declares its type is absent or busy.
LocalFirst ==
    \A intent \in TaskIntent :
      /\ Untargeted(intent)
      /\ Route(intent).status = "dispatched"
      /\ Route(intent).endpoint = "a2a"
      => \A i \in First({j \in FilterByNode(LocalNode) :
                           DeclaresIntent(j, intent)}) : ~ Free(i)

\* route() and discover() agree: an intent with no explicit target is refused
\* as unavailable exactly when discover() finds no profile for it.
RouteAgreesWithDiscover ==
    \A intent \in TaskIntent :
      Untargeted(intent) =>
        (Route(intent).status = "unavailable"
           <=> Discover(intent.intent_type, intent.tags) = {})

\* A profile has one place in the registry, and keeps it: registering again,
\* as a reconnecting peer does, changes neither its priority among equal
\* matches nor that of the others.
PlaceIsKept ==
    [][/\ Len(capabilities') >= Len(capabilities)
       /\ \A i \in DOMAIN capabilities :
            capabilities'[i].profile_name = capabilities[i].profile_name
       /\ \A i, j \in DOMAIN capabilities' :
            capabilities'[i].profile_name = capabilities'[j].profile_name
              => i = j]_fleetVars

=============================================================================
