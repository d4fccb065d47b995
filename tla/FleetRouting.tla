---------------------------- MODULE FleetRouting ----------------------------
(***************************************************************************)
(* The fleet controller on its own, driven by any sequence of calls its    *)
(* interface allows (src/core/domain/interfaces/fleet_controller.py):      *)
(* profiles and peers register capabilities at any time, again with other  *)
(* intents when a peer reconnects, tasks are routed, and profiles are      *)
(* released.  It asks whether the routing decision is right in every       *)
(* registry and availability those calls can produce.                      *)
(***************************************************************************)
EXTENDS FleetController

CONSTANTS
    Catalogue,   \* the capabilities that may be registered
    Requested    \* the intents that may be routed

ASSUME RoutingAssumption ==
    /\ Catalogue \subseteq Capability
    /\ Requested \subseteq TaskIntent

vars == fleetVars

Init ==
    /\ capabilities = <<>>
    /\ busy = {}

route(intent) ==
    /\ MarkBusy(Route(intent))
    /\ UNCHANGED capabilities

release(profile) ==
    /\ Release(profile)
    /\ UNCHANGED capabilities

register_profile(cap) ==
    /\ RegisterProfile(cap)
    /\ UNCHANGED busy

Next ==
    \/ \E intent \in Requested : route(intent)
    \/ \E profile \in busy : release(profile)
    \/ \E cap \in Catalogue : register_profile(cap)

Spec == Init /\ [][Next]_vars

=============================================================================
