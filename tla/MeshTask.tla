------------------------------ MODULE MeshTask ------------------------------
(***************************************************************************)
(* A task from one node to another, end to end: the adapter of the calling *)
(* node (SyncBridge), the message its mesh client sends                    *)
(* (mesh_peer_client.py, send_task), and the executor of the peer with its *)
(* fleet controller (HermesExecutor), which also serves other clients.     *)
(*                                                                         *)
(* The network may lose a request or deliver it after its caller has been  *)
(* told that the call failed, and may lose an answer.  The peer may        *)
(* restart: it forgets its tasks and which profiles were busy.             *)
(***************************************************************************)
EXTENDS SyncBridge

CONSTANTS
    PeerNode,         \* the node that answers
    Clients,          \* the peers the caller holds a client for
    Profiles,         \* the names of the peer's profiles
    PeerCapabilities, \* the capabilities of the peer's profiles
    Keywords, Consultation, ActionRequest,  \* intent types
    Others,           \* requests of other clients to the peer
    OtherMessages,    \* the messages other clients may send to it
    AgentResults,     \* how the peer's agent may end
    MaxRestarts       \* how often the peer may restart

ASSUME MeshTaskAssumption ==
    /\ PeerNode \in Nodes
    /\ Clients \subseteq Nodes
    /\ {Consultation, ActionRequest} \subseteq Keywords
    /\ Calls \cap Others = {}
    /\ OtherMessages \subseteq
         [parts          : SUBSET {"text", "data", "url", "raw"},
          intent_type    : Keywords \cup {None},
          target_profile : Profiles \cup {None},
          target_node    : Nodes \cup {None}]
    /\ AgentResults \subseteq {"completed", "failed", "raised"}
    /\ MaxRestarts \in Nat

VARIABLES
    wire,      \* call -> what became of its HTTP request
    restarts,  \* how often the peer has restarted
    capabilities, busy, connected, unread, pc, dispatch,
    result, events, audit, cancelPc   \* the peer's HermesExecutor

peerVars == <<capabilities, busy, connected, unread, pc, dispatch,
              result, events, audit, cancelPc>>
vars == <<bridgeVars, wire, restarts, peerVars>>

-----------------------------------------------------------------------------
(* The message, and what the peer makes of it                              *)

\* send_task() puts the question into a text part, and of the intent only
\* provenance into the metadata.
OutgoingMessage ==
    [parts          |-> {"text"},
     intent_type    |-> None,
     target_profile |-> None,
     target_node    |-> None]

DeriveIntentType(parts) ==
    IF "data" \in parts THEN ActionRequest ELSE Consultation

\* Slip: the two targets are read the wrong way round.
RequestToIntentSwapped(message) ==
    [intent_type    |-> IF message.intent_type # None
                          THEN message.intent_type
                          ELSE DeriveIntentType(message.parts),
     tags           |-> {},
     target_profile |-> message.target_node,
     target_node    |-> message.target_profile]

\* request_to_intent(): what the metadata says goes before what the parts
\* suggest; there are never tags.
RequestToIntent(message) ==
    [intent_type    |-> IF message.intent_type # None
                          THEN message.intent_type
                          ELSE DeriveIntentType(message.parts),
     tags           |-> {},
     target_profile |-> message.target_profile,
     target_node    |-> message.target_node]

Peer == INSTANCE HermesExecutor WITH
          LocalNode           <- PeerNode,
          Requests            <- Calls \cup Others,
          Cancellable         <- {},
          Requested           <- {RequestToIntent(m) :
                                    m \in OtherMessages \cup {OutgoingMessage}},
          InitialCapabilities <- PeerCapabilities,
          Skills              <- [n \in Nodes \ {PeerNode} |-> <<>>],
          DispatchResults     <- AgentResults,
          MeshWired           <- FALSE,
          AwaitMayFail        <- FALSE,
          AuditMayFail        <- FALSE

ASSUME PeerAssumption ==
    /\ PeerCapabilities \in Seq(Peer!Capability)
    /\ None \notin Profiles \cup Calls \cup Others
                    \cup Peer!ProfileDispatch \cup Peer!Results

-----------------------------------------------------------------------------
\* wire: "none" nothing sent, "request" on its way, "lost", "taken" by the
\* peer's server.
TypeOK ==
    /\ BridgeTypeOK
    /\ wire \in [Calls -> {"none", "request", "lost", "taken"}]
    /\ restarts \in 0 .. MaxRestarts
    /\ Peer!TypeOK

Init ==
    /\ BridgeInit
    /\ wire = [c \in Calls |-> "none"]
    /\ restarts = 0
    /\ Peer!Init

-----------------------------------------------------------------------------
(* The calling node                                                        *)

Bridge(step) == step /\ UNCHANGED <<wire, restarts, peerVars>>

\* The coroutine of the mesh client exists and has not ended.
InFlight(c) == c \in running \/ at[c] = "inline"

\* The mesh client has no client for the node.  A node's own identity is no
\* peer of it, so a task addressed to it by any name but "local" ends here.
FailUnconnected(c) ==
    /\ InFlight(c) /\ wire[c] = "none"
    /\ TargetOf[c] \notin Clients
    /\ CoroutineEnds(c, "failed")
    /\ UNCHANGED <<wire, restarts, peerVars>>

Post(c) ==
    /\ InFlight(c) /\ wire[c] = "none"
    /\ TargetOf[c] \in Clients
    /\ wire' = [wire EXCEPT ![c] = "request"]
    /\ UNCHANGED <<bridgeVars, restarts, peerVars>>

Answered(c) == \E i \in DOMAIN events[c] : events[c][i] = "message"

\* Any message is a completion, an answer that says the task failed included.
ReplyArrives(c) ==
    /\ InFlight(c) /\ wire[c] = "taken"
    /\ Answered(c)
    /\ CoroutineEnds(c, "completed")
    /\ UNCHANGED <<wire, restarts, peerVars>>

\* The HTTP client's 30 seconds are over, or the connection broke.  A request
\* that was on its way is lost or still arrives.
CallFails(c) ==
    /\ InFlight(c) /\ wire[c] # "none"
    /\ CoroutineEnds(c, "failed")
    /\ \/ UNCHANGED wire
       \/ wire[c] = "request" /\ wire' = [wire EXCEPT ![c] = "lost"]
    /\ UNCHANGED <<restarts, peerVars>>

-----------------------------------------------------------------------------
(* The peer                                                                *)

\* Its server takes the request, and a coroutine runs execute().
PeerTakes(c) ==
    /\ wire[c] = "request"
    /\ Peer!Execute(c, RequestToIntent(OutgoingMessage))
    /\ wire' = [wire EXCEPT ![c] = "taken"]
    /\ UNCHANGED <<bridgeVars, restarts>>

PeerServes(r) ==
    /\ \E m \in OtherMessages : Peer!Execute(r, RequestToIntent(m))
    /\ UNCHANGED <<bridgeVars, wire, restarts>>

PeerProceeds(r) ==
    /\ Peer!Proceed(r)
    /\ UNCHANGED <<bridgeVars, wire, restarts>>

Underway(r) == pc[r] \notin {"new", "done", "lost"}

\* Slip: what was busy outlives the process.
PeerRestartsBusy ==
    /\ restarts < MaxRestarts
    /\ restarts' = restarts + 1
    /\ pc' = [r \in DOMAIN pc |-> IF Underway(r) THEN "lost" ELSE pc[r]]
    /\ dispatch' = [r \in DOMAIN pc |-> IF Underway(r) THEN None ELSE dispatch[r]]
    /\ UNCHANGED <<bridgeVars, wire, capabilities, busy, connected, unread, result,
                   events, audit, cancelPc>>

\* The process of the peer ends and a new one starts: the registry is filled
\* again, nothing is busy, and what was under way is never answered.
PeerRestarts ==
    /\ restarts < MaxRestarts
    /\ restarts' = restarts + 1
    /\ capabilities' = PeerCapabilities
    /\ busy' = {}
    /\ pc' = [r \in DOMAIN pc |-> IF Underway(r) THEN "lost" ELSE pc[r]]
    /\ dispatch' = [r \in DOMAIN pc |-> IF Underway(r) THEN None ELSE dispatch[r]]
    /\ UNCHANGED <<bridgeVars, wire, connected, unread, result,
                   events, audit, cancelPc>>

-----------------------------------------------------------------------------
\* Every call has returned, no job is left and the peer is idle.
Finished ==
    /\ \A c \in Calls : at[c] = "returned" /\ ~ InFlight(c)
    /\ queue = <<>>
    /\ \A r \in DOMAIN pc : ~ Underway(r)
    /\ UNCHANGED vars

Next ==
    \/ \E c \in Calls :
         \/ Bridge(SendTask(c))
         \/ Bridge(LocalReturns(c))
         \/ Bridge(StartJob(c))
         \/ Bridge(WaitEnds(c))
         \/ FailUnconnected(c)
         \/ Post(c)
         \/ ReplyArrives(c)
         \/ CallFails(c)
         \/ PeerTakes(c)
    \/ \E r \in Others : PeerServes(r)
    \/ \E r \in Calls \cup Others : PeerProceeds(r)
    \/ PeerRestarts
    \/ Finished

\* A wait for the pool ends by its clock.  A call in the thread of its caller
\* has only the clock of the HTTP client.  The peer's agent stops after its
\* rounds and its loop runs what is ready.  A job of the pool need not end,
\* a request need not arrive, the peer need not restart.
Fairness ==
    /\ \A c \in Calls :
         /\ WF_vars(Bridge(WaitEnds(c)))
         /\ WF_vars(at[c] = "inline" /\ (FailUnconnected(c) \/ Post(c) \/ CallFails(c)))
    /\ \A r \in Calls \cup Others : WF_vars(PeerProceeds(r))

Spec == Init /\ [][Next]_vars

FairSpec == Spec /\ Fairness

-----------------------------------------------------------------------------
(* What a caller is promised.                                              *)

RemoteCalls == {c \in Calls : IsRemote(c)}

ToldAs(c) == IF told[c] = "timed_out" THEN "failed" ELSE told[c]

Call == INSTANCE RemoteCall WITH
          Calls    <- RemoteCalls,
          Untold   <- None,
          asked    <- {c \in RemoteCalls : at[c] # "new"},
          answered <- {c \in RemoteCalls : Answered(c)},
          outcome  <- [c \in RemoteCalls |-> ToldAs(c)]

\* A caller of send_task() is told once, and in the end, how its remote task
\* ended, and "completed" only when the peer has answered it; with a pool
\* that is full, jobs that start after their caller has gone, requests and
\* answers that are lost or late and a peer that restarts
\* (hermes_adapter.py:162, "prevents hung remote dispatches from blocking the
\* caller indefinitely").
ImplementsRemoteCall == Call!FairSpec

\* The peer's tracker stays exact while callers give up, requests arrive
\* after their callers have gone and the peer restarts.
PeerTrackerIsExact == Peer!BusyIsHeld

=============================================================================
