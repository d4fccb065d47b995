--------------------------- MODULE HermesExecutor ---------------------------
(***************************************************************************)
(* The life of an A2A request inside a node                                *)
(* (src/adapter/hermes_executor.py): the executor routes it with the fleet *)
(* controller, runs the local agent or calls the peer, answers on the      *)
(* event queue, writes the audit trail and releases the profile.           *)
(*                                                                         *)
(* One coroutine runs execute() per request, and one more runs cancel().   *)
(* All of them share the event loop of the server thread, so a step runs   *)
(* from one await to the next.  The local dispatch is not awaited: while   *)
(* it runs, no other coroutine of the loop does.  Peers connect and        *)
(* register their skills from the loop of the gateway thread, which the    *)
(* dispatch does not block.                                                *)
(***************************************************************************)
EXTENDS FleetController

CONSTANTS
    Requests,           \* the requests the SDK hands to execute()
    Cancellable,        \* those the SDK may ask to cancel
    Requested,          \* the intents request_to_intent() makes of them
    InitialCapabilities,\* registered before the server starts
    Skills,             \* peer -> the capabilities its card advertises
    DispatchResults,    \* how the injected dispatch function may end
    MeshWired,          \* whether a MeshPeerClient is configured
    AwaitMayFail,       \* whether the SDK may end a coroutine at an await
    AuditMayFail        \* whether writing the audit log may fail

Peers == Nodes \ {LocalNode}

Results == {"completed", "failed", "not_connected", "input_required", "raised"}

ASSUME ExecutorAssumption ==
    /\ Cancellable \subseteq Requests
    /\ Requested \subseteq TaskIntent
    /\ InitialCapabilities \in Seq(Capability)
    /\ Skills \in [Peers -> Seq(Capability)]
    /\ DispatchResults \subseteq Results \ {"not_connected"}
    /\ {MeshWired, AwaitMayFail, AuditMayFail} \subseteq BOOLEAN
    /\ None \notin Requests \cup ProfileDispatch \cup Results

VARIABLES
    connected,   \* peers the mesh client holds a client for
    unread,      \* peer -> the skills of its card still to be registered
    pc,          \* request -> where its execute() coroutine stands
    dispatch,    \* request -> what route() returned for it, or None
    result,      \* request -> how its dispatch ended, or None
    events,      \* request -> what was enqueued for its caller
    audit,       \* request -> the audit entries on disk for it
    cancelPc     \* request -> where its cancel() coroutine stands

meshVars == <<connected, unread>>
taskVars == <<pc, dispatch, result, events, audit, cancelPc>>
vars     == <<fleetVars, meshVars, taskVars>>

(***************************************************************************)
(* pc: "new" not received; "local" and "remote" dispatched; "rejecting",   *)
(* "raising", "answering" and "asking" about to enqueue the refusal, the   *)
(* execution error, the answer and the input-required status; "asked"      *)
(* returned after asking; "lost" ended at an await; "done" returned.       *)
(***************************************************************************)
ExecutePoints == {"new", "rejecting", "local", "remote", "raising",
                  "answering", "asking", "asked", "lost", "done"}

AuditEntry == {"task_submitted", "task_in_progress", "message_sent",
               "task_completed", "task_failed", "orchestrator_recruit",
               "task_cancelled"}

TypeOK ==
    /\ FleetTypeOK
    /\ connected \subseteq Peers
    /\ unread \in [Peers -> Seq(Capability)]
    /\ pc \in [Requests -> ExecutePoints]
    /\ dispatch \in [Requests -> ProfileDispatch \cup {None}]
    /\ result \in [Requests -> Results \cup {None}]
    /\ events \in [Requests -> Seq({"message", "status"})]
    /\ audit \in [Requests -> Seq(AuditEntry)]
    /\ cancelPc \in [Requests -> {"none", "status", "message", "lost", "done"}]

Init ==
    /\ capabilities = InitialCapabilities
    /\ busy = {}
    /\ connected = {}
    /\ unread = Skills
    /\ pc = [r \in Requests |-> "new"]
    /\ dispatch = [r \in Requests |-> None]
    /\ result = [r \in Requests |-> None]
    /\ events = [r \in Requests |-> <<>>]
    /\ audit = [r \in Requests |-> <<>>]
    /\ cancelPc = [r \in Requests |-> "none"]

-----------------------------------------------------------------------------
(* Peers, as far as routing sees them (mesh_peer_client.py).               *)

\* A peer's card has been fetched: its client is kept.
ConnectPeer(peer) ==
    /\ MeshWired
    /\ peer \notin connected
    /\ connected' = connected \cup {peer}
    /\ UNCHANGED <<fleetVars, unread, taskVars>>

\* Slip: the skills are registered before the client is kept.
RegisterSkillEarly(peer) ==
    /\ unread[peer] # <<>>
    /\ RegisterProfile(Head(unread[peer]))
    /\ unread' = [unread EXCEPT ![peer] = Tail(@)]
    /\ UNCHANGED <<busy, connected, taskVars>>

\* The loop over the card's skills, one registration at a time.
RegisterSkill(peer) ==
    /\ peer \in connected
    /\ unread[peer] # <<>>
    /\ RegisterProfile(Head(unread[peer]))
    /\ unread' = [unread EXCEPT ![peer] = Tail(@)]
    /\ UNCHANGED <<busy, connected, taskVars>>

-----------------------------------------------------------------------------
(* Pieces the coroutines share.                                            *)

LoopIsFree == \A r \in Requests : pc[r] # "local"

\* _safe_log: an entry that cannot be written is dropped, and nothing else
\* changes.  A disk that is full stays so for the rest of the step.
SafeLog(r, entries) ==
    \E written \in IF AuditMayFail THEN 0 .. Len(entries) ELSE {Len(entries)} :
        audit' = [audit EXCEPT ![r] = @ \o SubSeq(entries, 1, written)]

Enqueue(r, event) == events' = [events EXCEPT ![r] = Append(@, event)]

Goto(r, point) == pc' = [pc EXCEPT ![r] = point]

Finish(r, res, point) ==
    /\ result' = [result EXCEPT ![r] = res]
    /\ Goto(r, point)

\* Slip: whatever is not completed is taken for a question.
AfterResultAsks(res) == IF res = "completed" THEN "answering" ELSE "asking"

AfterResult(res) ==
    IF res = "raised" THEN "raising"
    ELSE IF res = "input_required" THEN "asking"
    ELSE "answering"

-----------------------------------------------------------------------------
(* execute()                                                               *)

\* From the call to the first await: translate, route, open the audit trail
\* and dispatch.  send_task() looks up the client before it awaits anything,
\* and it looks up the node the caller asked for, not the one route() chose.
Execute(r, intent) ==
    LET decision == Route(intent)
        remote   == decision.endpoint = "a2a"
    IN  /\ pc[r] = "new"
        /\ LoopIsFree
        /\ MarkBusy(decision)
        /\ dispatch' = [dispatch EXCEPT ![r] = decision]
        /\ IF decision.status # "dispatched"
             THEN /\ Goto(r, "rejecting")
                  /\ UNCHANGED <<result, audit>>
             ELSE /\ SafeLog(r, <<"task_submitted", "task_in_progress">>)
                  /\ \/ ~ remote /\ Goto(r, "local") /\ UNCHANGED result
                     \/ remote /\ ~ MeshWired /\ Finish(r, "raised", "raising")
                     \/ /\ remote /\ MeshWired
                        /\ intent.target_node \notin connected
                        /\ Finish(r, "not_connected", "answering")
                     \/ /\ remote /\ MeshWired
                        /\ intent.target_node \in connected
                        /\ Goto(r, "remote") /\ UNCHANGED result
        /\ UNCHANGED <<capabilities, meshVars, events, cancelPc>>

\* The refusal: nothing was claimed, so nothing is released.
Reject(r) ==
    /\ pc[r] = "rejecting"
    /\ LoopIsFree
    /\ Enqueue(r, "message")
    /\ SafeLog(r, <<"task_submitted", "task_failed">>)
    /\ Goto(r, "done")
    /\ UNCHANGED <<fleetVars, meshVars, dispatch, result, cancelPc>>

\* The blocking dispatch ends; the coroutine goes on to its next await.
LocalReturn(r) ==
    /\ pc[r] = "local"
    /\ \E res \in DispatchResults : Finish(r, res, AfterResult(res))
    /\ UNCHANGED <<fleetVars, meshVars, dispatch, events, audit, cancelPc>>

\* The peer answers, or the call fails inside send_task.
RemoteReturn(r) ==
    /\ pc[r] = "remote"
    /\ LoopIsFree
    /\ \E res \in {"completed", "failed"} : Finish(r, res, AfterResult(res))
    /\ UNCHANGED <<fleetVars, meshVars, dispatch, events, audit, cancelPc>>

\* Slip: the handler returns before the release.
AnswerRaisedKeepingProfile(r) ==
    /\ pc[r] = "raising"
    /\ LoopIsFree
    /\ Enqueue(r, "message")
    /\ SafeLog(r, <<"task_failed">>)
    /\ Goto(r, "done")
    /\ UNCHANGED <<fleetVars, meshVars, dispatch, result, cancelPc>>

\* The exception handler: message, audit, release.
AnswerRaised(r) ==
    /\ pc[r] = "raising"
    /\ LoopIsFree
    /\ Enqueue(r, "message")
    /\ SafeLog(r, <<"task_failed">>)
    /\ Release(dispatch[r].profile_name)
    /\ Goto(r, "done")
    /\ UNCHANGED <<capabilities, meshVars, dispatch, result, cancelPc>>

\* Slip: every answer is recorded as a completion.
CompletedEntry(r) == "task_completed"

OutcomeEntry(r) ==
    IF result[r] = "completed" THEN "task_completed" ELSE "task_failed"

\* Completed, failed or unknown status: message, audit, release.
AnswerResult(r) ==
    /\ pc[r] = "answering"
    /\ LoopIsFree
    /\ Enqueue(r, "message")
    /\ SafeLog(r, <<"message_sent", OutcomeEntry(r)>>)
    /\ Release(dispatch[r].profile_name)
    /\ Goto(r, "done")
    /\ UNCHANGED <<capabilities, meshVars, dispatch, result, cancelPc>>

\* input_required: a status event, and the orchestrator's hook, which ignores
\* tasks that were never registered with it.  execute() registers none.
AskForInput(r) ==
    /\ pc[r] = "asking"
    /\ LoopIsFree
    /\ Enqueue(r, "status")
    /\ SafeLog(r, <<"task_in_progress", "orchestrator_recruit">>)
    /\ Goto(r, "asked")
    /\ UNCHANGED <<fleetVars, meshVars, dispatch, result, cancelPc>>

\* The SDK ends the coroutine at an await (cancellation, closed queue).  What
\* is raised there passes by the handler around the dispatch.
AwaitFails(r) ==
    /\ AwaitMayFail
    /\ pc[r] \in {"rejecting", "remote", "raising", "answering", "asking"}
    /\ LoopIsFree
    /\ Goto(r, "lost")
    /\ UNCHANGED <<fleetVars, meshVars, dispatch, result, events, audit, cancelPc>>

-----------------------------------------------------------------------------
(* cancel()                                                                *)

CancelTo(r, point) == cancelPc' = [cancelPc EXCEPT ![r] = point]

StartCancel(r) ==
    /\ r \in Cancellable
    /\ pc[r] \notin {"new", "done"}
    /\ cancelPc[r] = "none"
    /\ LoopIsFree
    /\ CancelTo(r, "status")
    /\ UNCHANGED <<fleetVars, meshVars, pc, dispatch, result, events, audit>>

CancelStatus(r) ==
    /\ cancelPc[r] = "status"
    /\ LoopIsFree
    /\ Enqueue(r, "status")
    /\ CancelTo(r, "message")
    /\ UNCHANGED <<fleetVars, meshVars, pc, dispatch, result, audit>>

\* Slip: no acknowledgement once the task has been answered.
CancelMessageUnlessAnswered(r) ==
    /\ cancelPc[r] = "message"
    /\ LoopIsFree
    /\ pc[r] # "done"
    /\ Enqueue(r, "message")
    /\ SafeLog(r, <<"task_cancelled">>)
    /\ CancelTo(r, "done")
    /\ UNCHANGED <<fleetVars, meshVars, pc, dispatch, result>>

\* Slip: the profile is released although its dispatch goes on.
CancelMessageReleasing(r) ==
    /\ cancelPc[r] = "message"
    /\ LoopIsFree
    /\ Enqueue(r, "message")
    /\ SafeLog(r, <<"task_cancelled">>)
    /\ Release(dispatch[r].profile_name)
    /\ CancelTo(r, "done")
    /\ UNCHANGED <<capabilities, meshVars, pc, dispatch, result>>

\* The dispatch goes on and the profile stays claimed.
CancelMessage(r) ==
    /\ cancelPc[r] = "message"
    /\ LoopIsFree
    /\ Enqueue(r, "message")
    /\ SafeLog(r, <<"task_cancelled">>)
    /\ CancelTo(r, "done")
    /\ UNCHANGED <<fleetVars, meshVars, pc, dispatch, result>>

CancelAwaitFails(r) ==
    /\ AwaitMayFail
    /\ cancelPc[r] \in {"status", "message"}
    /\ LoopIsFree
    /\ CancelTo(r, "lost")
    /\ UNCHANGED <<fleetVars, meshVars, pc, dispatch, result, events, audit>>

-----------------------------------------------------------------------------
Proceed(r) ==
    \/ Reject(r)
    \/ LocalReturn(r)
    \/ RemoteReturn(r)
    \/ AnswerRaised(r)
    \/ AnswerResult(r)
    \/ AskForInput(r)

Cancel(r) == CancelStatus(r) \/ CancelMessage(r)

\* Every request has run its course and no peer is left to connect.
Finished ==
    /\ \A r \in Requests : pc[r] \in {"asked", "lost", "done"}
    /\ UNCHANGED vars

Next ==
    \/ \E r \in Requests :
         \/ \E intent \in Requested : Execute(r, intent)
         \/ Proceed(r)
         \/ AwaitFails(r)
         \/ StartCancel(r)
         \/ Cancel(r)
         \/ CancelAwaitFails(r)
    \/ \E peer \in Peers : ConnectPeer(peer) \/ RegisterSkill(peer)
    \/ Finished

\* The agent stops after max_iterations rounds, the HTTP client of a peer has
\* a timeout, and the loop runs every coroutine that is ready; nothing makes
\* a request arrive or a peer connect.
Fairness == \A r \in Requests : WF_vars(Proceed(r)) /\ WF_vars(Cancel(r))

Spec == Init /\ [][Next]_vars

FairSpec == Spec /\ Fairness

-----------------------------------------------------------------------------
(* Who holds a profile.  A coroutine that asked for input, or was ended at *)
(* an await after its dispatch, is gone and still holds its profile.       *)

Claimed(r) == dispatch[r].profile_name

Holds(r) ==
    /\ dispatch[r] # None
    /\ dispatch[r].status = "dispatched"
    /\ pc[r] \in {"local", "remote", "raising", "answering", "asking",
                  "asked", "lost"}

\* Two tasks never work with the same profile, whatever the interleaving of
\* their coroutines, of late registrations and of cancellations
\* (fleet_controller.py:5-6, "avoid overcommitting a profile").
NoOvercommit ==
    \A r, q \in Requests :
      Holds(r) /\ Holds(q) /\ Claimed(r) = Claimed(q) => r = q

\* The availability tracker is exact: a name is busy exactly when a task
\* holds it.  No release is done twice, none is done for another task, and
\* the only tasks that keep a profile for good asked for input or were lost.
BusyIsHeld == busy = {Claimed(r) : r \in {q \in Requests : Holds(q)}}

\* A profile can only be routed to when its peer can be called: the client is
\* kept before the first skill is registered, and a card is read skill by
\* skill while requests are routed (mesh_peer_client.py:118-124).
RoutablePeersAreConnected ==
    \A i \in DOMAIN capabilities :
      capabilities[i].node_id \in connected \cup {LocalNode}

\* A profile becomes free only in the step in which its own task enqueues the
\* message for its caller: never before the answer, never by another task.
FreedWithTheAnswer ==
    [][\A p \in busy \ busy' :
         \E r \in Requests :
           /\ Holds(r)
           /\ Claimed(r) = p
           /\ ~ Holds(r)'
           /\ events'[r] = Append(events[r], "message")]_vars

Outcomes(r) == {i \in DOMAIN audit[r] : audit[r][i] \in {"task_completed", "task_failed"}}

\* The audit trail records one outcome per request, the one its caller was
\* told, after the request was opened, and no progress after it.  A request
\* that is over lacks its outcome only if a write failed.
TrailMatchesOutcome ==
    \A r \in Requests :
      /\ \A i \in Outcomes(r) :
           /\ pc[r] = "done"
           /\ audit[r][i] = "task_completed" <=> result[r] = "completed"
           /\ \A j \in DOMAIN audit[r] :
                j > i => audit[r][j] = "task_cancelled"
      /\ pc[r] = "done" /\ ~ AuditMayFail =>
           \E i \in Outcomes(r) : \E j \in 1 .. i : audit[r][j] = "task_submitted"

\* Every request the node takes up is answered, whatever becomes of its
\* dispatch and of its audit entries, while other dispatches block the loop.
EveryRequestIsAnswered ==
    \A r \in Requests :
      pc[r] # "new" ~> pc[r] = "done" /\ "message" \in {events[r][i] : i \in DOMAIN events[r]}

\* A cancellation is acknowledged, although a running local dispatch keeps
\* its coroutine from running.
EveryCancelIsAcknowledged ==
    \A r \in Requests : cancelPc[r] = "status" ~> cancelPc[r] = "done"

-----------------------------------------------------------------------------
(* The executor and its fleet controller implement exclusive profiles.     *)

Claims == {<<Claimed(r), r>> : r \in {q \in Requests : Holds(q)}}

HolderIn(claims) ==
    [p \in Profiles |->
       IF \E r \in Requests : <<p, r>> \in claims
         THEN CHOOSE r \in Requests : <<p, r>> \in claims
         ELSE None]

holderOf == HolderIn(Claims)

Slots == INSTANCE ProfileSlots WITH Tasks <- Requests, Nobody <- None, holder <- holderOf

\* Claiming, dispatching, answering and losing a task are the steps of
\* exclusive profiles or change none of them.
ImplementsSlots == Slots!Spec

\* With a dispatch that ends and never asks for input, every profile that is
\* claimed comes back.
ImplementsFairSlots == Slots!FairSpec

-----------------------------------------------------------------------------
(* What documents say of the node and the code does not do.                *)

\* "When node A needs a capability it doesn't have locally, it sends a task
\* to a peer that does" (README.md): a request routed to a connected peer is
\* sent to that peer.
RoutedTaskIsSentToPeer ==
    [][\A r \in Requests :
         /\ pc[r] = "new" /\ pc'[r] # "new"
         /\ dispatch'[r].status = "dispatched"
         /\ dispatch'[r].node_address \in connected
         => pc'[r] = "remote"]_vars

=============================================================================
