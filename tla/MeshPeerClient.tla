--------------------------- MODULE MeshPeerClient ---------------------------
(***************************************************************************)
(* How a node connects to its configured peers                             *)
(* (src/adapter/mesh_peer_client.py): connect_all() tries every peer once, *)
(* one after the other; a peer that fails gets a background loop that      *)
(* retries with a growing delay; close() cancels the loops and closes the  *)
(* clients.                                                                *)
(*                                                                         *)
(* All of it runs on the loop of the gateway thread, so a step runs from   *)
(* one await to the next.  What a routed task sees of it, from the other   *)
(* thread and skill by skill, is in HermesExecutor; send_task() is in      *)
(* MeshTask.                                                               *)
(***************************************************************************)
EXTENDS Naturals, Sequences, FiniteSets

CONSTANTS
    Registry,        \* the configured peers, in the order they are tried
    Outage,          \* how many times at most fetching a peer's card fails
    OverflowAttempt, \* the attempt whose delay no float holds: 1024
    CloseAllowed     \* the states of connect_all() in which close() is called

Peers == {Registry[i] : i \in DOMAIN Registry}

ASSUME MeshAssumption ==
    /\ Registry \in Seq(Peers) \ {<<>>}
    /\ \A i, j \in DOMAIN Registry : Registry[i] = Registry[j] => i = j
    /\ Outage \in Nat
    /\ OverflowAttempt \in Nat \ {0, 1}
    /\ CloseAllowed \subseteq {"idle", "fetching", "done"}

VARIABLES
    clients,    \* _clients: peers with an SDK client
    routable,   \* peers whose skills the fleet controller knows
    sweep,      \* where connect_all() stands
    trying,     \* the place in the registry of the peer it is trying
    failed,     \* the peers it failed to connect
    loop,       \* peer -> its retry task in _retry_tasks
    attempt,    \* peer -> the attempt its retry task is at
    outage,     \* peer -> how many times fetching its card has failed
    closing,    \* where close() stands
    toClose,    \* how many clients close() has yet to close
    sizeThen    \* the size _clients had when close() began to iterate

\* What no step of the code reads, kept for ClosedForGood: the peers connect_all()
\* was through with, connected or left to their retries, when close() was called.
VARIABLE settled

connectVars == <<sweep, trying, failed>>
retryVars   == <<loop, attempt>>
closeVars   == <<closing, toClose, sizeThen, settled>>
vars == <<clients, routable, connectVars, retryVars, outage, closeVars>>

\* loop: "none" no task; "sleeping" in its delay; "fetching" in
\* connect_peer(); "died" ended by the exception of its delay, its entry left.
TypeOK ==
    /\ clients \subseteq Peers
    /\ routable \subseteq Peers
    /\ sweep \in {"idle", "fetching", "done"}
    /\ trying \in DOMAIN Registry
    /\ failed \subseteq Peers
    /\ loop \in [Peers -> {"none", "sleeping", "fetching", "died"}]
    /\ attempt \in [Peers -> 0 .. OverflowAttempt]
    /\ outage \in [Peers -> 0 .. Outage]
    /\ closing \in {"open", "closing", "closed", "raised"}
    /\ toClose \in 0 .. Len(Registry)
    /\ sizeThen \in 0 .. Len(Registry)
    /\ settled \subseteq Peers

Init ==
    /\ clients = {}
    /\ routable = {}
    /\ sweep = "idle"
    /\ trying = 1
    /\ failed = {}
    /\ loop = [p \in Peers |-> "none"]
    /\ attempt = [p \in Peers |-> 0]
    /\ outage = [p \in Peers |-> 0]
    /\ closing = "open"
    /\ toClose = 0
    /\ sizeThen = 0
    /\ settled = {}

-----------------------------------------------------------------------------
(* connect_peer(), from the answer of the peer's card on.                  *)

\* The card is there: the client is kept, then the skills are registered.
CardArrives(p) ==
    /\ clients' = clients \cup {p}
    /\ routable' = routable \cup {p}
    /\ UNCHANGED outage

\* No card, or no client can be made of it: connect_peer() returns False.
CardFails(p) ==
    /\ outage[p] < Outage
    /\ outage' = [outage EXCEPT ![p] = @ + 1]
    /\ UNCHANGED <<clients, routable>>

-----------------------------------------------------------------------------
(* connect_all()                                                           *)

StartConnectAll ==
    /\ sweep = "idle"
    /\ sweep' = "fetching"
    /\ UNCHANGED <<clients, routable, trying, failed, retryVars, outage, closeVars>>

\* Slip: every peer gets a retry task, connected or not.
ScheduleRetriesOfAll(names) ==
    /\ loop' = [p \in Peers |-> "sleeping"]
    /\ attempt' = [p \in Peers |-> 1]

\* _schedule_peer_retry for every peer that failed: any task it has is
\* replaced by a new one, whose first attempt starts with its delay.
ScheduleRetries(names) ==
    /\ loop' = [p \in Peers |-> IF p \in names THEN "sleeping" ELSE loop[p]]
    /\ attempt' = [p \in Peers |-> IF p \in names THEN 1 ELSE attempt[p]]

\* Slip: the end of the registry is noticed one peer too late.
GoOnPastEnd(names) ==
    /\ failed' = names
    /\ IF trying <= Len(Registry)
         THEN /\ trying' = trying + 1
              /\ UNCHANGED <<sweep, retryVars>>
         ELSE /\ sweep' = "done"
              /\ ScheduleRetries(names)
              /\ UNCHANGED trying

\* After the attempt at one peer: the next one, or the retries of them all.
GoOn(names) ==
    /\ failed' = names
    /\ IF trying < Len(Registry)
         THEN /\ trying' = trying + 1
              /\ UNCHANGED <<sweep, retryVars>>
         ELSE /\ sweep' = "done"
              /\ ScheduleRetries(names)
              /\ UNCHANGED trying

\* Connecting in turn: one peer's card, or failure, decides what is next.
ConnectNext ==
    LET p == Registry[trying]
    IN  /\ sweep = "fetching"
        /\ \/ CardArrives(p) /\ GoOn(failed)
           \/ CardFails(p) /\ GoOn(failed \cup {p})
        /\ UNCHANGED closeVars

-----------------------------------------------------------------------------
(* _retry_peer_loop()                                                      *)

Wake(p) ==
    /\ loop[p] = "sleeping"
    /\ loop' = [loop EXCEPT ![p] = "fetching"]
    /\ UNCHANGED <<clients, routable, connectVars, attempt, outage, closeVars>>

\* The card arrives: the task takes itself out of _retry_tasks and returns.
RetrySucceeds(p) ==
    /\ loop[p] = "fetching"
    /\ CardArrives(p)
    /\ loop' = [loop EXCEPT ![p] = "none"]
    /\ UNCHANGED <<connectVars, attempt, closeVars>>

\* Slip: the loop gives up after a first retry.
RetryFailsOnce(p) ==
    /\ loop[p] = "fetching"
    /\ CardFails(p)
    /\ loop' = [loop EXCEPT ![p] = "none"]
    /\ UNCHANGED <<connectVars, attempt, closeVars>>

\* No card: the next delay is computed, 1.0 * 2**attempt before it is capped.
\* The conversion to a float raises OverflowError from OverflowAttempt on.
RetryFails(p) ==
    /\ loop[p] = "fetching"
    /\ CardFails(p)
    /\ attempt' = [attempt EXCEPT ![p] = @ + 1]
    /\ loop' = [loop EXCEPT ![p] =
                  IF attempt'[p] >= OverflowAttempt THEN "died" ELSE "sleeping"]
    /\ UNCHANGED <<connectVars, closeVars>>

-----------------------------------------------------------------------------
(* close()                                                                 *)

ForgetClients ==
    /\ clients' = {}
    /\ closing' = "closed"
    /\ toClose' = 0
    /\ UNCHANGED sizeThen

BeginClosing ==
    IF clients = {}
      THEN ForgetClients
      ELSE /\ closing' = "closing"
           /\ toClose' = Cardinality(clients)
           /\ sizeThen' = Cardinality(clients)
           /\ UNCHANGED clients

\* Until connect_all() ends, no retry of a peer that failed is scheduled.
Settle == settled' = IF sweep = "done" THEN Peers ELSE clients

\* Slip: the retry tasks are left running.
CloseKeepingRetries ==
    /\ closing = "open"
    /\ sweep \in CloseAllowed
    /\ BeginClosing
    /\ Settle
    /\ UNCHANGED <<routable, connectVars, retryVars, outage>>

\* Every retry task is cancelled, wherever it waits (a CancelledError passes
\* by the handler in connect_peer); then the first client is closed.
Close ==
    /\ closing = "open"
    /\ sweep \in CloseAllowed
    /\ loop' = [p \in Peers |-> "none"]
    /\ BeginClosing
    /\ Settle
    /\ UNCHANGED <<routable, connectVars, attempt, outage>>

\* A client is closed (an exception of it is swallowed) and the iteration
\* goes on; it raises when the dict has grown since it began.
CloseNext ==
    /\ closing = "closing"
    /\ IF Cardinality(clients) # sizeThen
          THEN /\ closing' = "raised"
               /\ UNCHANGED <<clients, toClose, sizeThen>>
        ELSE IF toClose > 1
          THEN /\ toClose' = toClose - 1
               /\ UNCHANGED <<clients, closing, sizeThen>>
        ELSE ForgetClients
    /\ UNCHANGED <<routable, connectVars, retryVars, outage, settled>>

-----------------------------------------------------------------------------
Retry(p) == Wake(p) \/ RetrySucceeds(p) \/ RetryFails(p)

\* close() has returned, or nothing is left to try.
Finished ==
    /\ sweep = "done"
    /\ \A p \in Peers : loop[p] \in {"none", "died"}
    /\ UNCHANGED vars

Next ==
    \/ StartConnectAll
    \/ ConnectNext
    \/ \E p \in Peers : Retry(p)
    \/ Close
    \/ CloseNext
    \/ Finished

Spec == Init /\ [][Next]_vars

-----------------------------------------------------------------------------
Retrying(p) == loop[p] \in {"sleeping", "fetching"}

\* Once connect_all() has been through the registry, every peer is connected
\* or has a task that will try again: none falls between the two while
\* attempts fail and succeed.  (Outages shorter than OverflowAttempt.)
NoPeerIsForgotten ==
    sweep = "done" /\ closing = "open" =>
      \A p \in Peers : p \in clients \/ Retrying(p)

\* A peer is connected once: a connected peer is never fetched or retried,
\* which would replace its client under a task that is using it.
ConnectedOnce ==
    \A p \in clients :
      /\ ~ Retrying(p)
      /\ sweep = "fetching" => Registry[trying] # p

\* When close() has returned, no peer that was connected or waited for a retry
\* when it was called has a client or a task that could connect it again, then or
\* later (CHANGELOG.md: "all retry tasks cancelled"), although connect_all() may
\* still be under way: only the peers it had not come to, or had failed to connect
\* and not yet handed to a retry, are connected after close().
ClosedForGood ==
    closing = "closed" => \A p \in settled : p \notin clients /\ ~ Retrying(p)

\* "Termination: on success or close()" (docs/references/architecture.md): a
\* retry task ends only because its peer is connected or close() was called.
RetryEndsOnSuccessOrClose ==
    [][\A p \in Peers :
         Retrying(p) /\ ~ Retrying(p)' => p \in clients' \/ closing' # "open"]_vars

=============================================================================
