----------------------------- MODULE SyncBridge -----------------------------
(***************************************************************************)
(* The adapter the orchestrator dispatches through                         *)
(* (src/adapter/hermes_adapter.py).  send_task() runs a local task in the  *)
(* thread of its caller and hands a remote one to a pool of worker         *)
(* threads, for which the caller waits 120 seconds.                        *)
(*                                                                         *)
(* A caller that gives up leaves its job where it is: a running one runs   *)
(* on in its worker, a queued one starts when a worker is free.  A call    *)
(* from a thread without an event loop runs the coroutine in that thread   *)
(* and waits for as long as it takes.  How a job ends is the business of   *)
(* the modules that use this one.                                          *)
(***************************************************************************)
EXTENDS Naturals, Sequences, FiniteSets

CONSTANTS
    Calls,        \* calls of send_task()
    Threads,      \* threads they come from
    ThreadOf,     \* call -> its thread
    LoopThreads,  \* threads with a running event loop
    Nodes,        \* values of target_node
    TargetOf,     \* call -> the target_node of its intent, or None
    Local,        \* the target_node "local"
    Wirings,      \* whether a MeshPeerClient may be configured
    PoolSize,     \* workers of _SYNC_BRIDGE_POOL: 4
    LocalResults, \* how the injected dispatch function may end
    None

ASSUME BridgeAssumption ==
    /\ ThreadOf \in [Calls -> Threads]
    /\ LoopThreads \subseteq Threads
    /\ TargetOf \in [Calls -> Nodes \cup {None}]
    /\ Local \in Nodes
    /\ Wirings \subseteq BOOLEAN
    /\ PoolSize \in Nat \ {0}
    /\ LocalResults \subseteq {"completed", "failed", "input_required", "raised"}
    /\ None \notin Nodes \cup {"completed", "failed", "timed_out",
                            "input_required", "raised"}

VARIABLES
    wired,    \* whether the adapter has a mesh client
    at,       \* call -> where its send_task() stands
    told,     \* call -> what its caller was told, or None
    queue,    \* the pool's queue of jobs
    running,  \* the calls whose jobs a worker runs
    future    \* call -> how its job ended, or None

bridgeVars == <<wired, at, told, queue, running, future>>

\* "local" the agent runs, "inline" the coroutine runs in the thread of the
\* caller, "waiting" the caller waits for the pool.
BridgeTypeOK ==
    /\ wired \in BOOLEAN
    /\ at \in [Calls -> {"new", "local", "inline", "waiting", "returned"}]
    /\ told \in [Calls -> {"completed", "failed", "timed_out",
                           "input_required", "raised", None}]
    /\ queue \in Seq(Calls)
    /\ running \subseteq Calls
    /\ future \in [Calls -> {"completed", "failed", None}]

BridgeInit ==
    /\ wired \in Wirings
    /\ at = [c \in Calls |-> "new"]
    /\ told = [c \in Calls |-> None]
    /\ queue = <<>>
    /\ running = {}
    /\ future = [c \in Calls |-> None]

-----------------------------------------------------------------------------
(* send_task(), up to its return or its first wait                         *)

\* Every way to wait blocks the thread.
ThreadIsFree(t) ==
    \A c \in Calls : ThreadOf[c] = t => at[c] \in {"new", "returned"}

Goes(c, place) == at' = [at EXCEPT ![c] = place]

Returns(c, result) ==
    /\ Goes(c, "returned")
    /\ told' = [told EXCEPT ![c] = result]

IsRemote(c) == TargetOf[c] \notin {None, Local}

Called(c) == at[c] = "new" /\ ThreadIsFree(ThreadOf[c])

SendLocally(c) ==
    /\ Called(c) /\ ~ IsRemote(c)
    /\ Goes(c, "local")
    /\ UNCHANGED <<wired, told, queue, running, future>>

SendUnwired(c) ==
    /\ Called(c) /\ IsRemote(c) /\ ~ wired
    /\ Returns(c, "failed")
    /\ UNCHANGED <<wired, queue, running, future>>

SendInline(c) ==
    /\ Called(c) /\ IsRemote(c) /\ wired
    /\ ThreadOf[c] \notin LoopThreads
    /\ Goes(c, "inline")
    /\ UNCHANGED <<wired, told, queue, running, future>>

SendThroughPool(c) ==
    /\ Called(c) /\ IsRemote(c) /\ wired
    /\ ThreadOf[c] \in LoopThreads
    /\ Goes(c, "waiting")
    /\ queue' = Append(queue, c)
    /\ UNCHANGED <<wired, told, running, future>>

SendTask(c) ==
    SendLocally(c) \/ SendUnwired(c) \/ SendInline(c) \/ SendThroughPool(c)

LocalReturns(c) ==
    /\ at[c] = "local"
    /\ \E result \in LocalResults : Returns(c, result)
    /\ UNCHANGED <<wired, queue, running, future>>

-----------------------------------------------------------------------------
(* The pool, and the caller that waits for it                              *)

\* A free worker takes the oldest job, whether its caller still waits or not.
StartJob(c) ==
    /\ queue # <<>> /\ Head(queue) = c
    /\ Cardinality(running) < PoolSize
    /\ queue' = Tail(queue)
    /\ running' = running \cup {c}
    /\ UNCHANGED <<wired, at, told, future>>

\* The coroutine ends, in its worker or in the thread of its caller; what it
\* raises has become a failure.
CoroutineEnds(c, result) ==
    \/ /\ c \in running
       /\ running' = running \ {c}
       /\ future' = [future EXCEPT ![c] = result]
       /\ UNCHANGED <<wired, at, told, queue>>
    \/ /\ at[c] = "inline"
       /\ Returns(c, result)
       /\ UNCHANGED <<wired, queue, running, future>>

\* future.result() returns.
CallerReads(c) ==
    /\ at[c] = "waiting" /\ future[c] # None
    /\ Returns(c, future[c])
    /\ UNCHANGED <<wired, queue, running, future>>

\* Slip: the time-out counts only while the job runs, not while it is queued.
CallerGivesUpOnRunning(c) ==
    /\ at[c] = "waiting" /\ future[c] = None
    /\ c \in running
    /\ Returns(c, "timed_out")
    /\ UNCHANGED <<wired, queue, running, future>>

\* 120 seconds are over and the job is queued or running: it stays so.
CallerGivesUp(c) ==
    /\ at[c] = "waiting" /\ future[c] = None
    /\ Returns(c, "timed_out")
    /\ UNCHANGED <<wired, queue, running, future>>

\* The wait for the pool ends one way or the other, by the clock.
WaitEnds(c) == CallerReads(c) \/ CallerGivesUp(c)

=============================================================================
