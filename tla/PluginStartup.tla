--------------------------- MODULE PluginStartup ---------------------------
(***************************************************************************)
(* How a node comes up (src/a2a_plugin/__init__.py): the gateway calls     *)
(* register(), which marks the plugin as started, wires it, hands the peer *)
(* connections and the recovery of tasks to the gateway's event loop, and  *)
(* starts the HTTP server in a daemon thread.                              *)
(*                                                                         *)
(* register() is synchronous: when the loop runs, it runs below it, so the *)
(* tasks it creates start after it has returned or raised.  When the loop  *)
(* does not run yet, no tasks are created, then or later.                  *)
(***************************************************************************)
EXTENDS MeshPeerClient

CONSTANT LoopAtFirst   \* whether the loop may run when register() is called

ASSUME StartupAssumption == LoopAtFirst \subseteq BOOLEAN

VARIABLES
    loopRuns,   \* whether the gateway's event loop runs
    started,    \* _a2a_server_started
    sweeps,     \* how many tasks were created for connect_all()
    scans,      \* how many were created for the recovery
    recovery,   \* how the recovery stands
    servers     \* how many server threads were started

startVars   == <<started, sweeps, scans, servers>>
startupVars == <<loopRuns, startVars, recovery>>
allVars     == <<vars, startupVars>>

\* A counter beyond one would be a second start.
StartupTypeOK ==
    /\ TypeOK
    /\ {loopRuns, started} \subseteq BOOLEAN
    /\ {sweeps, scans, servers} \subseteq Nat
    /\ recovery \in {"none", "scanning", "done"}

StartupInit ==
    /\ Init
    /\ loopRuns \in LoopAtFirst
    /\ started = FALSE
    /\ sweeps = 0
    /\ scans = 0
    /\ recovery = "none"
    /\ servers = 0

-----------------------------------------------------------------------------
\* loop.create_task(), if the loop runs.
Scheduled(count) == count' = IF loopRuns THEN count + 1 ELSE count

\* What an exception leaves undone depends on where it is raised: importing,
\* reading the configuration, loading profiles and peers; or, with the peer
\* connections scheduled, building the card, the task store and the audit
\* log; or, with the recovery scheduled too, building the routes.
Wire ==
    \/ UNCHANGED <<sweeps, scans, servers>>
    \/ Scheduled(sweeps) /\ UNCHANGED <<scans, servers>>
    \/ Scheduled(sweeps) /\ Scheduled(scans) /\ UNCHANGED servers
    \/ Scheduled(sweeps) /\ Scheduled(scans) /\ servers' = servers + 1

\* Slip: the plugin is marked as started when everything has gone well.
RegisterMarkingLast ==
    /\ ~ started
    /\ Wire
    /\ started' = (servers' # servers)
    /\ UNCHANGED <<vars, loopRuns, recovery>>

\* A call that finds the plugin started returns at once.  The mark is set
\* before anything that may raise, so an attempt that failed was the last.
Register ==
    /\ ~ started
    /\ started' = TRUE
    /\ Wire
    /\ UNCHANGED <<vars, loopRuns, recovery>>

\* The gateway's loop starts after register() was called, or before.
LoopStarts ==
    /\ ~ loopRuns
    /\ loopRuns' = TRUE
    /\ UNCHANGED <<vars, startVars, recovery>>

\* The task of _recover_tasks() awaits the list of stored tasks; what it does
\* with them is Recover in Orchestrator.  Its exceptions are swallowed.
Scan ==
    /\ loopRuns
    /\ \/ recovery = "none" /\ scans > 0 /\ recovery' = "scanning"
       \/ recovery = "scanning" /\ recovery' = "done"
    /\ UNCHANGED <<vars, loopRuns, startVars>>

\* The task of _connect_peers() begins, after register() has ended.
ConnectPeers == sweeps > 0 /\ StartConnectAll

\* What runs on the gateway's loop.
OnLoop(step) == loopRuns /\ step /\ UNCHANGED startupVars

-----------------------------------------------------------------------------
\* Nothing was scheduled, or all that was is over.
StartupOver ==
    /\ started /\ loopRuns
    /\ sweeps > 0 => sweep = "done" /\ \A p \in Peers : loop[p] \in {"none", "died"}
    /\ scans > 0 => recovery = "done"
    /\ UNCHANGED allVars

StartupNext ==
    \/ Register
    \/ LoopStarts
    \/ Scan
    \/ OnLoop(ConnectPeers)
    \/ OnLoop(ConnectNext)
    \/ \E p \in Peers : OnLoop(Retry(p))
    \/ OnLoop(Close)
    \/ OnLoop(CloseNext)
    \/ StartupOver

StartupSpec == StartupInit /\ [][StartupNext]_allVars

\* Fetching a card ends within the HTTP client's timeout, a delay within its
\* cap, and a loop that runs runs what is ready; nothing makes register() or
\* close() be called, a loop start or the store answer.
FairStartupSpec ==
    /\ StartupSpec
    /\ WF_allVars(OnLoop(ConnectPeers))
    /\ WF_allVars(OnLoop(ConnectNext))
    /\ \A p \in Peers : WF_allVars(OnLoop(Retry(p)))

-----------------------------------------------------------------------------
\* However often register() is called and wherever it raises, the peers are
\* connected, the tasks recovered and the server started at most once, in
\* this order, and a node that serves has both of the others under way or,
\* because its loop did not run, neither (__init__.py:546, "Guard against
\* double-initialisation").
StartedOnce ==
    /\ {sweeps, scans, servers} \subseteq {0, 1}
    /\ scans <= sweeps
    /\ servers > 0 => sweeps = scans

\* Every configured peer is connected in the end, however many attempts its
\* outage takes, once register() has scheduled the connections and whatever
\* it raised afterwards, unless close() is called (README.md: "exponential
\* backoff, automatic").
EveryPeerConnects ==
    \A p \in Peers : sweeps > 0 ~> p \in clients \/ closing # "open"

=============================================================================
