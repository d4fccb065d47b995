# Verification of hermes-a2a-plugin

TLA+ modules, TLC configurations and TLAPS proofs for the Hermes A2A plugin: a node of a
mesh that takes tasks from its peers over A2A JSON-RPC, runs them with local agent profiles,
and sends tasks to peers. Paths below are relative to the repository's root (its code is in
`src/`).

To check: `tlc -config <X>.cfg <module>` for a run, `tlapm <Module>Proofs.tla` for the proofs.
`PROJECT.json` lists the runs, what each definition models (`map`), one plausible bug per
checked property (`mutants`; the modules call such a definition a *slip*), the hazards and
the disagreements found between the code and what the repository says of it.

## 1. Inventory

| Component | Source | State | Operations |
|---|---|---|---|
| Fleet controller | `core/fleet_controller.py`, `core/domain/models/{capability,intent,dispatch}.py` | `_capabilities` (a dict, in insertion order), `_busy` (a set of profile names) | `route`, `release`, `register_profile`, `discover` |
| Executor | `adapter/hermes_executor.py` | none of its own: a coroutine per request and one per cancellation | `execute`, `cancel` |
| Mesh peer client | `adapter/mesh_peer_client.py`, `adapter/peer_registry.py` | `_clients`, `_cards`, `_retry_tasks` | `connect_all`, `connect_peer`, the retry tasks, `send_task`, `close` |
| Orchestrator | `core/orchestrator.py`, `core/domain/models/persistence.py` | conversation graphs of `TaskRecord`s, `_depth` | `register_task`, `on_status_change`, `recruit_specialist`, `get_conversation_graph` |
| Adapter, sync bridge | `adapter/hermes_adapter.py` | a pool of four worker threads | `send_task`, `_run_async` |
| Plugin | `a2a_plugin/__init__.py` | `_a2a_server_started`, `_fleet_controller` | `register`, `_schedule_peer_connections`, `_recover_tasks`, `_run_via_agent`, `_start_server`, configuration |
| Rate limit | `adapter/rate_limit_middleware.py` | `_buckets` | `dispatch` |
| Version check, peer identity | `adapter/version_middleware.py`, `adapter/auth_context_builder.py` | none | `dispatch`, `build` |
| Audit log | `adapter/audit_logger.py` | the log and its backups on disk | `log_event`, rotation |
| Signing keys, card route | `adapter/agent_card_signer.py`, `adapter/agent_card_route.py` | the profile's `.env`, a lock file, `os.environ` | `ensure_keys`, `load_keys`, the card's endpoint |
| Card builder, profile discovery | `adapter/agent_card_builder.py`, `adapter/profile_discovery.py` | none | format a card, read profile directories |
| SSRF transports | `adapter/ssrf.py` | none | check an address before a request |
| Scripts | `scripts/` | none | start the server, probe it |

How they interact. The plugin's `register()` runs in the gateway's thread: it fills the fleet
controller with the local profiles, starts the peer connections and the recovery of tasks on
the gateway's event loop, and starts the HTTP server in a daemon thread **with a loop of its
own**. A request passes the rate limit and the version check and reaches `execute()` through
the SDK; `execute()` routes it (`route()` marks the profile busy), calls the agent
synchronously or awaits the peer, enqueues the answer, writes the audit trail and releases the
profile. `cancel()` runs in another coroutine of the same loop. Peers that connect register
capabilities in the same fleet controller, from the other thread. The orchestrator consults
the fleet controller and dispatches through the adapter, from both threads.

What is hard, and the properties that make each part correct:

* *fleet controller*: no profile is given to two tasks; a name is busy exactly while a task
  holds it; the choice honours targets, declared types and local preference; re-registration
  keeps places.
* *executor*: every request is answered and every claim given back although coroutines
  interleave at awaits, the local dispatch blocks the loop, cancellations come at any time,
  audit writes fail and awaits may be ended; the audit trail is the truth.
* *mesh peer client*: every peer is connected or being retried, never both; `close()` is final
  for the peers that were.
* *orchestrator*: no profile stays busy for good, a profile is busy exactly while its task is
  unfinished, a task's flag follows its status, consultations are bounded, a resumption
  follows an answer; and where late and repeated reports break that, no more than that breaks.
* *rate limit*: no window of a minute holds more than the limit.
* *adapter*: a caller is answered in time, and what it is told is what happened.
* *plugin*: peers are connected and tasks recovered however it is started.
* *audit log*: entries are lost from the oldest on, whatever fails. *Signing keys*: one key per
  profile, and the rest of its file kept.

## 2. Plan

Built in this order, the most important first:

1. `FleetController` (state, helpers), driven alone by `FleetRouting`. **Done.**
2. `ProfileSlots`, the abstract promise of availability tracking. **Done.**
3. `HermesExecutor`, which composes the fleet controller with requests, cancellations, and
   peers that connect; refines `ProfileSlots`. **Done**, with its proofs.
4. `MeshPeerClient`. **Done**, with its proofs.
5. `Orchestrator`, which composes the fleet controller with records and calls. **Done**, with
   its proofs. It does not refine `ProfileSlots`: a repeated report gives back what another holds.
6. `RateLimiter`. **Done**, with its proofs.
7. `SyncBridge` and `RemoteCall`: the adapter's pool and timeout, and what its caller is
   promised. **Done**; proved in `MeshTaskProofs`.
8. `PluginStartup`: guard, deferred connections, composed with `MeshPeerClient`. **Done**, with
   its proofs.
9. `AuditRotation`: operations that fail, order and losses, bounded size. **Done**, with its
   proofs.
10. `SigningKeys`: gateways that share a profile, lock file, in-place rewriting. **Done**, with
    its proofs.
11. `MeshTask`: two nodes composed end to end; the bridge, the wire and a peer's whole
    executor; refines `RemoteCall`. **Done**, with its proofs.

Every safety property the passing runs check is proved (section 5). What is left is liveness,
which stays with TLC.

Left out of the plan: the layout of answers and cards, which no property is about.

Every module takes its parameters as CONSTANTS with a named assumption, has one action per
operation or per stretch between two awaits, and declares no RECURSIVE operator, so that it
can be proved about.

## 3. Modules and the code

**FleetController**. `capabilities` is the dict as a sequence of
records; `busy` the set. `Route` is `route()`: `RouteToProfile` the branch with a target
profile, `RouteByMatch` the other, each with the early returns in the code's order; `Claim` is
the availability check that ends both. `MarkBusy`, `Release`, `RegisterProfile` are the
changes of state. Names, nodes and keywords are model values; an absent target is `None`.
Intent types and tags share one set, because a peer's skill tags become both.

The properties of a routing decision and of the registry's places are stated here too, because
the executor and the orchestrator route through the same operators.

**FleetRouting** drives it with any sequence of calls the interface allows, and checks them.

**ProfileSlots** is the abstract specification: a holder per profile, `Acquire`, `GiveBack`. The
executor implements it with requests as holders.

**HermesExecutor**. `pc[r]` is where `execute()` stands for request r, `cancelPc[r]` where
`cancel()` does. A step runs from one await to the next: `Execute` (translate, route, audit,
begin the dispatch), `LocalReturn`/`RemoteReturn` (the dispatch ends), `Reject`,
`AnswerRaised`, `AnswerResult`, `AskForInput` (what follows the await of the event queue). The
conjunct `LoopIsFree` says that a local dispatch, which is not awaited, keeps every other
coroutine of the loop from running; `ConnectPeer` and `RegisterSkill` lack it, because they
run on the other loop. `SafeLog` writes any prefix of a step's audit entries, or all of them.
`AwaitFails` is the end of a coroutine at an await (a closed queue, a cancelled task), which
the handler around the dispatch does not catch. `request_to_intent()` is any intent of
`Requested`; in `MeshTask` it is translated from the message.

**MeshPeerClient**. `sweep`, `trying`, `failed` are `connect_all()`; `loop[p]` the retry task of
peer p in `_retry_tasks`; `closing`, `toClose`, `sizeThen` are `close()` and its iteration over a dict
that may grow. `OverflowAttempt` is 1024 in the code: `1.0 * 2**1024` raises.
`settled` is a history variable: the peers `connect_all()` was through with when `close()` was called.
`HermesExecutor.ConnectPeer` and `RegisterSkill` are what the other thread sees of
`CardArrives`.

**PluginStartup** extends it with the start of the node. `Register` is `register()`: the mark
is set first, and `Wire` is how far the call gets before it returns or raises; an exception
matters only by what had been scheduled then. `Scheduled` is `loop.create_task()` behind the
test that the loop runs. `ConnectPeers` and `Scan` are the two tasks on the gateway's loop;
`LoopStarts` is the gateway.

**Orchestrator**. `record[t]` is the `TaskRecord`, `call[c]` the `on_status_change()` in which
thread c waits for the adapter: first for the specialist, then for the resumed task. `Report`
takes every report of a registered task, as the code does: of a task that has ended, and of one
that others wait for. The adapter's dispatch may end in any way its result type allows, or
raise. `Recover` is one turn of the loop in `_recover_tasks`; its thread does nothing else. `again`
and `overtaken` are history variables: the tasks reported after their end, and those that ended
while a call waited for them. `Submit` takes fresh task ids and parents there are, as the
orchestrator's tests do.

**RateLimiter**. `buckets` as in the code, but with stamps for times: the code filters and counts a
bucket and never reads it in order, so it is a set, and a number tells requests of one instant
apart. `Admit` and `Refuse` are the two outcomes of a
request. `admitted` and `refusedAt` are history variables. The clock does not go back.

**SyncBridge**. `at[c]` is where call c of `send_task()` stands, `queue`, `running` and `future`
are the thread pool's. The four disjuncts of `SendTask` are the four ways through
`send_task()` and `_run_async()`. A call blocks its thread (`ThreadIsFree`), a loop's thread
included. `CallerGivesUp` is the timeout of `future.result()`; it cancels nothing.

**MeshTask** adds the coroutine that runs in a worker or in the caller's thread
(`FailUnconnected`, `Post`, `ReplyArrives`, `CallFails`: `MeshPeerClient.send_task`), the HTTP
request (`wire`), and the peer: an instance of `HermesExecutor` whose requests are the calls
and those of other clients. `OutgoingMessage` is all that `send_task()` makes of an intent, and
`RequestToIntent` what the peer makes of a message. `PeerRestarts` is the peer's process
ending and starting again. **RemoteCall** is the abstract specification: asked, answered, told
once.

**SigningKeys**. `pc[p]` follows `ensure_keys()` in process p, one step per operation another
process can see: looking, opening, locking, truncating, filling, unlinking. Lock files are
told apart by inode (`Inodes`), because `flock` locks a file and not a name; the name leads to
`lockFile`. `env` is the `.env` file by what the code can tell of it. The first look, the
answer and the lock-free requests are the card's route.

**AuditRotation**. `files` are the log and its backups on disk, `step` and `place` where
`log_event()` stands in them. Entries have one size and a number. `undone` and `stuck` count
the faults that excuse a property.

The MC modules give the constants values; their comments say which cases they bring in.

## 4. Runs

| Run | Shows |
|---|---|
| `FleetRouting` | routing is right in all 267 registries and availabilities of three profiles, five declarations and 36 intents |
| `ExecutorDeployed` | the node as `register()` wires it, two requests, one cancellable, one peer with two skills, audit writes that fail; type correctness, a trail that is true although entries are missing, liveness, and the refinement of `ProfileSlots` with fairness |
| `ExecutorContract` | three requests, one cancellable, a dispatch that may raise or ask for input, awaits that may be ended: exclusive profiles, exact tracker, true audit trail, no profile freed but with its task's answer, refinement |
| `MeshConnect` | a node that starts (`register()` called again or raising, the loop running or not), three peers, up to three failures each: nothing is started twice, no peer is forgotten or connected twice, all connect, and `close()`, at any time, is final for the peers connected or retried by then |
| `OrchestratorTasks` | two routed tasks and a recovered one, two threads that report any of them at any time (again, late, while the other waits), failing resumptions: no profile is lost, the tracker is exact but where an ended task is reported again, flag and status differ in two ways only, bounded consultations |
| `RateLimiter` | two peers, limit two, six ticks in windows of three: the limit holds in every window and refuses nobody else |
| `MeshTask` | three calls to peers from three threads and a local one, one worker, another client, a peer that may restart, a network that loses and delays: every caller is told, and told the truth, and the peer's tracker stays exact |
| `SigningKeys` | three gateways, five requests for the card, a kill and a failing write anywhere: one key, no other line lost, every request ends |
| `AuditRotation` | fourteen events, eight entries of room, three failures or kills anywhere: order, losses from the oldest on, size |
| `ExecutorRemote`, `MeshOutage`, `OrchestratorAnswer` | end in a violation: the code does not do what the quoted line of the repository says (`findings` in `PROJECT.json`) |

Why the bounds are enough. A profile is contended by two requests; the third shows a profile
passing from one to the next while another waits. One peer with two skills has the states
before, between and after registrations; the executor never compares peers. Three peers are a
first, a middle and a last for `connect_all()`. In the orchestrator a parent, a child and a
recovered task are the relations records can have, and `MAX_SPECIALIST_DEPTH = 1` lets the
child be too deep; the code's 3 differs only in how many ancestors that takes. Two profiles show
that what a repeated report does to one leaves the other alone; a statement without the exception
for `again`, or for `overtaken`, fails in this run. Nobody consults in it, so a question without
its tag goes to a human, and a recovered task waits for no specialist: it waits when reported.
Two requests per window of three ticks put requests before, on and after both its ends. A pool of one
worker is full with one call, so the second is queued, given up while queued, and run after
that. Three gateways are one that finishes, one that waits on its removed lock and one that
makes a new lock; five requests let two of them come back. Fourteen events
fill the log and its three backups (eight entries) and rotate three times more, so that each
fault can strike in a rotation of its own and the run go on after it.

What is bounded by a guard: the model's clock (`LastTick`), a peer's failures (`Outage`), its
restarts (`MaxRestarts`), requests for the card, kills and failed writes (`MaxServes`,
`MaxCrashes`, `MaxFailures`), events and faults of the log (`MaxEvents`, `MaxFaults`).

Symmetry is used for the requests of `ExecutorContract` that cannot be cancelled, and for the
two reporting threads of `OrchestratorTasks`: the runs have no liveness, and they differ in
nothing but their names.

Fairness. `WF(Proceed(r))` and `WF(Cancel(r))`: the agent stops after `max_iterations=60`
(`_run_via_agent`), a peer's call after the HTTP client's 30 seconds (`connect_peer`), and
asyncio runs every coroutine that is ready. In `PluginStartup` a card is fetched within the
same timeout and a delay is capped; nothing makes `register()` or `close()` be called, or a loop start.
In `MeshTask` three things are fair: the caller's wait for the pool, which has a clock; the
call in a thread of its own, which has the HTTP client's; and the peer's `Proceed`. A job of
the pool need not end, a request need not arrive and no answer need come.
In `SigningKeys` a process runs, and one that waits for a lock that stays free gets it.
Nothing is assumed to make requests arrive, peers connect to the
executor, or cancellations come. `ImplementsFairSlots` is
checked with the dispatch the node really uses, which never asks for input and whose awaits
are not ended: with either, a profile is kept for good (`BusyIsHeld` says exactly by whom).

## 5. Proofs

Every safety property the passing runs check is proved here for every value of the constants,
from the named assumptions of the modules, which TLC evaluates; a theorem that needs more
states it as a hypothesis, listed below. One module of proofs per component:

| Module | Proved |
|---|---|
| `FleetControllerProofs` | what `First` and `BestMatch` return; for every registry and availability: a dispatched intent names a free profile (`RouteIsRight`), honours its targets and prefers declared types (`DispatchesRight`), leaves the node only for a reason (`LocalGoesFirst`); `discover()` agrees (`RouteAndDiscoverAgree`); a name keeps its one place (`PlacesAreKept`) |
| `HermesExecutorProofs` | `TypeCorrect`, `RequestsAreRoutedRight`, `Exclusive`, `TrackerIsExact`, `FreedOnlyWithTheAnswer`, the refinement `SlotsRefined`, `TrailIsHonest`, `CallersAreToldOnce`, `RoutableAreConnected`, `RegistryKeepsPlaces`, `NamedPeersAreCalled` |
| `PluginStartupProofs` | a node that starts implements the mesh client (`StartupImplementsMesh`), hence `PeersConnectOnce`, `OnlyOverflowForgets`, `NoPeerForgotten`, `RetriesEndRightly`, `CloseIsForGood`; `StartupTypeCorrect`, `NothingStartsTwice` |
| `OrchestratorProofs` | `TypeCorrect`, `TasksAreRoutedRight`, `ProfilesComeBack`, `TrackerStaysExact`, `FlagDepartsTwice`, `ChainsEnd` |
| `RateLimiterProofs` | `WindowsAreLimited`, `WaitingIsEnough`, `RefusedForOwnRequests` |
| `MeshTaskProofs` | `TypeCorrect`, `PeerTrackerStaysExact`, `PeerProfilesAreExclusive`, the refinement of `RemoteCall` but for its fairness (`RemoteCallsAreSafe`), and what follows from it (`CompletionsAreTrue`) |
| `SigningKeysProofs` | `TypeCorrect`, `OneKeyForAll`, `OneGenerates`, `OtherLinesAreKept` |
| `AuditRotationProofs` | `TypeCorrect`, `FilesAreBounded`, `EntriesAreInOrder`, `OldestAreLostFirst` |

### The arguments

*Routing.* The properties of a decision are about one state, so they follow from the types:
`MatchIsRight` and `NamedIsRight` say which capability the two branches of `route()` claim, and
`ClaimAnswers` what claiming it answers. The first place of a set, which the best match is, exists
because places are natural numbers (`LeastExists`, from well-foundedness).

*Executor.* `NoOvercommit` is not inductive: a claim is exclusive because the profile was
not busy, which says something only if every held profile is busy; and a release would free
another task's profile unless no other task holds the same name. The inductive invariant is

    SlotInv == TypeOK /\ PcMatchesDispatch /\ NoOvercommit /\ BusyIsHeld

where `PcMatchesDispatch` says that a request past routing has a dispatch, and a request that
was not dispatched holds nothing. Each step is then one of three kinds: it *keeps* every claim
(peers, cancellations, dispatches that end, ended awaits), *takes* a free profile for one
request (`Execute`), or *frees* the profile of one request as it answers (`AnswerRaised`,
`AnswerResult`). That the invariant is kept, the action property and the refinement all
follow from the kind. The trail needs `TrailInv`: until a request ends it has no outcome in its
trail, and, unless writing may fail, the entry that opens it. What the caller is told is counted:
the messages of a request are one for `execute()` when it has answered and one for `cancel()`
when it has acknowledged (`ToldOnce`), which is inductive because a coroutine that enqueues a message ends
in the same step, and a request that asked for input or was lost never comes to it.

*Mesh client and start.* `SweepInOrder` says that up to the end of `connect_all()` only peers
before its place in the registry have a client or failed, that nobody is retried, and that a
connected peer has no retry task; a peer has one place in the registry, so the next one has
neither. `NothingForgotten` says the same the other way round: a peer that is neither connected
nor retried lost its task to the overflow. A task's count of attempts never passes the length of
the outage (`OutagesCount`), so that takes an outage of `OverflowAttempt` attempts. The start only
decides when `connect_all()` runs, so each of its steps is a step of the client or none. `close()`
may come at any time: `SettledIsOver` says that a peer `connect_all()` was through with has no
retry task afterwards and is neither to be tried nor among the failed, so that nothing
`connect_all()` still does reaches it.

*Orchestrator.* A task keeps the profile it was registered with, and `again` only grows, so the
profiles a repeated report may have disturbed only become more; for the others a step gives one
free profile to a new task, takes it back with that task's end, or moves none (`TrackerKinds`).
That a busy profile has an unfinished task needs no exception: a repeated report frees too much,
never too little. `WaitsForOpen` says that a call waits for an unfinished task or for one that
ended meanwhile; what comes back from a wait changes the status and not the flag, and writes
`completed` never, so the two differ in no third way. `DepthInv`
says that the depth the orchestrator counts with a record is one more than its parent's, whose
record there is; so it is the number of ancestors, `Level`, whose recursion has one solution
because the count falls towards the root (`DepthIsLevel`).

*Rate limit.* Requests are counted in a bucket that is pruned as it goes, so `LimitInv` says
that the bucket holds all that the last window let in (`BucketIsRight`), and that a refused
peer was let in nothing since. Counting needs each request to have a stamp of its own (`Counted`).

*Two nodes.* `PlacesAreRight` says of the pool where a job is: it is queued once at most and in no
second place, and the places hold the jobs handed over and no others. The peer is an instance of
the executor, so `HermesExecutorProofs` is instantiated with it (`PeerP`) and its lemmas are
cited; what is new is a restart, which forgets requests and busy profiles together, and a request
that reaches the peer late. For the refinement, `CallInv` says that a future is completed only
after the peer's answer. What RemoteCall allows then bounds every later state:
`CompletionsAreTrue` is proved from it alone.

*Signing keys.* `KeyInv`: a lock has one holder; until there is a key every open lock file is the
one the name leads to, so one process at most is past its look without one; once there is a key
nobody writes. Two gateways can hold locks on different inodes, but only when there is a key for
both to find. `KeysCounted` charges each generated key to the file, to the process that is about
to write it, or to the crash or failed write that lost it; a process generates only where neither
of the first two is there.

*Audit log.* `OrderInv` extends the order over all pairs of lines, from file to file. For losses,
`FewHoles` counts the empty places below a backup: each is owed to a rotation left undone, or
is the one the present rotation makes. Lost entries then mean full files in all other places
(`FullFiles`), and these hold different entries (`FullFilesHold`).

### The hypotheses

Each but that of `NamedPeersAreCalled` says of the environment what the passing runs give it too.

* `RegistryKeepsPlaces`, `PlacesAreKept`: the registry has distinct names at the start; it is a dict.
* `RoutableAreConnected`: at the start only local profiles are registered, and a peer's card
  registers its skills under that peer, as `register()` and `_register_capabilities` do.
* `NamedPeersAreCalled`: every caller names its target node. `ExecutorRemote` shows the
  property violated by a caller that names none, so the finding is about no other.
* `NoPeerForgotten`, `RetriesEndRightly`: no outage reaches the attempt whose delay overflows;
  `MeshOutage` shows what happens otherwise. `OnlyOverflowForgets` has no hypothesis.
* `ProfilesComeBack`, `TrackerStaysExact`: every task is registered with the profile it was
  routed to, because a task registered without takes over its parent's (section 7).
* `OneGenerates` excepts a lock file unlinked under others and a key glued to a line without an
  end, as `SignedWithKeyOnDisk` does (section 7).

### Only model-checked

Liveness: `EveryRequestIsAnswered`, `EveryCancelIsAcknowledged`, `EveryPeerConnects`,
`EveryRequestEnds`, and the fairness in `ImplementsFairSlots` and `ImplementsRemoteCall`, whose
safety parts are proved. Fairness and ENABLED are out of the prover's reach. The three
violation runs are of TLC alone.

## 6. Abstractions and what is not modelled

* One step per stretch between awaits. The two threads interleave between steps, not inside
  one: a dict that changes under an iteration of `route()` (an exception in Python) does not
  show.
* Messages, questions, answers and artifacts are left out but for whether they were enqueued and
  what outcome they report; a context of the orchestrator is found by its task.
* `auth_required` is left out: no code path produces it, and the orchestrator treats it as a status
  like any other.
* The orchestrator's tasks are submitted as its tests submit them: ids are not used twice, and a
  parent is registered. A report carries a flag that fits its status, as `TaskResult` derives it.
  The executor never registers a task, so its calls to the orchestrator do nothing; this is why
  `AskForInput` changes no record.
* The SDK and the agent are external: they call and answer in any way their interface allows.
* A pool job that is given up is not told from one that is not: Python cannot stop a thread.
* The environment of a gateway: the card's route restores it before it ends, so `SigningKeys`
  starts every request from the file; a key that the gateway's own environment holds is never
  generated. The first look and an append of one line are single steps.
* Inodes of removed lock files are taken again; which one the system takes is not observable,
  so the model takes one of them.
* Entries of the audit log have one size, and the size of the log can be read.
* A failing write of `ensure_keys()` leaves the file as it was or emptied, not half a key.
* Not modelled: see `components` in `PROJECT.json`, with the reason for each.

## 7. Limits seen while modelling, without a run of their own

* `recruit_specialist` dispatches to the first profile `discover()` returns, past the
  availability tracker: the profile may be busy, or be the one that asks.
* A child registered without a profile takes over its parent's (`register_task`), and its end releases it.
* A resumption that fails gives a record the status `failed` without the terminal flag, and
  releases nothing until the task is reported (`orchestrator.py:239`).
* `on_status_change()` does not look whether a task has ended. A second terminal report releases by
  name again (`orchestrator.py:123`), although another task may have claimed the profile since;
  a late question reopens the record while its profile is free, or another's. `TrackerIsExact`
  excepts the profiles such reports name (`again`), and says that nothing else breaks the tracker.
* `_recover_tasks` means to flag tasks for human review and has a specialist consulted instead.
* `close()` does not stop a `connect_all()` that is running: the peers it has not come to are still
  connected, and those it failed to connect are retried, after `close()` has returned; or the dict
  grows under `close()`, which raises. `MeshConnect` has all of this; `ClosedForGood` is about the
  other peers. No code of the repository calls `close()`.
* `_build_app` puts the rate limit outside the version check; the documentation has them the
  other way round.
* A request is refused as `no_capacity` when its first match is busy, although another profile may be free.
* `cancel()` enqueues a `TaskStatusUpdateEvent` and a `Message` for one task, in either order with
  the `Message` of `execute()`; `docs/references/troubleshooting.md:158` says "Mixing them violates
  the contract."
* A task that is ended in one thread while a call waits for its specialist in another gets an open
  status back (`orchestrator.py:236` writes it after the wait), with `terminal` still set;
  `persistence.py:45` says the flag is "True if task is in a terminal state". `FlagFitsStatus` says
  that it takes this (`overtaken`) or a failed resumption to make the two disagree.
* `register()` says that without a running loop peer connections are "deferred until the first
  A2A request arrives"; nothing connects them then, or later. `EveryPeerConnects` asks for a
  scheduled task.
* A peer's answer that reports a failure is a `completed` result for the caller
  (`mesh_peer_client.py:300`); `RemoteCall` promises no more than that the peer answered.
* Of an intent only provenance, the context and the question reach the peer: neither the intent type nor the
  profile `route()` chose. The peer's dispatch gets a goal and a profile, so its specialist does not see
  the `source_node` of `README.md:25`.
* A worker of the pool runs the client in a loop other than the one it was connected in.
* A call from a loop's thread blocks that loop for up to 120 seconds.
* `ensure_keys()` appends to a `.env` without a newline at its end: the key joins the last line,
  which is lost as it was, and the next request generates another key. A write that fails
  unlinks the lock file under others, and two of them may generate. `SigningKeys` has both
  (`glued`, `orphaned`) and excepts them.
* After its early return `ensure_keys()` closes its descriptor twice; another thread's file may
  have the number by then.
* A rotation whose last rename fails has moved every backup up already, so every later event
  costs a backup until it works (`undone` in `AuditRotation`).
* The audit log's lock is a thread's: two gateways that share a log rotate it under each other.
* The recovery reads the first page of stored tasks only.
