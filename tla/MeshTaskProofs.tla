--------------------------- MODULE MeshTaskProofs ---------------------------
(***************************************************************************)
(* The path of a task from one node to another: type correctness, the      *)
(* exactness of the peer's availability tracker and the exclusive use of   *)
(* its profiles across its restarts, and that a caller is told once, and   *)
(* "completed" only when the peer has answered, for any number of calls,   *)
(* threads, workers and restarts.                                          *)
(*                                                                         *)
(* What the peer does is proved in HermesExecutorProofs: its lemmas are    *)
(* used here for the peer, as the instance PeerP.                          *)
(***************************************************************************)
EXTENDS MeshTask, SequenceTheorems, FiniteSetTheorems, TLAPS

PeerP == INSTANCE HermesExecutorProofs WITH
           LocalNode           <- PeerNode,
           Requests            <- Calls \cup Others,
           Cancellable         <- {},
           Requested           <- {RequestToIntent(m) :
                                     m \in OtherMessages \cup {OutgoingMessage}},
           InitialCapabilities <- PeerCapabilities,
           Skills              <- [n \in Nodes \ {PeerNode} |-> <<>>],
           DispatchResults     <- AgentResults,
           MeshWired           <- FALSE,
           AwaitMayFail        <- FALSE,
           AuditMayFail        <- FALSE

-----------------------------------------------------------------------------
(* The pool, as far as the theorems below rest on it: no job is queued     *)
(* twice, a job that is queued or run is not done, one that is queued is   *)
(* not run, and those in a place are those that were handed over.  It      *)
(* needs to know that a call which has not returned has not been told      *)
(* anything (ToldOnReturn), so that one that enters the pool was in no     *)
(* place before.                                                           *)

\* The call was handed to the pool.
Pooled(c) == at[c] = "waiting" \/ told[c] = "timed_out" \/ future[c] # None

Queued(c) == \E i \in DOMAIN queue : queue[i] = c

ToldOnReturn ==
    \A c \in Calls :
      /\ at[c] # "returned" => told[c] = None
      /\ at[c] \in {"new", "local", "inline"} => future[c] = None

PlacesAreRight ==
    /\ IsFiniteSet(running) /\ Cardinality(running) <= PoolSize
    /\ \A i, j \in DOMAIN queue : queue[i] = queue[j] => i = j
    /\ \A c \in Calls :
         /\ Queued(c) => c \notin running
         /\ Queued(c) \/ c \in running => future[c] = None
         /\ Pooled(c) <=> Queued(c) \/ c \in running \/ future[c] # None

PoolInv == BridgeTypeOK /\ ToldOnReturn /\ PlacesAreRight

\* The constants, as the proofs use them.
LEMMA BridgeFacts ==
    /\ PoolSize \in Nat
    /\ LocalResults \subseteq {"completed", "failed", "input_required", "raised"}
    /\ None \notin {"completed", "failed", "timed_out", "input_required", "raised"}
BY BridgeAssumption

\* Handing a job over puts it at the end of the queue.
LEMMA AppendedIsQueued ==
    ASSUME queue \in Seq(Calls), NEW c \in Calls, queue' = Append(queue, c)
    PROVE  /\ queue' \in Seq(Calls)
           /\ \A d \in Calls : Queued(d)' <=> Queued(d) \/ d = c
           /\ ~ Queued(c) /\ (\A i, j \in DOMAIN queue : queue[i] = queue[j] => i = j)
                => \A i, j \in DOMAIN queue' : queue'[i] = queue'[j] => i = j
<1>1. /\ queue' \in Seq(Calls)
      /\ DOMAIN queue = 1 .. Len(queue) /\ Len(queue) \in Nat
      /\ DOMAIN queue' = 1 .. Len(queue) + 1
      /\ \A i \in 1 .. Len(queue) : queue'[i] = queue[i]
      /\ queue'[Len(queue) + 1] = c
    BY AppendProperties, LenProperties
<1>2. \A i \in DOMAIN queue' : i \in DOMAIN queue \/ i = Len(queue) + 1
    BY <1>1
<1>3. \A i \in DOMAIN queue : i \in DOMAIN queue'
    BY <1>1
<1>4. Len(queue) + 1 \in DOMAIN queue'
    BY <1>1
<1>5. \A d \in Calls : Queued(d)' <=> Queued(d) \/ d = c
    BY <1>1, <1>2, <1>3, <1>4 DEF Queued
<1> QED
    BY <1>1, <1>2, <1>5 DEF Queued

\* A worker takes the job at the head of the queue, and no other.
LEMMA HeadIsTaken ==
    ASSUME queue \in Seq(Calls), queue # <<>>, queue' = Tail(queue),
           \A i, j \in DOMAIN queue : queue[i] = queue[j] => i = j
    PROVE  /\ queue' \in Seq(Calls)
           /\ Head(queue) \in Calls /\ Queued(Head(queue))
           /\ \A d \in Calls : Queued(d)' <=> Queued(d) /\ d # Head(queue)
           /\ \A i, j \in DOMAIN queue' : queue'[i] = queue'[j] => i = j
<1>1. /\ queue' \in Seq(Calls) /\ Head(queue) \in Calls
      /\ Len(queue) \in Nat \ {0} /\ DOMAIN queue = 1 .. Len(queue)
      /\ Head(queue) = queue[1]
      /\ DOMAIN queue' = 1 .. Len(queue) - 1
      /\ \A i \in 1 .. Len(queue) - 1 : queue'[i] = queue[i + 1]
    BY HeadTailProperties, LenProperties, EmptySeq, SMT
<1>2. /\ 1 \in DOMAIN queue
      /\ \A i \in DOMAIN queue' : i + 1 \in DOMAIN queue /\ i + 1 # 1
      /\ \A i \in DOMAIN queue : i # 1 => i - 1 \in DOMAIN queue' /\ queue'[i - 1] = queue[i]
    BY <1>1
<1>3. \A d \in Calls : Queued(d)' => Queued(d) /\ d # Head(queue)
    BY <1>1, <1>2 DEF Queued
<1>4. \A d \in Calls : Queued(d) /\ d # Head(queue) => Queued(d)'
    BY <1>1, <1>2 DEF Queued
<1>5. \A i, j \in DOMAIN queue' : queue'[i] = queue'[j] => i = j
    <2> SUFFICES ASSUME NEW i \in DOMAIN queue', NEW j \in DOMAIN queue', queue'[i] = queue'[j]
                 PROVE  i = j
        OBVIOUS
    <2>1. queue[i + 1] = queue[j + 1] /\ i + 1 \in DOMAIN queue /\ j + 1 \in DOMAIN queue
        BY <1>1, <1>2
    <2>2. i + 1 = j + 1 /\ i \in Nat /\ j \in Nat
        BY <1>1, <2>1
    <2> QED
        BY <2>2
<1> QED
    BY <1>1, <1>2, <1>3, <1>4, <1>5 DEF Queued

\* A call that is told something as it leaves a place outside the pool, or
\* the pool's wait, stays in the place its job is in.
LEMMA ReturningKeepsPlaces ==
    ASSUME PoolInv, NEW c \in Calls, at[c] # "returned",
           NEW res \in {"completed", "failed", "timed_out", "input_required", "raised"},
           Returns(c, res), UNCHANGED <<wired, queue, running, future>>,
           at[c] = "waiting" => future[c] # None \/ res = "timed_out",
           at[c] # "waiting" => res # "timed_out"
    PROVE  PoolInv'
<1>1. /\ at'[c] = "returned" /\ \A d \in Calls \ {c} : at'[d] = at[d]
      /\ told'[c] = res /\ \A d \in Calls \ {c} : told'[d] = told[d]
    BY DEF Returns, Goes, PoolInv, BridgeTypeOK
<1>2. BridgeTypeOK'
    BY DEF Returns, Goes, PoolInv, BridgeTypeOK
<1>3. ToldOnReturn'
    BY <1>1 DEF PoolInv, ToldOnReturn
<1>4. at[c] \in {"new", "local", "inline", "waiting"} /\ told[c] = None
    BY DEF PoolInv, BridgeTypeOK, ToldOnReturn
<1>5. Pooled(c)' <=> Pooled(c)
    BY <1>1, <1>4, BridgeFacts DEF Pooled
<1>6. \A d \in Calls : Pooled(d)' <=> Pooled(d)
    BY <1>1, <1>5 DEF Pooled
<1>7. \A d \in Calls : Queued(d)' <=> Queued(d)
    BY DEF Queued
<1>8. PlacesAreRight'
    BY <1>6, <1>7 DEF PoolInv, PlacesAreRight
<1> QED
    BY <1>2, <1>3, <1>8 DEF PoolInv

\* send_task() puts its job in the queue, runs it in its own thread, or returns.
LEMMA SendKeepsPool ==
    ASSUME PoolInv, NEW c \in Calls, SendTask(c)
    PROVE  PoolInv'
<1>1. CASE SendUnwired(c)
    BY <1>1, ReturningKeepsPlaces DEF SendUnwired, Called
<1>2. ASSUME NEW place \in {"local", "inline"}, Goes(c, place), at[c] = "new",
             UNCHANGED <<wired, told, queue, running, future>>
      PROVE  PoolInv'
    <2>1. at'[c] = place /\ \A d \in Calls \ {c} : at'[d] = at[d]
        BY <1>2 DEF Goes, PoolInv, BridgeTypeOK
    <2>2. BridgeTypeOK'
        BY <1>2 DEF Goes, PoolInv, BridgeTypeOK
    <2>3. ToldOnReturn'
        BY <1>2, <2>1 DEF PoolInv, ToldOnReturn
    <2>4. \A d \in Calls : /\ Pooled(d)' <=> Pooled(d)
                           /\ Queued(d)' <=> Queued(d)
        BY <1>2, <2>1 DEF Pooled, Queued
    <2>5. PlacesAreRight'
        BY <1>2, <2>4 DEF PoolInv, PlacesAreRight
    <2> QED
        BY <2>2, <2>3, <2>5 DEF PoolInv
<1>3. CASE SendThroughPool(c)
    <2>1. /\ at[c] = "new" /\ Goes(c, "waiting") /\ queue' = Append(queue, c)
          /\ UNCHANGED <<wired, told, running, future>>
        BY <1>3 DEF SendThroughPool, Called
    <2>2. at'[c] = "waiting" /\ \A d \in Calls \ {c} : at'[d] = at[d]
        BY <2>1 DEF Goes, PoolInv, BridgeTypeOK
    <2>3. told[c] = None /\ future[c] = None
        BY <2>1 DEF PoolInv, ToldOnReturn
    <2>4. ~ Pooled(c)
        BY <2>1, <2>3, BridgeFacts DEF Pooled
    <2>5. ~ Queued(c) /\ c \notin running
        BY <2>4 DEF PoolInv, PlacesAreRight
    <2>6. /\ queue' \in Seq(Calls)
          /\ \A d \in Calls : Queued(d)' <=> Queued(d) \/ d = c
          /\ \A i, j \in DOMAIN queue' : queue'[i] = queue'[j] => i = j
        <3>1. queue \in Seq(Calls) /\ \A i, j \in DOMAIN queue : queue[i] = queue[j] => i = j
            BY DEF PoolInv, BridgeTypeOK, PlacesAreRight
        <3> QED
            BY <2>1, <2>5, <3>1, AppendedIsQueued
    <2>7. \A d \in Calls : Pooled(d)' <=> Pooled(d) \/ d = c
        BY <2>1, <2>2 DEF Pooled
    <2>8. BridgeTypeOK'
        BY <2>1, <2>6 DEF Goes, PoolInv, BridgeTypeOK
    <2>9. ToldOnReturn'
        BY <2>1, <2>2 DEF PoolInv, ToldOnReturn
    <2>10. PlacesAreRight'
        BY <2>1, <2>3, <2>5, <2>6, <2>7 DEF PoolInv, PlacesAreRight
    <2> QED
        BY <2>8, <2>9, <2>10 DEF PoolInv
<1> QED
    BY <1>1, <1>2, <1>3 DEF SendTask, SendLocally, SendInline, Called

\* A local call has no job, and returning does not give it one.
LEMMA LocalReturnKeepsPool ==
    ASSUME PoolInv, NEW c \in Calls, LocalReturns(c)
    PROVE  PoolInv'
<1>1. PICK res \in LocalResults : Returns(c, res)
    BY DEF LocalReturns
<1>2. res \in {"completed", "failed", "timed_out", "input_required", "raised"}
      /\ res # "timed_out"
    BY BridgeFacts
<1> QED
    BY <1>1, <1>2, ReturningKeepsPlaces DEF LocalReturns

\* A worker that starts a job takes it out of the queue.
LEMMA StartKeepsPool ==
    ASSUME PoolInv, NEW c \in Calls, StartJob(c)
    PROVE  PoolInv'
<1>1. /\ queue \in Seq(Calls) /\ queue # <<>> /\ Head(queue) = c
      /\ \A i, j \in DOMAIN queue : queue[i] = queue[j] => i = j
      /\ Cardinality(running) < PoolSize
      /\ queue' = Tail(queue) /\ running' = running \cup {c}
      /\ UNCHANGED <<wired, at, told, future>>
    BY DEF StartJob, PoolInv, BridgeTypeOK, PlacesAreRight
<1>2. /\ queue' \in Seq(Calls) /\ Queued(c)
      /\ \A d \in Calls : Queued(d)' <=> Queued(d) /\ d # c
      /\ \A i, j \in DOMAIN queue' : queue'[i] = queue'[j] => i = j
    BY <1>1, HeadIsTaken
<1>3. c \notin running /\ future[c] = None
    BY <1>2 DEF PoolInv, PlacesAreRight
<1>4. IsFiniteSet(running') /\ Cardinality(running') <= PoolSize
    <2>1. IsFiniteSet(running)
        BY DEF PoolInv, PlacesAreRight
    <2>2. IsFiniteSet(running') /\ Cardinality(running') = Cardinality(running) + 1
        BY <1>1, <1>3, <2>1, FS_AddElement
    <2> QED
        BY <1>1, <2>1, <2>2, FS_CardinalityType, BridgeFacts
<1>5. \A d \in Calls : Pooled(d)' <=> Pooled(d)
    BY <1>1 DEF Pooled
<1>6. PlacesAreRight'
    BY <1>1, <1>2, <1>3, <1>4, <1>5 DEF PoolInv, PlacesAreRight
<1>7. BridgeTypeOK' /\ ToldOnReturn'
    BY <1>1, <1>2 DEF PoolInv, BridgeTypeOK, ToldOnReturn
<1> QED
    BY <1>6, <1>7 DEF PoolInv

\* A caller that reads its answer or gives up leaves the job where it is.
LEMMA WaitKeepsPool ==
    ASSUME PoolInv, NEW c \in Calls, WaitEnds(c)
    PROVE  PoolInv'
<1>1. CASE CallerReads(c)
    <2>1. /\ at[c] = "waiting" /\ future[c] # None /\ Returns(c, future[c])
          /\ UNCHANGED <<wired, queue, running, future>>
        BY <1>1 DEF CallerReads
    <2>2. future[c] \in {"completed", "failed"}
        BY <2>1 DEF PoolInv, BridgeTypeOK
    <2> QED
        BY <2>1, <2>2, ReturningKeepsPlaces
<1>2. CASE CallerGivesUp(c)
    BY <1>2, ReturningKeepsPlaces DEF CallerGivesUp
<1> QED
    BY <1>1, <1>2 DEF WaitEnds

\* A coroutine that ends leaves its worker and fills the future, or returns to
\* the caller whose thread it ran in.
LEMMA EndKeepsPool ==
    ASSUME PoolInv, NEW c \in Calls, NEW res \in {"completed", "failed"},
           CoroutineEnds(c, res)
    PROVE  PoolInv'
<1>1. CASE at[c] = "inline" /\ Returns(c, res) /\ UNCHANGED <<wired, queue, running, future>>
    BY <1>1, ReturningKeepsPlaces
<1>2. CASE /\ c \in running /\ running' = running \ {c}
           /\ future' = [future EXCEPT ![c] = res]
           /\ UNCHANGED <<wired, at, told, queue>>
    <2>1. future'[c] = res /\ \A d \in Calls \ {c} : future'[d] = future[d]
        BY <1>2 DEF PoolInv, BridgeTypeOK
    <2>2. res # None
        BY BridgeFacts
    <2>3. future[c] = None /\ ~ Queued(c) /\ Pooled(c)
        BY <1>2 DEF PoolInv, PlacesAreRight
    <2>4. at[c] \notin {"new", "local", "inline"}
        BY <2>3, BridgeFacts DEF PoolInv, ToldOnReturn, Pooled
    <2>5. IsFiniteSet(running') /\ Cardinality(running') <= PoolSize
        <3>1. IsFiniteSet(running) /\ Cardinality(running) <= PoolSize
            BY DEF PoolInv, PlacesAreRight
        <3>2. IsFiniteSet(running') /\ Cardinality(running') <= Cardinality(running)
            BY <1>2, <3>1, FS_Subset
        <3> QED
            BY <3>1, <3>2, FS_CardinalityType, BridgeFacts
    <2>6. \A d \in Calls : Pooled(d)' <=> Pooled(d)
        BY <1>2, <2>1, <2>2, <2>3 DEF Pooled
    <2>7. \A d \in Calls : Queued(d)' <=> Queued(d)
        BY <1>2 DEF Queued
    <2>8. PlacesAreRight'
        BY <1>2, <2>1, <2>2, <2>3, <2>5, <2>6, <2>7 DEF PoolInv, PlacesAreRight
    <2>9. ToldOnReturn'
        BY <1>2, <2>1, <2>4 DEF PoolInv, ToldOnReturn
    <2>10. BridgeTypeOK'
        BY <1>2 DEF PoolInv, BridgeTypeOK
    <2> QED
        BY <2>8, <2>9, <2>10 DEF PoolInv
<1> QED
    BY <1>1, <1>2 DEF CoroutineEnds

\* Steps of the wire and of the peer leave the pool alone.
LEMMA BridgeStays ==
    ASSUME PoolInv, UNCHANGED bridgeVars
    PROVE  PoolInv'
BY DEF bridgeVars, PoolInv, BridgeTypeOK, ToldOnReturn, PlacesAreRight, Queued, Pooled

\* The pool starts empty.
LEMMA BridgeInitIsRight == BridgeInit => PoolInv
<1> SUFFICES ASSUME BridgeInit PROVE PoolInv
    OBVIOUS
<1>1. BridgeTypeOK /\ ToldOnReturn
    BY BridgeAssumption DEF BridgeInit, BridgeTypeOK, ToldOnReturn
<1>2. PlacesAreRight
    <2>1. running = {} /\ queue = <<>> /\ \A c \in Calls : at[c] = "new" /\ future[c] = None
                                                          /\ told[c] = None
        BY DEF BridgeInit
    <2>2. \A c \in Calls : ~ Queued(c) /\ ~ Pooled(c)
        BY <2>1, BridgeFacts DEF Queued, Pooled
    <2>3. IsFiniteSet(running) /\ Cardinality(running) <= PoolSize
        BY <2>1, FS_EmptySet, BridgeFacts
    <2> QED
        BY <2>1, <2>2, <2>3 DEF PlacesAreRight
<1> QED
    BY <1>1, <1>2 DEF PoolInv

\* The peer's steps, and the mesh client's first, leave the bridge alone;
\* the others are steps of it.
LEMMA NextKeepsPool ==
    ASSUME PoolInv, [Next]_vars
    PROVE  PoolInv'
<1>1. ASSUME NEW c \in Calls, Bridge(SendTask(c)) \/ Bridge(LocalReturns(c))
                              \/ Bridge(StartJob(c)) \/ Bridge(WaitEnds(c))
      PROVE  PoolInv'
    BY <1>1, SendKeepsPool, LocalReturnKeepsPool, StartKeepsPool, WaitKeepsPool DEF Bridge
<1>2. ASSUME NEW c \in Calls, FailUnconnected(c) \/ ReplyArrives(c) \/ CallFails(c)
      PROVE  PoolInv'
    BY <1>2, EndKeepsPool DEF FailUnconnected, ReplyArrives, CallFails
<1>3. CASE UNCHANGED bridgeVars
    BY <1>3, BridgeStays
<1> QED
    BY <1>1, <1>2, <1>3 DEF Next, Post, PeerTakes, PeerServes, PeerProceeds, PeerRestarts,
                            Finished, vars

\* The types of the bridge hold throughout, only callers that returned have been
\* told, and a call is in the pool in the one place its progress says.
LEMMA PoolInvariant == Spec => []PoolInv
<1>1. Init => PoolInv
    BY BridgeInitIsRight DEF Init
<1> QED
    BY <1>1, NextKeepsPool, PTL DEF Spec

-----------------------------------------------------------------------------
(* The peer.  Its executor keeps SlotInv of HermesExecutorProofs in every  *)
(* step of its own.  A restart keeps it because it forgets as much as it   *)
(* frees: no request that was under way, or was lost in an earlier restart *)
(* (LostIsForgotten), still has its dispatch.                              *)

LostIsForgotten ==
    \A r \in Calls \cup Others : pc[r] = "lost" => dispatch[r] = None

PeerInv == PeerP!SlotInv /\ LostIsForgotten

\* The peer's definitions, seen through the two instances.
LEMMA SamePeer ==
    /\ Peer!Init <=> PeerP!Init
    /\ Peer!TypeOK <=> PeerP!TypeOK
    /\ Peer!BusyIsHeld <=> PeerP!BusyIsHeld
    /\ Peer!NoOvercommit <=> PeerP!NoOvercommit
    /\ Peer!Capability = PeerP!Capability
    /\ Peer!ProfileDispatch = PeerP!ProfileDispatch
    /\ Peer!Results = PeerP!Results
<1>1. Peer!Init <=> PeerP!Init
    BY DEF Peer!Init, PeerP!Init
<1>2. Peer!TypeOK <=> PeerP!TypeOK
    BY DEF Peer!TypeOK, PeerP!TypeOK, Peer!FleetTypeOK, PeerP!FleetTypeOK,
           Peer!Capability, PeerP!Capability, Peer!ProfileDispatch, PeerP!ProfileDispatch,
           Peer!Results, PeerP!Results, Peer!AuditEntry, PeerP!AuditEntry,
           Peer!ExecutePoints, PeerP!ExecutePoints, Peer!Peers, PeerP!Peers
<1>3. /\ Peer!BusyIsHeld <=> PeerP!BusyIsHeld
      /\ Peer!NoOvercommit <=> PeerP!NoOvercommit
    BY DEF Peer!BusyIsHeld, PeerP!BusyIsHeld, Peer!NoOvercommit, PeerP!NoOvercommit,
           Peer!Holds, PeerP!Holds, Peer!Claimed, PeerP!Claimed
<1>4. /\ Peer!Capability = PeerP!Capability
      /\ Peer!ProfileDispatch = PeerP!ProfileDispatch
      /\ Peer!Results = PeerP!Results
    BY DEF Peer!Capability, PeerP!Capability, Peer!ProfileDispatch, PeerP!ProfileDispatch,
           Peer!Results, PeerP!Results
<1> QED
    BY <1>1, <1>2, <1>3, <1>4

\* The peer routes alike, seen through the two instances.
LEMMA SameRoute ==
    ASSUME NEW intent
    PROVE  Peer!Route(intent) = PeerP!Route(intent)
BY DEF Peer!Registered, PeerP!Registered, Peer!CanHandle, PeerP!CanHandle,
       Peer!The, PeerP!The, Peer!First, PeerP!First, Peer!BestMatch, PeerP!BestMatch,
       Peer!FilterByNode, PeerP!FilterByNode, Peer!EndpointFor, PeerP!EndpointFor,
       Peer!Answer, PeerP!Answer, Peer!Unavailable, PeerP!Unavailable,
       Peer!Claim, PeerP!Claim, Peer!RouteToProfile, PeerP!RouteToProfile,
       Peer!RouteByMatch, PeerP!RouteByMatch, Peer!Route, PeerP!Route

\* And so it takes the same steps.
LEMMA SameSteps ==
    ASSUME NEW r \in Calls \cup Others
    PROVE  /\ \A intent : Peer!Execute(r, intent) <=> PeerP!Execute(r, intent)
           /\ Peer!Proceed(r) <=> PeerP!Proceed(r)
<1> USE DEF Peer!LoopIsFree, PeerP!LoopIsFree, Peer!Goto, PeerP!Goto,
            Peer!Finish, PeerP!Finish, Peer!SafeLog, PeerP!SafeLog,
            Peer!meshVars, PeerP!meshVars, Peer!fleetVars, PeerP!fleetVars
<1>1. ASSUME NEW intent
      PROVE  Peer!Execute(r, intent) <=> PeerP!Execute(r, intent)
    <2>1. Peer!Route(intent) = PeerP!Route(intent)
        BY SameRoute
    <2> QED
        BY <2>1 DEF Peer!Execute, PeerP!Execute, Peer!MarkBusy, PeerP!MarkBusy
<1>2. Peer!Proceed(r) <=> PeerP!Proceed(r)
    BY DEF Peer!Proceed, PeerP!Proceed, Peer!Reject, PeerP!Reject,
           Peer!LocalReturn, PeerP!LocalReturn, Peer!RemoteReturn, PeerP!RemoteReturn,
           Peer!AnswerRaised, PeerP!AnswerRaised, Peer!AnswerResult, PeerP!AnswerResult,
           Peer!AskForInput, PeerP!AskForInput, Peer!AfterResult, PeerP!AfterResult,
           Peer!OutcomeEntry, PeerP!OutcomeEntry, Peer!Release, PeerP!Release,
           Peer!Enqueue, PeerP!Enqueue
<1> QED
    BY <1>1, <1>2

\* What is asked of the peer is a task intent.
LEMMA IntentsAreTyped ==
    \A m \in OtherMessages \cup {OutgoingMessage} :
      RequestToIntent(m) \in PeerP!TaskIntent
<1>1. ASSUME NEW m \in [parts          : SUBSET {"text", "data", "url", "raw"},
                        intent_type    : Keywords \cup {None},
                        target_profile : Profiles \cup {None},
                        target_node    : Nodes \cup {None}]
      PROVE  RequestToIntent(m) \in PeerP!TaskIntent
    BY MeshTaskAssumption DEF RequestToIntent, DeriveIntentType, PeerP!TaskIntent
<1>2. OutgoingMessage \in [parts          : SUBSET {"text", "data", "url", "raw"},
                           intent_type    : Keywords \cup {None},
                           target_profile : Profiles \cup {None},
                           target_node    : Nodes \cup {None}]
    BY DEF OutgoingMessage
<1> QED
    BY <1>1, <1>2, MeshTaskAssumption

\* The assumptions of FleetController and HermesExecutor hold of the peer.
LEMMA PeerFacts ==
    /\ PeerNode \in Nodes
    /\ None \notin Profiles \cup Nodes
    /\ {} \subseteq Calls \cup Others
    /\ {RequestToIntent(m) : m \in OtherMessages \cup {OutgoingMessage}}
         \subseteq PeerP!TaskIntent
    /\ PeerCapabilities \in Seq(PeerP!Capability)
    /\ [n \in Nodes \ {PeerNode} |-> <<>>] \in [PeerP!Peers -> Seq(PeerP!Capability)]
    /\ AgentResults \subseteq PeerP!Results \ {"not_connected"}
    /\ {FALSE, FALSE, FALSE} \subseteq BOOLEAN
    /\ None \notin (Calls \cup Others) \cup PeerP!ProfileDispatch \cup PeerP!Results
<1>1. /\ PeerNode \in Nodes
      /\ None \notin Profiles \cup Nodes
    BY BridgeAssumption, MeshTaskAssumption, PeerAssumption
<1>2. {RequestToIntent(m) : m \in OtherMessages \cup {OutgoingMessage}}
         \subseteq PeerP!TaskIntent
    BY IntentsAreTyped
<1>3. /\ PeerCapabilities \in Seq(PeerP!Capability)
      /\ None \notin (Calls \cup Others) \cup PeerP!ProfileDispatch \cup PeerP!Results
    BY PeerAssumption, SamePeer
<1>4. [n \in Nodes \ {PeerNode} |-> <<>>] \in [PeerP!Peers -> Seq(PeerP!Capability)]
    BY EmptySeq DEF PeerP!Peers
<1>5. AgentResults \subseteq PeerP!Results \ {"not_connected"}
    BY MeshTaskAssumption DEF PeerP!Results
<1> QED
    BY <1>1, <1>2, <1>3, <1>4, <1>5

\* A request that arrives at the peer keeps its claims exact.
LEMMA PeerExecutes ==
    ASSUME PeerP!SlotInv, NEW r \in Calls \cup Others,
           NEW m \in OtherMessages \cup {OutgoingMessage},
           Peer!Execute(r, RequestToIntent(m))
    PROVE  PeerP!SlotInv'
<1>1. PeerP!Execute(r, RequestToIntent(m))
    BY SameSteps
<1>2. [PeerP!Next]_(PeerP!vars)
    BY <1>1 DEF PeerP!Next
<1> QED
    BY <1>2, PeerFacts, PeerP!NextKeepsSlotInv

\* So does every step of a request that is there.
LEMMA PeerProceedsOn ==
    ASSUME PeerP!SlotInv, NEW r \in Calls \cup Others, Peer!Proceed(r)
    PROVE  PeerP!SlotInv'
<1>1. PeerP!Proceed(r)
    BY SameSteps
<1>2. [PeerP!Next]_(PeerP!vars)
    BY <1>1 DEF PeerP!Next
<1> QED
    BY <1>2, PeerFacts, PeerP!NextKeepsSlotInv

\* No step of the executor loses a request or forgets a dispatch: those are
\* the restarts.
LEMMA PeerStepsForgetNothing ==
    ASSUME PeerP!TypeOK, LostIsForgotten, NEW r \in Calls \cup Others,
           \/ \E m \in OtherMessages \cup {OutgoingMessage} :
                Peer!Execute(r, RequestToIntent(m))
           \/ Peer!Proceed(r)
    PROVE  LostIsForgotten'
<1>1. pc \in [Calls \cup Others -> PeerP!ExecutePoints]
      /\ dispatch \in [Calls \cup Others -> PeerP!ProfileDispatch \cup {None}]
    BY DEF PeerP!TypeOK
<1>2. /\ \E point \in PeerP!ExecutePoints \ {"lost"} : pc' = [pc EXCEPT ![r] = point]
      /\ dispatch' = dispatch \/ pc[r] = "new"
      /\ dispatch' = dispatch \/ \E d : dispatch' = [dispatch EXCEPT ![r] = d]
    <2>1. ASSUME NEW m \in OtherMessages \cup {OutgoingMessage},
                 Peer!Execute(r, RequestToIntent(m))
          PROVE  /\ \E point \in PeerP!ExecutePoints \ {"lost"} :
                       pc' = [pc EXCEPT ![r] = point]
                 /\ pc[r] = "new"
                 /\ \E d : dispatch' = [dispatch EXCEPT ![r] = d]
        BY <2>1 DEF Peer!Execute, Peer!Goto, Peer!Finish, PeerP!ExecutePoints
    <2>2. ASSUME Peer!Proceed(r)
          PROVE  /\ \E point \in PeerP!ExecutePoints \ {"lost"} :
                       pc' = [pc EXCEPT ![r] = point]
                 /\ dispatch' = dispatch
        BY <2>2 DEF Peer!Proceed, Peer!Reject, Peer!LocalReturn, Peer!RemoteReturn,
                    Peer!AnswerRaised, Peer!AnswerResult, Peer!AskForInput,
                    Peer!AfterResult, Peer!Goto, Peer!Finish, PeerP!ExecutePoints
    <2> QED
        BY <2>1, <2>2
<1>3. pc'[r] # "lost" /\ \A q \in (Calls \cup Others) \ {r} :
                            pc'[q] = pc[q] /\ dispatch'[q] = dispatch[q]
    BY <1>1, <1>2
<1> QED
    BY <1>3 DEF LostIsForgotten

\* After a restart nobody holds a profile, and none is busy.
LEMMA RestartForgetsAll ==
    ASSUME PeerInv, PeerRestarts
    PROVE  PeerInv'
<1> DEFINE Requests == Calls \cup Others
<1>1. /\ capabilities' = PeerCapabilities /\ busy' = {}
      /\ pc' = [r \in Requests |-> IF Underway(r) THEN "lost" ELSE pc[r]]
      /\ dispatch' = [r \in Requests |-> IF Underway(r) THEN None ELSE dispatch[r]]
      /\ UNCHANGED <<connected, unread, result, events, audit, cancelPc>>
      /\ PeerP!TypeOK
    BY DEF PeerRestarts, PeerInv, PeerP!SlotInv, PeerP!TypeOK
<1>2. ASSUME NEW r \in Requests
      PROVE  /\ pc'[r] \in {"new", "done", "lost"}
             /\ pc'[r] = "lost" => dispatch'[r] = None
             /\ dispatch'[r] = None => pc'[r] \in {"new", "lost"}
    BY <1>1 DEF Underway, PeerInv, LostIsForgotten, PeerP!SlotInv, PeerP!PcMatchesDispatch
<1>3. PeerP!TypeOK'
    <2>1. pc' \in [Requests -> PeerP!ExecutePoints]
        BY <1>1, <1>2 DEF PeerP!ExecutePoints
    <2>2. dispatch' \in [Requests -> PeerP!ProfileDispatch \cup {None}]
        BY <1>1 DEF PeerP!TypeOK
    <2> QED
        BY <1>1, <2>1, <2>2, PeerFacts DEF PeerP!TypeOK, PeerP!FleetTypeOK
<1>4. PeerP!PcMatchesDispatch'
    BY <1>2 DEF PeerP!PcMatchesDispatch
<1>5. \A r \in Requests : ~ PeerP!Holds(r)'
    BY <1>2 DEF PeerP!Holds
<1>6. PeerP!NoOvercommit' /\ PeerP!BusyIsHeld'
    BY <1>1, <1>5 DEF PeerP!NoOvercommit, PeerP!BusyIsHeld
<1>7. LostIsForgotten'
    BY <1>2 DEF LostIsForgotten
<1> QED
    BY <1>3, <1>4, <1>6, <1>7 DEF PeerInv, PeerP!SlotInv

\* So does every step of the two nodes: those of the caller leave the peer alone,
\* and a restart forgets the claims and the busy profiles together.
LEMMA NextKeepsPeer ==
    ASSUME PeerInv, [Next]_vars
    PROVE  PeerInv'
<1>1. ASSUME NEW r \in Calls \cup Others,
             \/ \E m \in OtherMessages \cup {OutgoingMessage} :
                  Peer!Execute(r, RequestToIntent(m))
             \/ Peer!Proceed(r)
      PROVE  PeerInv'
    <2>1. PeerP!SlotInv'
        BY <1>1, PeerExecutes, PeerProceedsOn DEF PeerInv
    <2>2. LostIsForgotten'
        BY <1>1, PeerStepsForgetNothing DEF PeerInv, PeerP!SlotInv
    <2> QED
        BY <2>1, <2>2 DEF PeerInv
<1>2. CASE UNCHANGED peerVars
    BY <1>2 DEF peerVars, PeerInv, LostIsForgotten, PeerP!SlotInv, PeerP!TypeOK,
                PeerP!FleetTypeOK, PeerP!PcMatchesDispatch, PeerP!NoOvercommit,
                PeerP!BusyIsHeld, PeerP!Holds, PeerP!Claimed
<1>3. CASE PeerRestarts
    BY <1>3, RestartForgetsAll
<1>4. ASSUME NEW c \in Calls, PeerTakes(c) PROVE PeerInv'
    BY <1>1, <1>4 DEF PeerTakes
<1>5. ASSUME NEW r \in Others, PeerServes(r) PROVE PeerInv'
    BY <1>1, <1>5 DEF PeerServes
<1>6. ASSUME NEW r \in Calls \cup Others, PeerProceeds(r) PROVE PeerInv'
    BY <1>1, <1>6 DEF PeerProceeds
<1> QED
    BY <1>2, <1>3, <1>4, <1>5, <1>6
       DEF Next, Bridge, FailUnconnected, Post, ReplyArrives, CallFails, Finished, vars

\* What is proved of one executor holds of the peer that calls reach over the
\* wire, through its restarts.
THEOREM PeerInvariant == Spec => []PeerInv
<1>1. Init => PeerInv
    <2> SUFFICES ASSUME Init PROVE PeerInv
        OBVIOUS
    <2>1. PeerP!Init
        BY SamePeer DEF Init
    <2>2. PeerP!SlotInv
        BY <2>1, PeerFacts, PeerP!InitSlotInv
    <2>3. LostIsForgotten
        BY <2>1 DEF PeerP!Init, LostIsForgotten
    <2> QED
        BY <2>2, <2>3 DEF PeerInv
<1> QED
    BY <1>1, NextKeepsPeer, PTL DEF Spec

\* The peer's tracker stays exact while callers give up, requests arrive
\* after their callers have gone and the peer restarts.
THEOREM PeerTrackerStaysExact == Spec => []PeerTrackerIsExact
<1>1. PeerInv => PeerTrackerIsExact
    BY SamePeer DEF PeerInv, PeerP!SlotInv, PeerTrackerIsExact
<1> QED
    BY <1>1, PeerInvariant, PTL

\* Nor do two requests ever work with the same profile of the peer, the ones
\* its callers have given up and the ones it serves after a restart included.
THEOREM PeerProfilesAreExclusive == Spec => []Peer!NoOvercommit
<1>1. PeerInv => Peer!NoOvercommit
    BY SamePeer DEF PeerInv, PeerP!SlotInv
<1> QED
    BY <1>1, PeerInvariant, PTL

-----------------------------------------------------------------------------
(* Type correctness of both nodes and of what is between them.             *)

WireTypeOK ==
    /\ wire \in [Calls -> {"none", "request", "lost", "taken"}]
    /\ restarts \in 0 .. MaxRestarts

\* Requests are posted, lost, executed and answered within their types.
LEMMA NextKeepsWireType == WireTypeOK /\ [Next]_vars => WireTypeOK'
<1> SUFFICES ASSUME WireTypeOK, [Next]_vars PROVE WireTypeOK'
    OBVIOUS
<1>1. CASE UNCHANGED <<wire, restarts>>
    BY <1>1 DEF WireTypeOK
<1>2. ASSUME NEW c \in Calls, Post(c) \/ CallFails(c) \/ PeerTakes(c)
      PROVE  WireTypeOK'
    BY <1>1, <1>2 DEF WireTypeOK, Post, CallFails, PeerTakes
<1>3. CASE PeerRestarts
    <2>1. restarts' \in 0 .. MaxRestarts
        BY <1>3, MeshTaskAssumption DEF PeerRestarts, WireTypeOK
    <2> QED
        BY <1>3, <2>1 DEF PeerRestarts, WireTypeOK
<1> QED
    BY <1>1, <1>2, <1>3 DEF Next, Bridge, FailUnconnected, ReplyArrives, PeerServes,
                            PeerProceeds, Finished, vars

\* The variables of both nodes and of the wire always have their types.
THEOREM TypeCorrect == Spec => []TypeOK
<1>1. Init => WireTypeOK
    BY MeshTaskAssumption DEF Init, WireTypeOK
<1>2. PoolInv /\ PeerInv /\ WireTypeOK => TypeOK
    BY SamePeer DEF PoolInv, PeerInv, PeerP!SlotInv, WireTypeOK, TypeOK
<1> QED
    BY <1>1, <1>2, NextKeepsWireType, PoolInvariant, PeerInvariant, PTL DEF Spec

-----------------------------------------------------------------------------
(* The promise to the caller.  A step tells a call at most once because    *)
(* what has not returned was told nothing (ToldOnReturn); that "completed" *)
(* is never told too early needs the futures to be honest, and that the    *)
(* peer answers only what was asked needs a call that is new to be unknown *)
(* on the wire and at the peer.                                            *)

CallInv ==
    \A c \in Calls :
      /\ at[c] = "local" => ~ IsRemote(c)
      /\ at[c] = "new" => wire[c] = "none" /\ pc[c] = "new"
      /\ future[c] = "completed" => Answered(c)

\* All that is known of a state.
TaskInv == PoolInv /\ PeerInv /\ WireTypeOK /\ CallInv

\* A coroutine of the mesh client belongs to a call that was made.
LEMMA FlyingIsNotNew ==
    ASSUME PoolInv, NEW c \in Calls, InFlight(c)
    PROVE  at[c] # "new"
<1>1. CASE c \in running
    <2>1. Pooled(c) /\ future[c] = None
        BY <1>1 DEF PoolInv, PlacesAreRight
    <2> QED
        BY <2>1, BridgeFacts DEF Pooled, PoolInv, ToldOnReturn
<1> QED
    BY <1>1 DEF InFlight

\* The peer's coroutine of a request adds at most one event, for its own
\* caller.
LEMMA EventsOfAStep ==
    ASSUME PeerP!TypeOK, NEW r \in Calls \cup Others, Peer!Proceed(r)
    PROVE  /\ pc[r] # "new"
           /\ \E point \in PeerP!ExecutePoints \ {"new"} : pc' = [pc EXCEPT ![r] = point]
           /\ \A q \in (Calls \cup Others) \ {r} : events'[q] = events[q]
           /\ \A c \in Calls : Answered(c) => Answered(c)'
<1>1. /\ pc[r] # "new"
      /\ \E point \in PeerP!ExecutePoints \ {"new"} : pc' = [pc EXCEPT ![r] = point]
      /\ \/ events' = events
         \/ \E e \in {"message", "status"} : events' = [events EXCEPT ![r] = Append(@, e)]
    BY DEF Peer!Proceed, Peer!Reject, Peer!LocalReturn, Peer!RemoteReturn,
           Peer!AnswerRaised, Peer!AnswerResult, Peer!AskForInput,
           Peer!AfterResult, Peer!Goto, Peer!Finish, Peer!Enqueue, PeerP!ExecutePoints
<1>2. CASE events' = events
    BY <1>1, <1>2 DEF Answered
<1>3. ASSUME NEW e \in {"message", "status"}, events' = [events EXCEPT ![r] = Append(@, e)]
      PROVE  /\ \A q \in (Calls \cup Others) \ {r} : events'[q] = events[q]
             /\ \A c \in Calls : Answered(c) => Answered(c)'
    <2>1. /\ events[r] \in Seq({"message", "status"})
          /\ events'[r] = Append(events[r], e)
          /\ \A q \in (Calls \cup Others) \ {r} : events'[q] = events[q]
        BY <1>3 DEF PeerP!TypeOK
    <2>2. \A i \in DOMAIN events[r] : i \in DOMAIN events'[r] /\ events'[r][i] = events[r][i]
        BY <2>1, AppendProperties, LenProperties
    <2>3. \A c \in Calls : Answered(c) => Answered(c)'
        BY <2>1, <2>2 DEF Answered
    <2> QED
        BY <2>1, <2>3
<1> QED
    BY <1>1, <1>2, <1>3

\* A coroutine of the mesh client that ends leaves CallInv, if it claims a
\* completion only for what was answered.
LEMMA EndKeepsCalls ==
    ASSUME TaskInv, NEW c \in Calls, NEW res \in {"completed", "failed"},
           CoroutineEnds(c, res), res = "completed" => Answered(c),
           wire' = wire \/ \E w : wire' = [wire EXCEPT ![c] = w],
           InFlight(c), UNCHANGED peerVars
    PROVE  CallInv'
<1>1. at[c] # "new"
    BY FlyingIsNotNew DEF TaskInv
<1>2. \A d \in Calls \ {c} : wire'[d] = wire[d]
    BY DEF TaskInv, WireTypeOK
<1>3. \A d \in Calls : pc'[d] = pc[d] /\ (Answered(d)' <=> Answered(d))
    BY DEF peerVars, Answered
<1>4. /\ at'[c] \in {at[c], "returned"} /\ future'[c] \in {future[c], res}
      /\ \A d \in Calls \ {c} : at'[d] = at[d] /\ future'[d] = future[d]
    BY DEF CoroutineEnds, Returns, Goes, TaskInv, PoolInv, BridgeTypeOK
<1> QED
    BY <1>1, <1>2, <1>3, <1>4 DEF TaskInv, CallInv, IsRemote

\* Every step keeps the bookkeeping of the calls: a coroutine is that of a call
\* that was made, and a future is filled as completed only when the peer answered.
LEMMA NextKeepsCalls ==
    ASSUME TaskInv, [Next]_vars
    PROVE  CallInv'
<1>1. ASSUME NEW c \in Calls,
             \/ Bridge(SendTask(c)) \/ Bridge(LocalReturns(c))
             \/ Bridge(StartJob(c)) \/ Bridge(WaitEnds(c))
      PROVE  CallInv'
    <2>1. /\ UNCHANGED <<wire, peerVars, future>>
          /\ at' = at \/ \E place : at' = [at EXCEPT ![c] = place] /\ place # "new"
                                    /\ (place = "local" => ~ IsRemote(c))
        BY <1>1 DEF Bridge, SendTask, SendLocally, SendUnwired, SendInline, SendThroughPool,
                    LocalReturns, StartJob, WaitEnds, CallerReads, CallerGivesUp,
                    Returns, Goes
    <2>2. \A d \in Calls : \/ at'[d] = at[d]
                           \/ at'[d] # "new" /\ (at'[d] = "local" => ~ IsRemote(d))
        BY <2>1 DEF TaskInv, PoolInv, BridgeTypeOK
    <2> QED
        BY <2>1, <2>2 DEF TaskInv, CallInv, peerVars, Answered, IsRemote
<1>2. ASSUME NEW c \in Calls, FailUnconnected(c) \/ ReplyArrives(c) \/ CallFails(c)
      PROVE  CallInv'
    BY <1>2, EndKeepsCalls DEF FailUnconnected, ReplyArrives, CallFails
<1>3. ASSUME NEW c \in Calls, Post(c)
      PROVE  CallInv'
    <2>1. at[c] # "new"
        BY <1>3, FlyingIsNotNew DEF Post, TaskInv
    <2>2. \A d \in Calls \ {c} : wire'[d] = wire[d]
        BY <1>3 DEF Post, TaskInv, WireTypeOK
    <2> QED
        BY <1>3, <2>1, <2>2 DEF Post, TaskInv, CallInv, bridgeVars, peerVars, Answered, IsRemote
<1>4. ASSUME NEW r \in Calls \cup Others, NEW m \in OtherMessages \cup {OutgoingMessage},
             Peer!Execute(r, RequestToIntent(m)), UNCHANGED bridgeVars,
             r \in Calls => at[r] # "new",
             wire' = wire \/ (r \in Calls /\ wire' = [wire EXCEPT ![r] = "taken"])
      PROVE  CallInv'
    <2>1. UNCHANGED events /\ \E point : pc' = [pc EXCEPT ![r] = point]
        BY <1>4 DEF Peer!Execute, Peer!Goto, Peer!Finish
    <2>2. \A q \in Calls \ {r} : pc'[q] = pc[q] /\ wire'[q] = wire[q]
        BY <1>4, <2>1 DEF TaskInv, PeerInv, PeerP!SlotInv, PeerP!TypeOK, WireTypeOK
    <2> QED
        BY <1>4, <2>1, <2>2 DEF TaskInv, CallInv, bridgeVars, Answered, IsRemote
<1>5. ASSUME NEW c \in Calls, PeerTakes(c) PROVE CallInv'
    <2>1. at[c] # "new"
        BY <1>5 DEF PeerTakes, TaskInv, CallInv
    <2> QED
        BY <1>4, <1>5, <2>1 DEF PeerTakes
<1>6. ASSUME NEW r \in Others, PeerServes(r) PROVE CallInv'
    <2>1. r \notin Calls
        BY MeshTaskAssumption
    <2> QED
        BY <1>4, <1>6, <2>1 DEF PeerServes
<1>7. ASSUME NEW r \in Calls \cup Others, PeerProceeds(r) PROVE CallInv'
    <2>1. /\ Peer!Proceed(r) /\ UNCHANGED <<bridgeVars, wire>>
          /\ PeerP!TypeOK
        BY <1>7 DEF PeerProceeds, TaskInv, PeerInv, PeerP!SlotInv
    <2>2. /\ pc[r] # "new"
          /\ \A c \in Calls : Answered(c) => Answered(c)'
          /\ \A q \in Calls \ {r} : pc'[q] = pc[q]
        BY <2>1, EventsOfAStep DEF PeerP!TypeOK
    <2> QED
        BY <2>1, <2>2 DEF TaskInv, CallInv, bridgeVars, IsRemote
<1>8. CASE PeerRestarts
    <2>1. /\ UNCHANGED <<bridgeVars, wire, events>>
          /\ \A c \in Calls : pc[c] = "new" => pc'[c] = "new"
        BY <1>8 DEF PeerRestarts, Underway, TaskInv, PeerInv, PeerP!SlotInv, PeerP!TypeOK
    <2> QED
        BY <2>1 DEF TaskInv, CallInv, bridgeVars, Answered, IsRemote
<1>9. CASE UNCHANGED vars
    BY <1>9 DEF vars, bridgeVars, peerVars, TaskInv, CallInv, Answered, IsRemote
<1> QED
    BY <1>1, <1>2, <1>3, <1>5, <1>6, <1>7, <1>8, <1>9 DEF Next, Finished

\* All of the invariant of the two nodes holds throughout.
THEOREM TaskInvariant == Spec => []TaskInv
<1>1. Init => CallInv
    BY BridgeFacts, MeshTaskAssumption DEF Init, BridgeInit, Peer!Init, CallInv
<1>2. Init => WireTypeOK
    BY MeshTaskAssumption DEF Init, WireTypeOK
<1>3. TaskInv /\ [Next]_vars => CallInv'
    BY NextKeepsCalls
<1> QED
    BY <1>1, <1>2, <1>3, NextKeepsWireType, PoolInvariant, PeerInvariant, PTL
       DEF Spec, TaskInv

\* A step that changes neither at, told nor the answers of a remote call, as
\* far as RemoteCall sees them, is a stutter.
LEMMA StutterOfCalls ==
    ASSUME \A c \in RemoteCalls : /\ at'[c] = "new" <=> at[c] = "new"
                                  /\ told'[c] = told[c]
                                  /\ Answered(c)' <=> Answered(c)
    PROVE  UNCHANGED Call!callVars
<1>1. {c \in RemoteCalls : at[c] # "new"}' = {c \in RemoteCalls : at[c] # "new"}
    <2>1. {c \in RemoteCalls : at[c] # "new"}' = {c \in RemoteCalls : at'[c] # "new"}
        BY DEF RemoteCalls, IsRemote
    <2> QED
        BY <2>1
<1>2. {c \in RemoteCalls : Answered(c)}' = {c \in RemoteCalls : Answered(c)}
    <2>1. {c \in RemoteCalls : Answered(c)}' = {c \in RemoteCalls : Answered(c)'}
        BY DEF RemoteCalls, IsRemote
    <2> QED
        BY <2>1
<1>3. [c \in RemoteCalls |-> ToldAs(c)]' = [c \in RemoteCalls |-> ToldAs(c)]
    <2>1. [c \in RemoteCalls |-> ToldAs(c)]' = [c \in RemoteCalls |-> ToldAs(c)']
        BY DEF RemoteCalls, IsRemote
    <2>2. \A c \in RemoteCalls : ToldAs(c)' = ToldAs(c)
        BY DEF ToldAs
    <2> QED
        BY <2>1, <2>2
<1> QED
    BY <1>1, <1>2, <1>3 DEF Call!callVars

\* A call that returns from its wait is told, once, what RemoteCall allows.
LEMMA ReturningTells ==
    ASSUME TaskInv, NEW c \in RemoteCalls, at[c] \in {"inline", "waiting"},
           NEW res \in {"completed", "failed", "timed_out"}, Returns(c, res),
           res = "completed" => Answered(c), UNCHANGED events
    PROVE  Call!Tell(c)
<1>1. /\ told[c] = None
      /\ told'[c] = res /\ at'[c] = "returned"
      /\ \A d \in Calls \ {c} : told'[d] = told[d] /\ at'[d] = at[d]
      /\ c \in Calls
    BY DEF TaskInv, PoolInv, ToldOnReturn, Returns, Goes, BridgeTypeOK, RemoteCalls
<1>2. ToldAs(c) = None /\ c \in {d \in RemoteCalls : at[d] # "new"}
    BY <1>1, BridgeFacts DEF ToldAs
<1>3. PICK o \in {"completed", "failed"} :
          ToldAs(c)' = o /\ (o = "completed" => Answered(c))
    BY <1>1 DEF ToldAs
<1>4. \A d \in RemoteCalls \ {c} : ToldAs(d)' = ToldAs(d)
    BY <1>1 DEF ToldAs, RemoteCalls
<1>5. [d \in RemoteCalls |-> ToldAs(d)]'
        = [[d \in RemoteCalls |-> ToldAs(d)] EXCEPT ![c] = o]
    <2>1. [d \in RemoteCalls |-> ToldAs(d)]' = [d \in RemoteCalls |-> ToldAs(d)']
        BY DEF RemoteCalls, IsRemote
    <2> QED
        BY <1>3, <1>4, <2>1
<1>6. {d \in RemoteCalls : at[d] # "new"}' = {d \in RemoteCalls : at[d] # "new"}
    <2>1. {d \in RemoteCalls : at[d] # "new"}' = {d \in RemoteCalls : at'[d] # "new"}
        BY DEF RemoteCalls, IsRemote
    <2> QED
        BY <1>1, <2>1 DEF RemoteCalls
<1>7. {d \in RemoteCalls : Answered(d)}' = {d \in RemoteCalls : Answered(d)}
    BY DEF RemoteCalls, IsRemote, Answered
<1> QED
    BY <1>2, <1>3, <1>5, <1>6, <1>7 DEF Call!Tell

\* A call that is sent on its way asks; one that has no way fails at once.
LEMMA SendingAsks ==
    ASSUME TaskInv, NEW c \in Calls, Bridge(SendTask(c))
    PROVE  [Call!Next]_(Call!callVars)
<1>1. /\ at[c] = "new" /\ told[c] = None /\ ToldAs(c) = None
      /\ UNCHANGED events
    BY BridgeFacts DEF Bridge, SendTask, SendLocally, SendUnwired, SendInline,
       SendThroughPool, Called, TaskInv, PoolInv, ToldOnReturn, ToldAs, peerVars
<1>2. \A d \in Calls : Answered(d)' <=> Answered(d)
    BY <1>1 DEF Answered
<1>3. {d \in RemoteCalls : Answered(d)}' = {d \in RemoteCalls : Answered(d)}
    BY <1>1 DEF RemoteCalls, IsRemote, Answered
<1>4. /\ {d \in RemoteCalls : at[d] # "new"}' = {d \in RemoteCalls : at'[d] # "new"}
      /\ [d \in RemoteCalls |-> ToldAs(d)]' = [d \in RemoteCalls |-> ToldAs(d)']
    BY DEF RemoteCalls, IsRemote
<1>5. CASE SendLocally(c)
    <2>1. c \notin RemoteCalls
        BY <1>5 DEF SendLocally, RemoteCalls
    <2>2. \A d \in RemoteCalls : at'[d] = at[d] /\ told'[d] = told[d]
        BY <1>5, <2>1 DEF SendLocally, Goes, TaskInv, PoolInv, BridgeTypeOK, RemoteCalls
    <2> QED
        BY <1>2, <2>2, StutterOfCalls DEF RemoteCalls
<1>6. ASSUME IsRemote(c), NEW place \in {"inline", "waiting"}, Goes(c, place), told' = told
      PROVE  Call!Next
    <2>1. c \in RemoteCalls
        BY <1>6 DEF RemoteCalls
    <2>2. at'[c] = place /\ \A d \in Calls \ {c} : at'[d] = at[d]
        BY <1>6 DEF Goes, TaskInv, PoolInv, BridgeTypeOK
    <2>3. {d \in RemoteCalls : at[d] # "new"}'
            = {d \in RemoteCalls : at[d] # "new"} \cup {c}
        BY <1>4, <2>1, <2>2 DEF RemoteCalls
    <2>4. [d \in RemoteCalls |-> ToldAs(d)]' = [d \in RemoteCalls |-> ToldAs(d)]
        BY <1>4, <1>6 DEF ToldAs
    <2>5. Call!Ask(c)
        BY <1>1, <1>3, <2>3, <2>4 DEF Call!Ask
    <2> QED
        BY <2>1, <2>5 DEF Call!Next
<1>7. CASE SendUnwired(c)
    <2>1. c \in RemoteCalls /\ Returns(c, "failed")
        BY <1>7 DEF SendUnwired, RemoteCalls
    <2>2. /\ at'[c] = "returned" /\ \A d \in Calls \ {c} : at'[d] = at[d]
          /\ told'[c] = "failed" /\ \A d \in Calls \ {c} : told'[d] = told[d]
        BY <2>1 DEF Returns, Goes, TaskInv, PoolInv, BridgeTypeOK
    <2>3. {d \in RemoteCalls : at[d] # "new"}'
            = {d \in RemoteCalls : at[d] # "new"} \cup {c}
        BY <1>4, <2>1, <2>2 DEF RemoteCalls
    <2>4. ToldAs(c)' = "failed" /\ \A d \in RemoteCalls \ {c} : ToldAs(d)' = ToldAs(d)
        BY <2>2 DEF ToldAs, RemoteCalls
    <2>5. [d \in RemoteCalls |-> ToldAs(d)]'
            = [[d \in RemoteCalls |-> ToldAs(d)] EXCEPT ![c] = "failed"]
        BY <1>4, <2>4
    <2>6. Call!Refuse(c)
        BY <1>1, <1>3, <2>3, <2>5 DEF Call!Refuse
    <2> QED
        BY <2>1, <2>6 DEF Call!Next
<1> QED
    BY <1>5, <1>6, <1>7 DEF Bridge, SendTask, SendInline, SendThroughPool, Called

\* A call that returns: a local one is no concern of RemoteCall.
LEMMA ReturnIsTold ==
    ASSUME TaskInv, NEW c \in Calls, at[c] \in {"inline", "waiting"},
           NEW res \in {"completed", "failed", "timed_out"}, Returns(c, res),
           res = "completed" => Answered(c), UNCHANGED events
    PROVE  [Call!Next]_(Call!callVars)
<1>1. CASE c \in RemoteCalls
    BY <1>1, ReturningTells DEF Call!Next
<1>2. CASE c \notin RemoteCalls
    <2>1. \A d \in RemoteCalls : at'[d] = at[d] /\ told'[d] = told[d]
        BY <1>2 DEF Returns, Goes, TaskInv, PoolInv, BridgeTypeOK, RemoteCalls
    <2> QED
        BY <2>1, StutterOfCalls DEF Answered, RemoteCalls
<1> QED
    BY <1>1, <1>2

\* The peer's coroutine answers what was asked, or changes nothing for the
\* caller.
LEMMA ProceedingAnswers ==
    ASSUME TaskInv, NEW r \in Calls \cup Others, PeerProceeds(r)
    PROVE  [Call!Next]_(Call!callVars)
<1>1. /\ pc[r] # "new" /\ UNCHANGED <<at, told>>
      /\ \A q \in (Calls \cup Others) \ {r} : events'[q] = events[q]
      /\ \A c \in Calls : Answered(c) => Answered(c)'
    BY EventsOfAStep DEF PeerProceeds, bridgeVars, TaskInv, PeerInv, PeerP!SlotInv
<1>2. \A c \in Calls \ {r} : Answered(c)' <=> Answered(c)
    BY <1>1 DEF Answered
<1>3. CASE r \in RemoteCalls /\ Answered(r)' /\ ~ Answered(r)
    <2>1. r \in Calls /\ at[r] # "new"
        BY <1>1, <1>3 DEF RemoteCalls, TaskInv, CallInv
    <2>2. {d \in RemoteCalls : Answered(d)}' = {d \in RemoteCalls : Answered(d)} \cup {r}
        <3>1. {d \in RemoteCalls : Answered(d)}' = {d \in RemoteCalls : Answered(d)'}
            BY DEF RemoteCalls, IsRemote
        <3> QED
            BY <1>2, <1>3, <3>1 DEF RemoteCalls
    <2>3. /\ {d \in RemoteCalls : at[d] # "new"}' = {d \in RemoteCalls : at[d] # "new"}
          /\ [d \in RemoteCalls |-> ToldAs(d)]' = [d \in RemoteCalls |-> ToldAs(d)]
        BY <1>1 DEF RemoteCalls, IsRemote, ToldAs
    <2>4. Call!AnswerAtPeer(r)
        BY <1>3, <2>1, <2>2, <2>3 DEF Call!AnswerAtPeer
    <2> QED
        BY <1>3, <2>4 DEF Call!Next
<1>4. CASE ~ (r \in RemoteCalls /\ Answered(r)' /\ ~ Answered(r))
    BY <1>1, <1>2, <1>4, StutterOfCalls DEF RemoteCalls
<1> QED
    BY <1>3, <1>4

\* Every step of the two nodes is a step of RemoteCall, or a stutter of it.
LEMMA StepsAreOfRemoteCall ==
    ASSUME TaskInv, [Next]_vars
    PROVE  [Call!Next]_(Call!callVars)
<1>1. CASE UNCHANGED <<at, told, events>>
    BY <1>1, StutterOfCalls DEF Answered, RemoteCalls
<1>2. ASSUME NEW c \in Calls, Bridge(LocalReturns(c))
      PROVE  [Call!Next]_(Call!callVars)
    <2>1. ~ IsRemote(c)
        BY <1>2 DEF Bridge, LocalReturns, TaskInv, CallInv
    <2>2. \A d \in RemoteCalls : at'[d] = at[d] /\ told'[d] = told[d]
        BY <1>2, <2>1 DEF Bridge, LocalReturns, Returns, Goes, TaskInv, PoolInv,
                          BridgeTypeOK, RemoteCalls
    <2> QED
        BY <1>2, <2>2, StutterOfCalls DEF Bridge, peerVars, Answered, RemoteCalls
<1>3. ASSUME NEW c \in Calls, Bridge(WaitEnds(c))
      PROVE  [Call!Next]_(Call!callVars)
    <2>1. CASE CallerReads(c)
        <3>1. /\ at[c] = "waiting" /\ Returns(c, future[c])
              /\ future[c] \in {"completed", "failed"}
              /\ future[c] = "completed" => Answered(c)
            BY <2>1 DEF CallerReads, TaskInv, PoolInv, BridgeTypeOK, CallInv
        <3> QED
            BY <1>3, <3>1, ReturnIsTold DEF Bridge, peerVars
    <2>2. CASE CallerGivesUp(c)
        BY <1>3, <2>2, ReturnIsTold DEF CallerGivesUp, Bridge, peerVars
    <2> QED
        BY <1>3, <2>1, <2>2 DEF Bridge, WaitEnds
<1>4. ASSUME NEW c \in Calls, FailUnconnected(c) \/ ReplyArrives(c) \/ CallFails(c)
      PROVE  [Call!Next]_(Call!callVars)
    <2>1. UNCHANGED events
        BY <1>4 DEF FailUnconnected, ReplyArrives, CallFails, peerVars
    <2>2. PICK res \in {"completed", "failed"} :
             CoroutineEnds(c, res) /\ (res = "completed" => Answered(c))
        BY <1>4 DEF FailUnconnected, ReplyArrives, CallFails
    <2>3. CASE at[c] = "inline" /\ Returns(c, res)
        BY <2>1, <2>2, <2>3, ReturnIsTold
    <2> QED
        BY <1>1, <2>1, <2>2, <2>3 DEF CoroutineEnds
<1>5. ASSUME NEW c \in Calls, Bridge(StartJob(c)) \/ Post(c) \/ PeerTakes(c)
      PROVE  UNCHANGED <<at, told, events>>
    BY <1>5 DEF Bridge, StartJob, Post, PeerTakes, bridgeVars, peerVars, Peer!Execute
<1>6. ASSUME NEW r \in Others, PeerServes(r)
      PROVE  UNCHANGED <<at, told, events>>
    BY <1>6 DEF PeerServes, bridgeVars, Peer!Execute
<1>7. CASE PeerRestarts \/ UNCHANGED vars
    BY <1>1, <1>7 DEF PeerRestarts, bridgeVars, vars, peerVars
<1> QED
    BY <1>1, <1>2, <1>3, <1>4, <1>5, <1>6, <1>7, SendingAsks, ProceedingAnswers
       DEF Next, Finished

\* A caller is told once how its remote task ended, and "completed" only
\* when the peer has answered: the safety part of ImplementsRemoteCall.
THEOREM RemoteCallsAreSafe == Spec => Call!Spec
<1>1. Init => Call!Init
    <2> SUFFICES ASSUME Init PROVE Call!Init
        OBVIOUS
    <2>1. \A c \in Calls : at[c] = "new" /\ told[c] = None /\ events[c] = <<>>
        BY DEF Init, BridgeInit, Peer!Init
    <2> QED
        BY <2>1, BridgeFacts DEF Call!Init, RemoteCalls, Answered, ToldAs
<1>2. TaskInv /\ [Next]_vars => [Call!Next]_(Call!callVars)
    BY StepsAreOfRemoteCall
<1> QED
    BY <1>1, <1>2, TaskInvariant, PTL DEF Spec, Call!Spec

\* What RemoteCall promises of every state: a caller that was told "completed"
\* has an answer of the peer.
CompletedIsAnswered ==
    \A c \in RemoteCalls : told[c] = "completed" => Answered(c)

\* The steps of RemoteCall keep it.
LEMMA CallsKeepAnswers ==
    ASSUME CompletedIsAnswered, [Call!Next]_(Call!callVars)
    PROVE  CompletedIsAnswered'
<1> DEFINE outcome == [c \in RemoteCalls |-> ToldAs(c)]
           answered == {c \in RemoteCalls : Answered(c)}
           Fits(out, ans) == \A c \in RemoteCalls : out[c] = "completed" => c \in ans
<1>1. Fits(outcome, answered)
    BY DEF CompletedIsAnswered, ToldAs
<1>2. /\ outcome' = [c \in RemoteCalls |-> ToldAs(c)']
      /\ answered' = {c \in RemoteCalls : Answered(c)'}
    BY DEF RemoteCalls, IsRemote
<1>3. CompletedIsAnswered' <=> \A c \in RemoteCalls : told'[c] = "completed" => Answered(c)'
    BY DEF CompletedIsAnswered, RemoteCalls, IsRemote
<1>4. Fits(outcome', answered') => CompletedIsAnswered'
    BY <1>2, <1>3 DEF ToldAs
<1>5. DOMAIN outcome = RemoteCalls
    OBVIOUS
<1> HIDE DEF outcome, answered
<1>6. CASE outcome' = outcome /\ answered \subseteq answered'
    BY <1>1, <1>4, <1>6
<1>7. ASSUME NEW c \in RemoteCalls, NEW o, answered' = answered,
             o = "completed" => c \in answered,
             outcome' = [outcome EXCEPT ![c] = o]
      PROVE  CompletedIsAnswered'
    BY <1>1, <1>4, <1>5, <1>7
<1>8. CASE UNCHANGED Call!callVars
    BY <1>6, <1>8 DEF Call!callVars, outcome, answered
<1>9. ASSUME NEW c \in RemoteCalls, Call!Ask(c) \/ Call!AnswerAtPeer(c)
      PROVE  CompletedIsAnswered'
    BY <1>6, <1>9 DEF Call!Ask, Call!AnswerAtPeer, outcome, answered
<1>10. ASSUME NEW c \in RemoteCalls, Call!Refuse(c) \/ Call!Tell(c)
       PROVE  CompletedIsAnswered'
    BY <1>7, <1>10 DEF Call!Refuse, Call!Tell, outcome, answered
<1> QED
    BY <1>8, <1>9, <1>10 DEF Call!Next

\* A caller that was told "completed" has an answer of the peer, however late
\* its request arrived and whatever the peer lost at its restarts.
THEOREM CompletionsAreTrue == Spec => []CompletedIsAnswered
<1>1. Init => CompletedIsAnswered
    BY BridgeFacts DEF Init, BridgeInit, CompletedIsAnswered, RemoteCalls
<1>2. Call!Spec => [][Call!Next]_(Call!callVars)
    BY PTL DEF Call!Spec
<1> QED
    BY <1>1, <1>2, RemoteCallsAreSafe, CallsKeepAnswers, PTL DEF Spec

=============================================================================
