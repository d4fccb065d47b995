------------------------ MODULE HermesExecutorProofs ------------------------
(***************************************************************************)
(* The executor with its fleet controller, for any number of requests,     *)
(* profiles and peers: type correctness, exclusive use of profiles,        *)
(* exactness of the availability tracker, the refinement of ProfileSlots,  *)
(* peers that are connected when they are routed to, the places of the     *)
(* registry, requests that reach the peer they name, the truth of the      *)
(* audit trail, and what a caller is told.                                 *)
(***************************************************************************)
EXTENDS HermesExecutor, FleetControllerProofs, FiniteSetTheorems, SequenceTheorems

-----------------------------------------------------------------------------
(* Type correctness.                                                       *)

\* Writing audit entries, all or only the first ones, keeps the trail a
\* sequence of entries.
LEMMA SafeLogKeepsType ==
    ASSUME audit \in [Requests -> Seq(AuditEntry)], NEW r \in Requests,
           NEW entries \in Seq(AuditEntry), SafeLog(r, entries)
    PROVE  audit' \in [Requests -> Seq(AuditEntry)]
<1>1. PICK written \in 0 .. Len(entries) :
          audit' = [audit EXCEPT ![r] = @ \o SubSeq(entries, 1, written)]
    <2>1. Len(entries) \in 0 .. Len(entries)
        BY LenProperties
    <2> QED
        BY <2>1, Zenon DEF SafeLog
<1>2. SubSeq(entries, 1, written) \in Seq(AuditEntry)
    BY LenProperties, ElementOfSeq, SubSeqProperties
<1>3. audit[r] \o SubSeq(entries, 1, written) \in Seq(AuditEntry)
    BY <1>2, ConcatProperties
<1> QED
    BY <1>1, <1>3

\* Enqueueing an event keeps the queue a sequence of events.
LEMMA EnqueueKeepsType ==
    ASSUME events \in [Requests -> Seq({"message", "status"})], NEW r \in Requests,
           NEW event \in {"message", "status"}, Enqueue(r, event)
    PROVE  events' \in [Requests -> Seq({"message", "status"})]
BY DEF Enqueue

\* The entries the coroutines write are audit entries.
LEMMA EntriesAreAuditEntries ==
    /\ <<"task_submitted", "task_in_progress">> \in Seq(AuditEntry)
    /\ <<"task_submitted", "task_failed">> \in Seq(AuditEntry)
    /\ <<"task_failed">> \in Seq(AuditEntry)
    /\ <<"message_sent", "task_completed">> \in Seq(AuditEntry)
    /\ <<"message_sent", "task_failed">> \in Seq(AuditEntry)
    /\ <<"task_in_progress", "orchestrator_recruit">> \in Seq(AuditEntry)
    /\ <<"task_cancelled">> \in Seq(AuditEntry)
BY DEF AuditEntry

\* A node starts with its variables of their types.
LEMMA InitIsTyped == Init => TypeOK
BY FleetAssumption, ExecutorAssumption
   DEF Init, TypeOK, FleetTypeOK, ExecutePoints, AuditEntry

\* Routing a request changes its pc, dispatch, result and audit, and the
\* busy profiles.
LEMMA ExecuteKeepsType ==
    ASSUME TypeOK, NEW r \in Requests, NEW intent \in Requested, Execute(r, intent)
    PROVE  TypeOK'
<1> DEFINE decision == Route(intent)
<1>1. /\ decision \in ProfileDispatch
      /\ decision.status = "dispatched" => decision.profile_name \in Profiles
    BY RouteIsRight, ExecutorAssumption DEF TypeOK
<1>2. busy' \subseteq Profiles
    <2>1. busy' = IF decision.status = "dispatched"
                    THEN busy \cup {decision.profile_name} ELSE busy
        BY DEF Execute, MarkBusy
    <2> QED
        BY <1>1, <2>1 DEF TypeOK, FleetTypeOK
<1>3. dispatch' \in [Requests -> ProfileDispatch \cup {None}]
    <2>1. dispatch' = [dispatch EXCEPT ![r] = decision]
        BY DEF Execute
    <2> QED
        BY <1>1, <2>1 DEF TypeOK
<1>4. /\ \/ UNCHANGED audit
         \/ SafeLog(r, <<"task_submitted", "task_in_progress">>)
      /\ \/ UNCHANGED result
         \/ \E res \in Results : result' = [result EXCEPT ![r] = res]
      /\ \E point \in ExecutePoints : pc' = [pc EXCEPT ![r] = point]
    BY DEF Execute, Goto, Finish, Results, ExecutePoints
<1>5. audit' \in [Requests -> Seq(AuditEntry)]
    BY <1>4, SafeLogKeepsType, EntriesAreAuditEntries DEF TypeOK
<1>6. /\ pc' \in [Requests -> ExecutePoints]
      /\ result' \in [Requests -> Results \cup {None}]
    BY <1>4 DEF TypeOK
<1>7. UNCHANGED <<capabilities, meshVars, events, cancelPc>>
    BY DEF Execute
<1> QED
    BY <1>2, <1>3, <1>5, <1>6, <1>7 DEF TypeOK, FleetTypeOK, meshVars

\* The steps after the dispatch change only the variables of one request,
\* and free at most its profile.
LEMMA ProceedKeepsType ==
    ASSUME TypeOK, NEW r \in Requests, Proceed(r)
    PROVE  TypeOK'
<1> USE DEF TypeOK, FleetTypeOK, fleetVars, meshVars, Goto, ExecutePoints
<1>1. CASE Reject(r)
    BY <1>1, SafeLogKeepsType, EnqueueKeepsType, EntriesAreAuditEntries DEF Reject
<1>2. CASE LocalReturn(r)
    BY <1>2, ExecutorAssumption DEF LocalReturn, Finish, AfterResult, Results
<1>3. CASE RemoteReturn(r)
    BY <1>3 DEF RemoteReturn, Finish, AfterResult, Results
<1>4. CASE AnswerRaised(r)
    BY <1>4, SafeLogKeepsType, EnqueueKeepsType, EntriesAreAuditEntries
       DEF AnswerRaised, Release
<1>5. CASE AnswerResult(r)
    BY <1>5, SafeLogKeepsType, EnqueueKeepsType, EntriesAreAuditEntries
       DEF AnswerResult, OutcomeEntry, Release
<1>6. CASE AskForInput(r)
    BY <1>6, SafeLogKeepsType, EnqueueKeepsType, EntriesAreAuditEntries DEF AskForInput
<1> QED
    BY <1>1, <1>2, <1>3, <1>4, <1>5, <1>6 DEF Proceed

\* So do failing awaits and cancellations, which free nothing.
LEMMA CancelKeepsType ==
    ASSUME TypeOK, NEW r \in Requests,
           AwaitFails(r) \/ StartCancel(r) \/ Cancel(r) \/ CancelAwaitFails(r)
    PROVE  TypeOK'
<1> USE DEF TypeOK, FleetTypeOK, fleetVars, meshVars, Goto, CancelTo, ExecutePoints
<1>1. CASE AwaitFails(r)
    BY <1>1 DEF AwaitFails
<1>2. CASE StartCancel(r)
    BY <1>2 DEF StartCancel
<1>3. CASE CancelStatus(r)
    BY <1>3, EnqueueKeepsType DEF CancelStatus
<1>4. CASE CancelMessage(r)
    BY <1>4, SafeLogKeepsType, EnqueueKeepsType, EntriesAreAuditEntries DEF CancelMessage
<1>5. CASE CancelAwaitFails(r)
    BY <1>5 DEF CancelAwaitFails
<1> QED
    BY <1>1, <1>2, <1>3, <1>4, <1>5 DEF Cancel

\* A peer that connects, and each of its skills that is registered, keeps the
\* types: the registry stays a sequence of capabilities.
LEMMA PeersKeepType ==
    ASSUME TypeOK, NEW peer \in Peers, ConnectPeer(peer) \/ RegisterSkill(peer)
    PROVE  TypeOK'
<1>1. CASE ConnectPeer(peer)
    BY <1>1 DEF ConnectPeer, TypeOK, FleetTypeOK, fleetVars, taskVars
<1>2. CASE RegisterSkill(peer)
    <2>1. /\ Head(unread[peer]) \in Capability
          /\ Tail(unread[peer]) \in Seq(Capability)
        BY <1>2, HeadTailProperties DEF RegisterSkill, TypeOK
    <2>2. capabilities' \in Seq(Capability)
        BY <1>2, <2>1, RegisterKeepsType DEF RegisterSkill, TypeOK
    <2> QED
        BY <1>2, <2>1, <2>2 DEF RegisterSkill, TypeOK, FleetTypeOK, taskVars
<1> QED
    BY <1>1, <1>2

\* So does every step.
LEMMA NextKeepsType == TypeOK /\ [Next]_vars => TypeOK'
<1> SUFFICES ASSUME TypeOK, [Next]_vars PROVE TypeOK'
    OBVIOUS
<1>1. CASE UNCHANGED vars
    BY <1>1 DEF TypeOK, FleetTypeOK, vars, fleetVars, meshVars, taskVars
<1>2. CASE Next
    BY <1>1, <1>2, ExecuteKeepsType, ProceedKeepsType, CancelKeepsType, PeersKeepType
       DEF Next, Finished
<1> QED
    BY <1>1, <1>2

\* The variables of the executor and of its fleet controller always have
\* their types.
THEOREM TypeCorrect == Spec => []TypeOK
BY InitIsTyped, NextKeepsType, PTL DEF Spec

\* What is proved of routing holds in every state of a node, whatever peers
\* have registered by then and whichever profiles are busy: every request is
\* routed to a free profile that fits it, at home first, and refused as
\* unavailable only if discover() finds none.
THEOREM RequestsAreRoutedRight ==
    Spec => [](DispatchIsRight /\ LocalFirst /\ RouteAgreesWithDiscover)
<1>1. TypeOK => FleetTypeOK
    BY DEF TypeOK
<1> QED
    BY <1>1, TypeCorrect, DispatchesRight, LocalGoesFirst, RouteAndDiscoverAgree, PTL

-----------------------------------------------------------------------------
(* Exclusive profiles.  NoOvercommit is not inductive alone: that a claim  *)
(* is exclusive follows from the guard of route(), which looks at busy, so *)
(* busy must be known to name every claimed profile (BusyIsHeld), and a    *)
(* coroutine about to release must be known to hold what it releases       *)
(* (PcMatchesDispatch).                                                    *)

PcMatchesDispatch ==
    \A r \in Requests :
      /\ dispatch[r] = None => pc[r] \in {"new", "lost"}
      /\ pc[r] \in {"local", "remote", "raising", "answering", "asking", "asked"}
           => dispatch[r].status = "dispatched"
      /\ pc[r] = "rejecting" => dispatch[r].status # "dispatched"

SlotInv == TypeOK /\ PcMatchesDispatch /\ NoOvercommit /\ BusyIsHeld

Same(r) ==
    /\ Holds(r)' <=> Holds(r)
    /\ Holds(r) => Claimed(r)' = Claimed(r)

Others(r) == \A q \in Requests \ {r} : Same(q)

\* The three things a step can do to the profiles.
Keeps == busy' = busy /\ \A q \in Requests : Same(q)

Takes(r) ==
    /\ ~ Holds(r) /\ Holds(r)'
    /\ Claimed(r)' \in Profiles \ busy
    /\ busy' = busy \cup {Claimed(r)'}
    /\ Others(r)

Frees(r) ==
    /\ Holds(r) /\ ~ Holds(r)'
    /\ busy' = busy \ {Claimed(r)}
    /\ events'[r] = Append(events[r], "message")
    /\ Others(r)

\* A step that leaves the pc and the dispatch of every other request alone
\* leaves what they hold alone.
LEMMA OthersAreLeftAlone ==
    ASSUME TypeOK, NEW r \in Requests, NEW d,
           \/ pc' = pc
           \/ \E point \in ExecutePoints : pc' = [pc EXCEPT ![r] = point],
           dispatch' = dispatch \/ dispatch' = [dispatch EXCEPT ![r] = d]
    PROVE  Others(r)
<1> SUFFICES ASSUME NEW q \in Requests \ {r} PROVE Same(q)
    BY DEF Others
<1>1. pc'[q] = pc[q] /\ dispatch'[q] = dispatch[q]
    BY DEF TypeOK
<1> QED
    BY <1>1 DEF Same, Holds, Claimed

\* Routing a request takes the profile it names, or nothing.
LEMMA ExecuteTakesOrKeeps ==
    ASSUME TypeOK, PcMatchesDispatch,
           NEW r \in Requests, NEW intent \in Requested, Execute(r, intent)
    PROVE  /\ Takes(r) \/ Keeps
           /\ PcMatchesDispatch'
<1> DEFINE decision == Route(intent)
<1>1. /\ decision \in ProfileDispatch
      /\ decision.status = "dispatched" => decision.profile_name \in Profiles \ busy
    BY RouteIsRight, ExecutorAssumption DEF TypeOK
<1>2. decision # None
    BY <1>1, ExecutorAssumption
<1>3. /\ pc[r] = "new"
      /\ dispatch' = [dispatch EXCEPT ![r] = decision]
      /\ busy' = IF decision.status = "dispatched"
                   THEN busy \cup {decision.profile_name} ELSE busy
    BY DEF Execute, MarkBusy
<1>4. /\ dispatch'[r] = decision
      /\ \A q \in Requests \ {r} : dispatch'[q] = dispatch[q]
    BY <1>3 DEF TypeOK
<1>5. ~ Holds(r)
    BY <1>3 DEF Holds
<1>6. CASE decision.status # "dispatched"
    <2>1. pc' = [pc EXCEPT ![r] = "rejecting"]
        BY <1>6 DEF Execute, Goto
    <2>2. pc'[r] = "rejecting" /\ \A q \in Requests \ {r} : pc'[q] = pc[q]
        BY <2>1 DEF TypeOK
    <2>3. ~ Holds(r)'
        BY <2>2 DEF Holds
    <2>4. Others(r)
        BY <1>3, <2>1, OthersAreLeftAlone DEF ExecutePoints
    <2>5. Keeps
        BY <1>3, <1>5, <1>6, <2>3, <2>4 DEF Keeps, Others, Same
    <2>6. PcMatchesDispatch'
        BY <1>2, <1>4, <1>6, <2>2 DEF PcMatchesDispatch
    <2> QED
        BY <2>5, <2>6
<1>7. CASE decision.status = "dispatched"
    <2>1. PICK point \in {"local", "raising", "answering", "remote"} :
              pc' = [pc EXCEPT ![r] = point]
        BY <1>7 DEF Execute, Goto, Finish
    <2>2. pc'[r] = point /\ \A q \in Requests \ {r} : pc'[q] = pc[q]
        BY <2>1 DEF TypeOK
    <2>3. Holds(r)' /\ Claimed(r)' = decision.profile_name
        BY <1>2, <1>4, <1>7, <2>2 DEF Holds, Claimed
    <2>4. Others(r)
        BY <1>3, <2>1, OthersAreLeftAlone DEF ExecutePoints
    <2>5. Takes(r)
        BY <1>1, <1>3, <1>5, <1>7, <2>3, <2>4 DEF Takes
    <2>6. PcMatchesDispatch'
        BY <1>2, <1>4, <1>7, <2>2 DEF PcMatchesDispatch
    <2> QED
        BY <2>5, <2>6
<1> QED
    BY <1>6, <1>7

\* A step of one coroutine that keeps its dispatch, and moves it between
\* points that hold alike, keeps the profiles.
LEMMA MovingKeeps ==
    ASSUME TypeOK, NEW r \in Requests, NEW point \in ExecutePoints,
           pc' = [pc EXCEPT ![r] = point],
           dispatch' = dispatch, busy' = busy,
           Holds(r)' <=> Holds(r)
    PROVE  Keeps
<1>1. Others(r)
    BY OthersAreLeftAlone
<1>2. Same(r)
    BY DEF Same, Claimed
<1> QED
    BY <1>1, <1>2 DEF Keeps, Others

\* Answering a dispatched request frees its profile.
LEMMA AnsweringFrees ==
    ASSUME TypeOK, NEW r \in Requests, Holds(r),
           pc' = [pc EXCEPT ![r] = "done"], dispatch' = dispatch,
           Release(dispatch[r].profile_name), Enqueue(r, "message")
    PROVE  Frees(r)
<1>1. Others(r)
    BY OthersAreLeftAlone DEF ExecutePoints
<1>2. pc'[r] = "done"
    BY DEF TypeOK
<1>3. ~ Holds(r)'
    BY <1>2 DEF Holds
<1>4. busy' = busy \ {Claimed(r)}
    BY DEF Release, Claimed
<1>5. events'[r] = Append(events[r], "message")
    BY DEF Enqueue, TypeOK
<1> QED
    BY <1>1, <1>3, <1>4, <1>5 DEF Frees

\* The steps after the dispatch keep the profiles, or free that of their own
\* request.
LEMMA ProceedFreesOrKeeps ==
    ASSUME TypeOK, PcMatchesDispatch, NEW r \in Requests, Proceed(r)
    PROVE  /\ Frees(r) \/ Keeps
           /\ PcMatchesDispatch'
<1>1. CASE Reject(r)
    <2>1. pc[r] = "rejecting" /\ pc' = [pc EXCEPT ![r] = "done"]
        BY <1>1 DEF Reject, Goto
    <2>2. dispatch' = dispatch /\ busy' = busy
        BY <1>1 DEF Reject, fleetVars
    <2>3. pc'[r] = "done" /\ \A q \in Requests \ {r} : pc'[q] = pc[q]
        BY <2>1 DEF TypeOK
    <2>4. Keeps
        BY <2>1, <2>2, <2>3, MovingKeeps DEF Holds, ExecutePoints
    <2>5. PcMatchesDispatch'
        BY <2>1, <2>2, <2>3 DEF PcMatchesDispatch
    <2> QED
        BY <2>4, <2>5
<1>2. CASE LocalReturn(r) \/ RemoteReturn(r)
    <2>1. /\ pc[r] \in {"local", "remote"}
          /\ \E point \in {"raising", "asking", "answering"} :
                pc' = [pc EXCEPT ![r] = point]
        BY <1>2 DEF LocalReturn, RemoteReturn, Finish, Goto, AfterResult
    <2>2. dispatch' = dispatch /\ busy' = busy
        BY <1>2 DEF LocalReturn, RemoteReturn, fleetVars
    <2>3. PICK point \in {"raising", "asking", "answering"} :
              pc' = [pc EXCEPT ![r] = point]
        BY <2>1
    <2>4. pc'[r] = point /\ \A q \in Requests \ {r} : pc'[q] = pc[q]
        BY <2>3 DEF TypeOK
    <2>5. Keeps
        BY <2>1, <2>2, <2>3, <2>4, MovingKeeps DEF Holds, ExecutePoints
    <2>6. PcMatchesDispatch'
        BY <2>1, <2>2, <2>4 DEF PcMatchesDispatch
    <2> QED
        BY <2>5, <2>6
<1>3. CASE AnswerRaised(r) \/ AnswerResult(r)
    <2>1. /\ pc[r] \in {"raising", "answering"}
          /\ pc' = [pc EXCEPT ![r] = "done"]
          /\ dispatch' = dispatch
          /\ Release(dispatch[r].profile_name)
          /\ Enqueue(r, "message")
        BY <1>3 DEF AnswerRaised, AnswerResult, Goto
    <2>2. Holds(r)
        BY <2>1 DEF Holds, PcMatchesDispatch
    <2>3. pc'[r] = "done" /\ \A q \in Requests \ {r} : pc'[q] = pc[q]
        BY <2>1 DEF TypeOK
    <2>4. PcMatchesDispatch'
        BY <2>1, <2>3 DEF PcMatchesDispatch
    <2> QED
        BY <2>1, <2>2, <2>4, AnsweringFrees
<1>4. CASE AskForInput(r)
    <2>1. pc[r] = "asking" /\ pc' = [pc EXCEPT ![r] = "asked"]
        BY <1>4 DEF AskForInput, Goto
    <2>2. dispatch' = dispatch /\ busy' = busy
        BY <1>4 DEF AskForInput, fleetVars
    <2>3. pc'[r] = "asked" /\ \A q \in Requests \ {r} : pc'[q] = pc[q]
        BY <2>1 DEF TypeOK
    <2>4. Keeps
        BY <2>1, <2>2, <2>3, MovingKeeps DEF Holds, ExecutePoints
    <2>5. PcMatchesDispatch'
        BY <2>1, <2>2, <2>3 DEF PcMatchesDispatch
    <2> QED
        BY <2>4, <2>5
<1> QED
    BY <1>1, <1>2, <1>3, <1>4 DEF Proceed

\* Failing awaits, cancellations and peers keep the profiles: a coroutine
\* that is lost goes on holding what it held.
LEMMA RestKeeps ==
    ASSUME TypeOK, PcMatchesDispatch,
           \/ \E r \in Requests : \/ AwaitFails(r) \/ StartCancel(r)
                                  \/ Cancel(r) \/ CancelAwaitFails(r)
           \/ \E peer \in Peers : ConnectPeer(peer) \/ RegisterSkill(peer)
           \/ UNCHANGED vars
    PROVE  Keeps /\ PcMatchesDispatch'
<1>1. ASSUME NEW r \in Requests, AwaitFails(r)
      PROVE  Keeps /\ PcMatchesDispatch'
    <2>1. /\ pc[r] \in {"rejecting", "remote", "raising", "answering", "asking"}
          /\ pc' = [pc EXCEPT ![r] = "lost"]
          /\ dispatch' = dispatch /\ busy' = busy
        BY <1>1 DEF AwaitFails, Goto, fleetVars
    <2>2. pc'[r] = "lost" /\ \A q \in Requests \ {r} : pc'[q] = pc[q]
        BY <2>1 DEF TypeOK
    <2>3. Holds(r)' <=> Holds(r)
        BY <2>1, <2>2 DEF Holds, PcMatchesDispatch
    <2>4. Keeps
        BY <2>1, <2>3, MovingKeeps DEF ExecutePoints
    <2>5. PcMatchesDispatch'
        BY <2>1, <2>2 DEF PcMatchesDispatch
    <2> QED
        BY <2>4, <2>5
<1>2. SUFFICES ASSUME pc' = pc, dispatch' = dispatch, busy' = busy
               PROVE  Keeps /\ PcMatchesDispatch'
    BY <1>1 DEF StartCancel, Cancel, CancelStatus, CancelMessage, CancelAwaitFails,
                ConnectPeer, RegisterSkill, vars, fleetVars, taskVars
<1> QED
    BY <1>2 DEF Keeps, Same, Holds, Claimed, PcMatchesDispatch

\* Every step takes one free profile for a request, frees the profile of a
\* request as it is answered, or keeps the profiles as they are.
LEMMA StepKinds ==
    ASSUME TypeOK, PcMatchesDispatch, [Next]_vars
    PROVE  /\ Keeps \/ \E r \in Requests : Takes(r) \/ Frees(r)
           /\ PcMatchesDispatch'
<1>1. CASE \E r \in Requests : \E intent \in Requested : Execute(r, intent)
    BY <1>1, ExecuteTakesOrKeeps
<1>2. CASE \E r \in Requests : Proceed(r)
    BY <1>2, ProceedFreesOrKeeps
<1> QED
    BY <1>1, <1>2, RestKeeps DEF Next, Finished

\* At the start nobody holds a profile and none is busy.
LEMMA InitSlotInv == Init => SlotInv
<1> SUFFICES ASSUME Init PROVE SlotInv
    OBVIOUS
<1>1. \A r \in Requests : pc[r] = "new" /\ dispatch[r] = None /\ ~ Holds(r)
    BY DEF Init, Holds
<1>2. PcMatchesDispatch
    BY <1>1 DEF PcMatchesDispatch
<1>3. NoOvercommit
    BY <1>1 DEF NoOvercommit
<1>4. BusyIsHeld
    BY <1>1 DEF BusyIsHeld, Init
<1> QED
    BY <1>2, <1>3, <1>4, InitIsTyped DEF SlotInv

\* Every step keeps the invariant, by its kind: it keeps the claims, takes a free
\* profile or frees the profile of the task it answers.
LEMMA NextKeepsSlotInv == SlotInv /\ [Next]_vars => SlotInv'
<1> SUFFICES ASSUME SlotInv, [Next]_vars PROVE SlotInv'
    OBVIOUS
<1>1. TypeOK' /\ PcMatchesDispatch'
    BY NextKeepsType, StepKinds DEF SlotInv
<1>2. CASE Keeps
    <2>1. NoOvercommit'
        BY <1>2 DEF SlotInv, NoOvercommit, Keeps, Same
    <2>2. BusyIsHeld'
        <3>1. {Claimed(r)' : r \in {q \in Requests : Holds(q)'}}
                = {Claimed(r) : r \in {q \in Requests : Holds(q)}}
            BY <1>2 DEF Keeps, Same
        <3> QED
            BY <1>2, <3>1 DEF SlotInv, BusyIsHeld, Keeps
    <2> QED
        BY <1>1, <2>1, <2>2 DEF SlotInv
<1>3. ASSUME NEW r \in Requests, Takes(r) PROVE SlotInv'
    <2>1. \A q \in Requests : Holds(q) => Claimed(q) \in busy
        BY DEF SlotInv, BusyIsHeld
    <2>2. NoOvercommit'
        BY <1>3, <2>1 DEF SlotInv, NoOvercommit, Takes, Others, Same
    <2>3. BusyIsHeld'
        <3>1. \A p : p \in busy' <=> \E q \in Requests : Holds(q)' /\ Claimed(q)' = p
            BY <1>3 DEF SlotInv, BusyIsHeld, Takes, Others, Same
        <3> QED
            BY <3>1 DEF BusyIsHeld
    <2> QED
        BY <1>1, <2>2, <2>3 DEF SlotInv
<1>4. ASSUME NEW r \in Requests, Frees(r) PROVE SlotInv'
    <2>1. NoOvercommit'
        BY <1>4 DEF SlotInv, NoOvercommit, Frees, Others, Same
    <2>2. BusyIsHeld'
        <3>1. \A p : p \in busy' <=> \E q \in Requests : Holds(q)' /\ Claimed(q)' = p
            BY <1>4 DEF SlotInv, BusyIsHeld, NoOvercommit, Frees, Others, Same
        <3> QED
            BY <3>1 DEF BusyIsHeld
    <2> QED
        BY <1>1, <2>1, <2>2 DEF SlotInv
<1> QED
    BY <1>2, <1>3, <1>4, StepKinds DEF SlotInv

\* The profiles are claimed by one task each, and exactly the claimed ones are
\* busy, whatever execute(), cancel() and the connecting peers do.
THEOREM SlotInvariant == Spec => []SlotInv
BY InitSlotInv, NextKeepsSlotInv, PTL DEF Spec

\* Two tasks never work with the same profile.
THEOREM Exclusive == Spec => []NoOvercommit
<1>1. SlotInv => NoOvercommit
    BY DEF SlotInv
<1> QED
    BY <1>1, SlotInvariant, PTL

\* The availability tracker names exactly the profiles that tasks hold.
THEOREM TrackerIsExact == Spec => []BusyIsHeld
<1>1. SlotInv => BusyIsHeld
    BY DEF SlotInv
<1> QED
    BY <1>1, SlotInvariant, PTL

\* A profile becomes free only as its own task is answered.
THEOREM FreedOnlyWithTheAnswer == Spec => FreedWithTheAnswer
<1> DEFINE Freed == \A p \in busy \ busy' :
                      \E r \in Requests :
                        /\ Holds(r)
                        /\ Claimed(r) = p
                        /\ ~ Holds(r)'
                        /\ events'[r] = Append(events[r], "message")
<1>1. SlotInv /\ [Next]_vars => Freed
    <2> SUFFICES ASSUME SlotInv, [Next]_vars PROVE Freed
        OBVIOUS
    <2>1. Keeps \/ \E r \in Requests : Takes(r) \/ Frees(r)
        BY StepKinds DEF SlotInv
    <2> QED
        BY <2>1 DEF Keeps, Takes, Frees
<1>2. SlotInv /\ [Next]_vars => [Freed]_vars
    BY <1>1
<1> HIDE DEF Freed
<1>3. Spec => [][Freed]_vars
    BY <1>2, SlotInvariant, PTL DEF Spec
<1> QED
    BY <1>3 DEF FreedWithTheAnswer, Freed

-----------------------------------------------------------------------------
(* Peers: what can be routed to can be called.                             *)

\* Profiles are registered under this node, and the skills of a peer's card
\* under that peer (__init__.py:592, mesh_peer_client.py:338).
OwnersAreRight ==
    /\ \A i \in DOMAIN InitialCapabilities : InitialCapabilities[i].node_id = LocalNode
    /\ \A peer \in Peers : \A i \in DOMAIN Skills[peer] : Skills[peer][i].node_id = peer

\* The skills a card still holds are those of its peer.
UnreadAreOwn ==
    \A peer \in Peers : \A i \in DOMAIN unread[peer] : unread[peer][i].node_id = peer

\* Registering leaves the new capability and old ones, and nothing else.
LEMMA RegisteredAreOldOrNew ==
    ASSUME FleetTypeOK, NEW cap \in Capability, RegisterProfile(cap)
    PROVE  \A i \in DOMAIN capabilities' :
             \/ capabilities'[i] = cap
             \/ i \in DOMAIN capabilities /\ capabilities'[i] = capabilities[i]
<1> DEFINE known == Registered(cap.profile_name)
<1>1. CASE known = {}
    BY <1>1 DEF RegisterProfile, FleetTypeOK
<1>2. CASE known # {}
    <2>1. capabilities' = [i \in DOMAIN capabilities |->
                             IF i \in known THEN cap ELSE capabilities[i]]
        BY <1>2, Zenon DEF RegisterProfile
    <2> QED
        BY <2>1
<1> QED
    BY <1>1, <1>2

\* No step makes a peer's capability routable before its client is there: a
\* skill is registered only after connect_peer() has kept the client.
LEMMA NextKeepsRoutable ==
    ASSUME TypeOK, UnreadAreOwn, RoutablePeersAreConnected, [Next]_vars
    PROVE  UnreadAreOwn' /\ RoutablePeersAreConnected'
<1>1. CASE UNCHANGED <<capabilities, meshVars>>
    BY <1>1 DEF meshVars, UnreadAreOwn, RoutablePeersAreConnected
<1>2. ASSUME NEW peer \in Peers, ConnectPeer(peer)
      PROVE  UnreadAreOwn' /\ RoutablePeersAreConnected'
    BY <1>2 DEF ConnectPeer, fleetVars, UnreadAreOwn, RoutablePeersAreConnected
<1>3. ASSUME NEW peer \in Peers, RegisterSkill(peer)
      PROVE  UnreadAreOwn' /\ RoutablePeersAreConnected'
    <2> DEFINE skills == unread[peer]
               cap    == Head(skills)
    <2>1. /\ peer \in connected /\ connected' = connected
          /\ skills \in Seq(Capability) /\ skills # <<>>
          /\ unread' = [unread EXCEPT ![peer] = Tail(skills)]
          /\ RegisterProfile(cap)
        BY <1>3 DEF RegisterSkill, TypeOK
    <2>2. cap \in Capability /\ cap = skills[1] /\ 1 \in DOMAIN skills
        BY <2>1
    <2>3. \A i \in DOMAIN Tail(skills) : i + 1 \in DOMAIN skills /\ Tail(skills)[i] = skills[i + 1]
        BY <2>1
    <2>4. UnreadAreOwn'
        BY <2>1, <2>3 DEF UnreadAreOwn, TypeOK
    <2>5. cap.node_id = peer
        BY <2>2 DEF UnreadAreOwn
    <2>6. RoutablePeersAreConnected'
        BY <2>1, <2>2, <2>5, RegisteredAreOldOrNew DEF TypeOK, RoutablePeersAreConnected
    <2> QED
        BY <2>4, <2>6
<1>4. CASE \E r \in Requests : \/ \E intent \in Requested : Execute(r, intent)
                               \/ Proceed(r) \/ AwaitFails(r) \/ StartCancel(r)
                               \/ Cancel(r) \/ CancelAwaitFails(r)
    BY <1>1, <1>4 DEF Execute, Proceed, Reject, LocalReturn, RemoteReturn, AnswerRaised,
       AnswerResult, AskForInput, AwaitFails, StartCancel, Cancel, CancelStatus,
       CancelMessage, CancelAwaitFails, fleetVars
<1> QED
    BY <1>1, <1>2, <1>3, <1>4 DEF Next, Finished, vars, fleetVars

\* A profile that can be routed to is this node's own or of a peer whose client
\* is there, while cards are read skill by skill under the requests.
THEOREM RoutableAreConnected ==
    ASSUME OwnersAreRight
    PROVE  Spec => []RoutablePeersAreConnected
<1>1. Init => UnreadAreOwn /\ RoutablePeersAreConnected
    BY DEF OwnersAreRight, Init, UnreadAreOwn, RoutablePeersAreConnected
<1> QED
    BY <1>1, NextKeepsRoutable, TypeCorrect, PTL DEF Spec

-----------------------------------------------------------------------------
(* The audit trail.  It depends on where the coroutine stands: no outcome  *)
(* is there before the end, and the end records what the result was.       *)

\* What the trail of a request that is over says.
ToldInFull(r) ==
    /\ \A i \in Outcomes(r) :
         /\ audit[r][i] = "task_completed" <=> result[r] = "completed"
         /\ \A j \in DOMAIN audit[r] : j > i => audit[r][j] = "task_cancelled"
    /\ ~ AuditMayFail =>
         \E i \in Outcomes(r) : \E j \in 1 .. i : audit[r][j] = "task_submitted"

Opened(r) == \E j \in DOMAIN audit[r] : audit[r][j] = "task_submitted"

TrailIsRight(r) ==
    /\ pc[r] # "done" => Outcomes(r) = {}
    /\ pc[r] \in {"new", "rejecting", "raising"} => result[r] # "completed"
    /\ pc[r] \in {"local", "remote", "raising", "answering"} /\ ~ AuditMayFail => Opened(r)
    /\ pc[r] = "done" => ToldInFull(r)

TrailInv == \A r \in Requests : TrailIsRight(r)

\* The trail of a request is extended by a beginning of the entries, by all of
\* them when writing cannot fail.
LEMMA SafeLogExtends ==
    ASSUME TypeOK, NEW r \in Requests, NEW entries \in Seq(AuditEntry), SafeLog(r, entries)
    PROVE  /\ \A q \in Requests \ {r} : audit'[q] = audit[q]
           /\ \E n \in 0 .. Len(entries) :
                /\ ~ AuditMayFail => n = Len(entries)
                /\ DOMAIN audit'[r] = 1 .. Len(audit[r]) + n
                /\ \A i \in 1 .. Len(audit[r]) : audit'[r][i] = audit[r][i]
                /\ \A i \in 1 .. n : audit'[r][Len(audit[r]) + i] = entries[i]
<1> DEFINE trail == audit[r]
<1>1. trail \in Seq(AuditEntry) /\ Len(trail) \in Nat /\ Len(entries) \in Nat
    BY DEF TypeOK
<1>2. PICK n \in 0 .. Len(entries) :
        /\ ~ AuditMayFail => n = Len(entries)
        /\ audit' = [audit EXCEPT ![r] = trail \o SubSeq(entries, 1, n)]
    <2>1. Len(entries) \in 0 .. Len(entries)
        BY <1>1
    <2>2. CASE AuditMayFail
        BY <2>2, Zenon DEF SafeLog
    <2>3. CASE ~ AuditMayFail
        BY <2>1, <2>3, Zenon DEF SafeLog
    <2> QED
        BY <2>2, <2>3
<1>3. /\ SubSeq(entries, 1, n) \in Seq(AuditEntry)
      /\ Len(SubSeq(entries, 1, n)) = n
      /\ \A i \in 1 .. n : SubSeq(entries, 1, n)[i] = entries[i]
    BY <1>1
<1>4. audit'[r] = trail \o SubSeq(entries, 1, n) /\ \A q \in Requests \ {r} : audit'[q] = audit[q]
    BY <1>2 DEF TypeOK
<1>5. /\ DOMAIN audit'[r] = 1 .. Len(trail) + n
      /\ \A i \in 1 .. Len(trail) : audit'[r][i] = trail[i]
      /\ \A i \in 1 .. n : audit'[r][Len(trail) + i] = SubSeq(entries, 1, n)[i]
    <2> DEFINE tail == SubSeq(entries, 1, n)
    <2>1. tail \in Seq(AuditEntry) /\ Len(tail) = n
        BY <1>3
    <2> HIDE DEF tail
    <2>2. /\ DOMAIN (trail \o tail) = 1 .. Len(trail) + n
          /\ \A i \in 1 .. Len(trail) : (trail \o tail)[i] = trail[i]
          /\ \A i \in 1 .. n : (trail \o tail)[Len(trail) + i] = tail[i]
        BY <1>1, <2>1
    <2> QED
        BY <1>4, <2>2 DEF tail
<1> QED
    BY <1>2, <1>3, <1>4, <1>5

\* Coroutines do not write each other's trails.
LEMMA OtherTrailsStay ==
    ASSUME NEW q \in Requests, TrailIsRight(q),
           pc'[q] = pc[q], result'[q] = result[q], audit'[q] = audit[q]
    PROVE  TrailIsRight(q)'
    BY DEF TrailIsRight, ToldInFull, Opened, Outcomes

\* Going on without writing, to a point that is not the end.
LEMMA MovingKeepsTrail ==
    ASSUME NEW r \in Requests, TrailIsRight(r), audit'[r] = audit[r],
           pc[r] # "done", pc'[r] # "done",
           pc'[r] \in {"new", "rejecting", "raising"} => result'[r] # "completed",
           pc'[r] \in {"local", "remote", "raising", "answering"} =>
             pc[r] \in {"local", "remote", "raising", "answering"}
    PROVE  TrailIsRight(r)'
    BY DEF TrailIsRight, Opened, Outcomes

\* An entry that is no outcome may be written anywhere.
LEMMA NotingKeepsTrail ==
    ASSUME TypeOK, NEW r \in Requests, TrailIsRight(r),
           SafeLog(r, <<"task_cancelled">>), UNCHANGED <<pc, result>>
    PROVE  TrailIsRight(r)'
<1>1. PICK n \in 0 .. 1 :
        /\ DOMAIN audit'[r] = 1 .. Len(audit[r]) + n
        /\ \A i \in 1 .. Len(audit[r]) : audit'[r][i] = audit[r][i]
        /\ \A i \in 1 .. n : audit'[r][Len(audit[r]) + i] = <<"task_cancelled">>[i]
    BY SafeLogExtends, EntriesAreAuditEntries
<1>2. /\ DOMAIN audit[r] = 1 .. Len(audit[r]) /\ Len(audit[r]) \in Nat
      /\ \A i \in DOMAIN audit'[r] : i \notin DOMAIN audit[r] => audit'[r][i] = "task_cancelled"
    BY <1>1 DEF TypeOK
<1>3. Outcomes(r)' = Outcomes(r)
    BY <1>1, <1>2 DEF Outcomes
<1>4. Opened(r) => Opened(r)'
    BY <1>1, <1>2 DEF Opened
<1>5. ToldInFull(r) => ToldInFull(r)'
    <2> SUFFICES ASSUME ToldInFull(r) PROVE ToldInFull(r)'
        OBVIOUS
    <2>1. ASSUME NEW i \in Outcomes(r)'
          PROVE  /\ audit'[r][i] = "task_completed" <=> result'[r] = "completed"
                 /\ \A j \in DOMAIN audit'[r] : j > i => audit'[r][j] = "task_cancelled"
        BY <1>1, <1>2, <1>3 DEF ToldInFull, Outcomes
    <2>2. ~ AuditMayFail =>
            \E i \in Outcomes(r)' : \E j \in 1 .. i : audit'[r][j] = "task_submitted"
        <3> SUFFICES ASSUME ~ AuditMayFail
                     PROVE  \E i \in Outcomes(r) : \E j \in 1 .. i :
                              audit'[r][j] = "task_submitted"
            BY <1>3
        <3>1. PICK i \in Outcomes(r) : \E j \in 1 .. i : audit[r][j] = "task_submitted"
            BY DEF ToldInFull
        <3>2. i \in 1 .. Len(audit[r])
            BY <1>2 DEF Outcomes
        <3>3. PICK j \in 1 .. i : audit[r][j] = "task_submitted"
            BY <3>1
        <3>4. j \in 1 .. Len(audit[r])
            BY <1>2, <3>2
        <3> QED
            BY <1>1, <3>3, <3>4
    <2> QED
        BY <2>1, <2>2 DEF ToldInFull
<1> QED
    BY <1>3, <1>4, <1>5 DEF TrailIsRight

\* A dispatch opens the trail: nothing in it is an outcome.
LEMMA OpeningKeepsTrail ==
    ASSUME TypeOK, NEW r \in Requests, Outcomes(r) = {},
           SafeLog(r, <<"task_submitted", "task_in_progress">>)
    PROVE  Outcomes(r)' = {} /\ (~ AuditMayFail => Opened(r)')
<1>1. PICK n \in 0 .. 2 :
        /\ ~ AuditMayFail => n = 2
        /\ DOMAIN audit'[r] = 1 .. Len(audit[r]) + n
        /\ \A i \in 1 .. Len(audit[r]) : audit'[r][i] = audit[r][i]
        /\ \A i \in 1 .. n : audit'[r][Len(audit[r]) + i] = <<"task_submitted", "task_in_progress">>[i]
    BY SafeLogExtends, EntriesAreAuditEntries
<1>2. DOMAIN audit[r] = 1 .. Len(audit[r]) /\ Len(audit[r]) \in Nat
    BY DEF TypeOK
<1>3. \A i \in DOMAIN audit'[r] :
        i \notin DOMAIN audit[r] => audit'[r][i] \in {"task_submitted", "task_in_progress"}
    BY <1>1, <1>2
<1>4. Outcomes(r)' = {}
    BY <1>1, <1>2, <1>3 DEF Outcomes
<1>5. ~ AuditMayFail => Opened(r)'
    BY <1>1, <1>2 DEF Opened
<1> QED
    BY <1>4, <1>5

\* The end of a request: one entry, or two, of which the last is its outcome.
LEMMA EndingTellsInFull ==
    ASSUME TypeOK, NEW r \in Requests, Outcomes(r) = {}, pc'[r] = "done",
           NEW first \in {"task_submitted", "message_sent"},
           NEW outcome \in {"task_completed", "task_failed"},
           outcome = "task_completed" <=> result'[r] = "completed",
           \/ /\ SafeLog(r, <<outcome>>)
              /\ ~ AuditMayFail => Opened(r)
           \/ /\ SafeLog(r, <<first, outcome>>)
              /\ ~ AuditMayFail => Opened(r) \/ first = "task_submitted"
    PROVE  TrailIsRight(r)'
<1> DEFINE len == Len(audit[r])
<1>1. DOMAIN audit[r] = 1 .. len /\ len \in Nat
    BY DEF TypeOK
<1>2. \A i \in 1 .. len : audit[r][i] \notin {"task_completed", "task_failed"}
    BY <1>1 DEF Outcomes
<1>3. \E last \in Nat :
        /\ last > len
        /\ \/ AuditMayFail /\ DOMAIN audit'[r] = 1 .. last - 1
           \/ DOMAIN audit'[r] = 1 .. last /\ audit'[r][last] = outcome
        /\ \A i \in 1 .. last - 1 : i \in DOMAIN audit'[r] =>
               audit'[r][i] \notin {"task_completed", "task_failed"}
        /\ ~ AuditMayFail => \E j \in 1 .. last : audit'[r][j] = "task_submitted"
    <2>1. CASE SafeLog(r, <<outcome>>) /\ (~ AuditMayFail => Opened(r))
        <3>1. PICK n \in 0 .. 1 :
                /\ ~ AuditMayFail => n = 1
                /\ DOMAIN audit'[r] = 1 .. len + n
                /\ \A i \in 1 .. len : audit'[r][i] = audit[r][i]
                /\ \A i \in 1 .. n : audit'[r][len + i] = <<outcome>>[i]
            <4>1. <<outcome>> \in Seq(AuditEntry) /\ Len(<<outcome>>) = 1
                BY DEF AuditEntry
            <4> QED
                BY <2>1, <4>1, SafeLogExtends
        <3>2. ~ AuditMayFail => \E j \in 1 .. len + 1 : audit'[r][j] = "task_submitted"
            BY <1>1, <2>1, <3>1 DEF Opened
        <3>3. \A i \in 1 .. len : audit'[r][i] \notin {"task_completed", "task_failed"}
            BY <1>2, <3>1
        <3>4. CASE n = 0
            BY <1>1, <3>1, <3>2, <3>3, <3>4
        <3>5. CASE n = 1
            BY <1>1, <3>1, <3>2, <3>3, <3>5
        <3> QED
            BY <3>4, <3>5
    <2>2. CASE /\ SafeLog(r, <<first, outcome>>)
               /\ ~ AuditMayFail => Opened(r) \/ first = "task_submitted"
        <3>1. PICK n \in 0 .. 2 :
                /\ ~ AuditMayFail => n = 2
                /\ DOMAIN audit'[r] = 1 .. len + n
                /\ \A i \in 1 .. len : audit'[r][i] = audit[r][i]
                /\ \A i \in 1 .. n : audit'[r][len + i] = <<first, outcome>>[i]
            <4>1. <<first, outcome>> \in Seq(AuditEntry) /\ Len(<<first, outcome>>) = 2
                BY DEF AuditEntry
            <4> QED
                BY <2>2, <4>1, SafeLogExtends
        <3>2. n > 0 => audit'[r][len + 1] = first
            BY <3>1
        <3>3. ~ AuditMayFail => \E j \in 1 .. len + 2 : audit'[r][j] = "task_submitted"
            <4>1. CASE Opened(r)
                <5>1. PICK j \in 1 .. len : audit[r][j] = "task_submitted"
                    BY <1>1, <4>1 DEF Opened
                <5>2. audit'[r][j] = "task_submitted" /\ j \in 1 .. len + 2
                    BY <1>1, <3>1, <5>1
                <5> QED
                    BY <5>2
            <4>2. CASE first = "task_submitted"
                <5>1. len + 1 \in 1 .. len + 2
                    BY <1>1
                <5> QED
                    BY <3>1, <3>2, <4>2, <5>1
            <4> QED
                BY <2>2, <4>1, <4>2
        <3>4. \A i \in 1 .. len : audit'[r][i] \notin {"task_completed", "task_failed"}
            BY <1>2, <3>1
        <3>5. CASE n = 0
            BY <1>1, <3>1, <3>3, <3>4, <3>5
        <3>6. CASE n > 0
            <4>1. \A i \in 1 .. len + 1 : audit'[r][i] \notin {"task_completed", "task_failed"}
                BY <1>1, <3>2, <3>4, <3>6
            <4>2. CASE n = 1
                BY <1>1, <3>1, <3>3, <4>1, <4>2
            <4>3. CASE n = 2
                <5>1. /\ len + 2 \in Nat /\ len + 2 > len /\ len + 2 - 1 = len + 1
                      /\ 2 \in 1 .. n
                    BY <1>1, <4>3
                <5>2. DOMAIN audit'[r] = 1 .. len + 2 /\ audit'[r][len + 2] = outcome
                    BY <3>1, <4>3, <5>1
                <5> QED
                    BY <3>3, <4>1, <5>1, <5>2
            <4> QED
                BY <3>6, <4>2, <4>3
        <3> QED
            BY <3>5, <3>6
    <2> QED
        BY <2>1, <2>2
<1>4. ToldInFull(r)'
    <2>1. PICK last \in Nat :
            /\ last > len
            /\ \/ AuditMayFail /\ DOMAIN audit'[r] = 1 .. last - 1
               \/ DOMAIN audit'[r] = 1 .. last /\ audit'[r][last] = outcome
            /\ \A i \in 1 .. last - 1 : i \in DOMAIN audit'[r] =>
                   audit'[r][i] \notin {"task_completed", "task_failed"}
            /\ ~ AuditMayFail => \E j \in 1 .. last : audit'[r][j] = "task_submitted"
        BY <1>3
    <2>2. \A i \in Outcomes(r)' : i = last /\ audit'[r][i] = outcome /\ DOMAIN audit'[r] = 1 .. last
        BY <2>1 DEF Outcomes
    <2>3. ~ AuditMayFail => last \in Outcomes(r)'
        BY <1>1, <2>1 DEF Outcomes
    <2> QED
        BY <2>1, <2>2, <2>3 DEF ToldInFull
<1> QED
    BY <1>4 DEF TrailIsRight

\* Routing: the trail of a dispatched request is opened, that of a refused one
\* is still empty of outcomes.
LEMMA ExecuteKeepsTrail ==
    ASSUME TypeOK, TrailInv, NEW r \in Requests, NEW intent \in Requested,
           Execute(r, intent)
    PROVE  TrailInv'
<1>1. TrailIsRight(r) /\ pc[r] = "new" /\ Outcomes(r) = {} /\ result[r] # "completed"
    BY DEF TrailInv, TrailIsRight, Execute
<1>2. CASE Route(intent).status # "dispatched"
    <2>1. pc' = [pc EXCEPT ![r] = "rejecting"] /\ UNCHANGED <<result, audit>>
        BY <1>2 DEF Execute, Goto
    <2>2. pc'[r] = "rejecting" /\ \A q \in Requests \ {r} : pc'[q] = pc[q]
        BY <2>1 DEF TypeOK
    <2>3. TrailIsRight(r)'
        BY <1>1, <2>1, <2>2, MovingKeepsTrail
    <2> QED
        BY <2>1, <2>2, <2>3, OtherTrailsStay DEF TrailInv
<1>3. CASE Route(intent).status = "dispatched"
    <2>1. /\ SafeLog(r, <<"task_submitted", "task_in_progress">>)
          /\ \E point \in {"local", "remote", "raising", "answering"} :
               /\ pc' = [pc EXCEPT ![r] = point]
               /\ \/ UNCHANGED result
                  \/ \E res \in {"raised", "not_connected"} : result' = [result EXCEPT ![r] = res]
        BY <1>3 DEF Execute, Goto, Finish
    <2>2. /\ pc'[r] \in {"local", "remote", "raising", "answering"}
          /\ result'[r] # "completed"
          /\ \A q \in Requests \ {r} : pc'[q] = pc[q] /\ result'[q] = result[q]
        BY <1>1, <2>1 DEF TypeOK
    <2>3. \A q \in Requests \ {r} : audit'[q] = audit[q]
        BY <2>1, SafeLogExtends, EntriesAreAuditEntries
    <2>4. TrailIsRight(r)'
        BY <1>1, <2>1, <2>2, OpeningKeepsTrail DEF TrailIsRight
    <2> QED
        BY <2>2, <2>3, <2>4, OtherTrailsStay DEF TrailInv
<1> QED
    BY <1>2, <1>3

\* The steps after it: only the ends write outcomes.
LEMMA ProceedKeepsTrail ==
    ASSUME TypeOK, TrailInv, NEW r \in Requests, Proceed(r)
    PROVE  TrailInv'
<1>1. TrailIsRight(r)
    BY DEF TrailInv
<1>2. SUFFICES /\ TrailIsRight(r)'
               /\ \A q \in Requests \ {r} :
                    pc'[q] = pc[q] /\ result'[q] = result[q] /\ audit'[q] = audit[q]
    BY OtherTrailsStay DEF TrailInv
<1>3. CASE Reject(r)
    <2>1. /\ pc[r] = "rejecting" /\ pc' = [pc EXCEPT ![r] = "done"]
          /\ result' = result /\ SafeLog(r, <<"task_submitted", "task_failed">>)
        BY <1>3 DEF Reject, Goto
    <2>2. pc'[r] = "done" /\ \A q \in Requests \ {r} : pc'[q] = pc[q] /\ audit'[q] = audit[q]
        BY <2>1, SafeLogExtends, EntriesAreAuditEntries DEF TypeOK
    <2>3. TrailIsRight(r)'
        BY <1>1, <2>1, <2>2, EndingTellsInFull DEF TrailIsRight
    <2> QED
        BY <2>1, <2>2, <2>3
<1>4. CASE LocalReturn(r) \/ RemoteReturn(r)
    <2>1. /\ pc[r] \in {"local", "remote"} /\ audit' = audit
          /\ \E res : /\ result' = [result EXCEPT ![r] = res]
                      /\ pc' = [pc EXCEPT ![r] = AfterResult(res)]
        BY <1>4 DEF LocalReturn, RemoteReturn, Finish, Goto
    <2>2. PICK res : /\ result' = [result EXCEPT ![r] = res]
                     /\ pc' = [pc EXCEPT ![r] = AfterResult(res)]
        BY <2>1
    <2>3. /\ pc'[r] = AfterResult(res) /\ result'[r] = res
          /\ \A q \in Requests \ {r} : pc'[q] = pc[q] /\ result'[q] = result[q]
        BY <2>2 DEF TypeOK
    <2>4. /\ AfterResult(res) \in {"raising", "asking", "answering"}
          /\ AfterResult(res) = "raising" => res # "completed"
        BY DEF AfterResult
    <2>5. TrailIsRight(r)'
        BY <1>1, <2>1, <2>3, <2>4, MovingKeepsTrail
    <2> QED
        BY <2>1, <2>3, <2>5
<1>5. CASE AnswerRaised(r)
    <2>1. /\ pc[r] = "raising" /\ pc' = [pc EXCEPT ![r] = "done"]
          /\ result' = result /\ SafeLog(r, <<"task_failed">>)
        BY <1>5 DEF AnswerRaised, Goto
    <2>2. pc'[r] = "done" /\ \A q \in Requests \ {r} : pc'[q] = pc[q] /\ audit'[q] = audit[q]
        BY <2>1, SafeLogExtends, EntriesAreAuditEntries DEF TypeOK
    <2>3. TrailIsRight(r)'
        BY <1>1, <2>1, <2>2, EndingTellsInFull DEF TrailIsRight
    <2> QED
        BY <2>1, <2>2, <2>3
<1>6. CASE AnswerResult(r)
    <2>1. /\ pc[r] = "answering" /\ pc' = [pc EXCEPT ![r] = "done"]
          /\ result' = result /\ SafeLog(r, <<"message_sent", OutcomeEntry(r)>>)
        BY <1>6 DEF AnswerResult, Goto
    <2>2. /\ OutcomeEntry(r) \in {"task_completed", "task_failed"}
          /\ OutcomeEntry(r) = "task_completed" <=> result[r] = "completed"
        BY DEF OutcomeEntry
    <2>3. <<"message_sent", OutcomeEntry(r)>> \in Seq(AuditEntry)
        BY <2>2, EntriesAreAuditEntries
    <2>4. pc'[r] = "done" /\ \A q \in Requests \ {r} : pc'[q] = pc[q] /\ audit'[q] = audit[q]
        BY <2>1, <2>3, SafeLogExtends DEF TypeOK
    <2>5. TrailIsRight(r)'
        BY <1>1, <2>1, <2>2, <2>4, EndingTellsInFull DEF TrailIsRight
    <2> QED
        BY <2>1, <2>4, <2>5
<1>7. CASE AskForInput(r)
    <2>1. /\ pc[r] = "asking" /\ pc' = [pc EXCEPT ![r] = "asked"]
          /\ result' = result /\ SafeLog(r, <<"task_in_progress", "orchestrator_recruit">>)
        BY <1>7 DEF AskForInput, Goto
    <2>2. pc'[r] = "asked" /\ \A q \in Requests \ {r} : pc'[q] = pc[q] /\ audit'[q] = audit[q]
        BY <2>1, SafeLogExtends, EntriesAreAuditEntries DEF TypeOK
    <2>3. PICK n \in 0 .. 2 :
            /\ DOMAIN audit'[r] = 1 .. Len(audit[r]) + n
            /\ \A i \in 1 .. Len(audit[r]) : audit'[r][i] = audit[r][i]
            /\ \A i \in 1 .. n : audit'[r][Len(audit[r]) + i]
                                  = <<"task_in_progress", "orchestrator_recruit">>[i]
        BY <2>1, SafeLogExtends, EntriesAreAuditEntries
    <2>4. DOMAIN audit[r] = 1 .. Len(audit[r]) /\ Len(audit[r]) \in Nat /\ Outcomes(r) = {}
        BY <1>1, <2>1 DEF TypeOK, TrailIsRight
    <2>5. \A i \in DOMAIN audit'[r] : i \notin DOMAIN audit[r] =>
            audit'[r][i] \in {"task_in_progress", "orchestrator_recruit"}
        BY <2>3, <2>4
    <2>6. Outcomes(r)' = {}
        BY <2>3, <2>4, <2>5 DEF Outcomes
    <2> QED
        BY <2>1, <2>2, <2>6 DEF TrailIsRight
<1> QED
    BY <1>3, <1>4, <1>5, <1>6, <1>7 DEF Proceed

\* Every step keeps the trail of every request true: only the step that ends a
\* request writes an outcome, and it is the one it tells.
LEMMA NextKeepsTrail ==
    ASSUME TypeOK, TrailInv, [Next]_vars
    PROVE  TrailInv'
<1>1. CASE UNCHANGED <<pc, result, audit>>
    BY <1>1, OtherTrailsStay DEF TrailInv
<1>2. ASSUME NEW r \in Requests, AwaitFails(r)
      PROVE  TrailInv'
    <2>1. /\ pc[r] \notin {"new", "done"} /\ pc' = [pc EXCEPT ![r] = "lost"]
          /\ UNCHANGED <<result, audit>>
        BY <1>2 DEF AwaitFails, Goto
    <2>2. pc'[r] = "lost" /\ \A q \in Requests \ {r} : pc'[q] = pc[q]
        BY <2>1 DEF TypeOK
    <2>3. TrailIsRight(r)'
        BY <2>1, <2>2, MovingKeepsTrail DEF TrailInv
    <2> QED
        BY <2>1, <2>2, <2>3, OtherTrailsStay DEF TrailInv
<1>3. ASSUME NEW r \in Requests, CancelMessage(r)
      PROVE  TrailInv'
    <2>1. SafeLog(r, <<"task_cancelled">>) /\ UNCHANGED <<pc, result>>
        BY <1>3 DEF CancelMessage
    <2>2. \A q \in Requests \ {r} : audit'[q] = audit[q]
        BY <2>1, SafeLogExtends, EntriesAreAuditEntries
    <2>3. TrailIsRight(r)'
        BY <2>1, NotingKeepsTrail DEF TrailInv
    <2> QED
        BY <2>1, <2>2, <2>3, OtherTrailsStay DEF TrailInv
<1>4. CASE \E r \in Requests : StartCancel(r) \/ CancelStatus(r) \/ CancelAwaitFails(r)
    BY <1>1, <1>4 DEF StartCancel, CancelStatus, CancelAwaitFails
<1>5. CASE \E peer \in Peers : ConnectPeer(peer) \/ RegisterSkill(peer)
    BY <1>1, <1>5 DEF ConnectPeer, RegisterSkill, taskVars
<1> QED
    BY <1>1, <1>2, <1>3, <1>4, <1>5, ExecuteKeepsTrail, ProceedKeepsTrail
       DEF Next, Cancel, Finished, vars, taskVars

\* The audit trail of every request tells its one outcome, that which its
\* caller was told, whatever entries fail to be written on the way.
THEOREM TrailIsHonest == Spec => []TrailMatchesOutcome
<1>1. Init => TrailInv
    <2> SUFFICES ASSUME Init, NEW r \in Requests PROVE TrailIsRight(r)
        BY DEF TrailInv
    <2>1. pc[r] = "new" /\ result[r] = None /\ audit[r] = <<>>
        BY DEF Init
    <2> QED
        BY <2>1, ExecutorAssumption DEF TrailIsRight, Outcomes, Results
<1>2. TrailInv => TrailMatchesOutcome
    BY DEF TrailInv, TrailIsRight, ToldInFull, TrailMatchesOutcome
<1> QED
    BY <1>1, <1>2, NextKeepsTrail, TypeCorrect, PTL DEF Spec

-----------------------------------------------------------------------------
(* The registry.                                                           *)

\* The executor and the mesh client change the registry by registrations only.
LEMMA FleetIsCalled ==
    ASSUME TypeOK, TypeOK', [Next]_vars
    PROVE  [FleetStep]_fleetVars
<1>1. busy' \subseteq Profiles
    BY DEF TypeOK, FleetTypeOK
<1>2. ASSUME NEW peer \in Peers, RegisterSkill(peer)
      PROVE  \E cap \in Capability : RegisterProfile(cap)
    BY <1>2, HeadTailProperties DEF RegisterSkill, TypeOK
<1>3. ASSUME NEW r \in Requests,
             \/ \E intent \in Requested : Execute(r, intent)
             \/ Proceed(r) \/ AwaitFails(r) \/ StartCancel(r)
             \/ Cancel(r) \/ CancelAwaitFails(r)
      PROVE  capabilities' = capabilities
    BY <1>3 DEF Execute, Proceed, Reject, LocalReturn, RemoteReturn, AnswerRaised,
                AnswerResult, AskForInput, AwaitFails, StartCancel, Cancel, CancelStatus,
                CancelMessage, CancelAwaitFails, fleetVars
<1>4. ASSUME NEW peer \in Peers, ConnectPeer(peer)
      PROVE  capabilities' = capabilities
    BY <1>4 DEF ConnectPeer, fleetVars
<1> QED
    BY <1>1, <1>2, <1>3, <1>4 DEF Next, Finished, vars, fleetVars, FleetStep

\* When the registry starts with one place for each profile, every profile
\* keeps its place while requests are routed and peers register their skills,
\* skill by skill, again when a name is already known.
THEOREM RegistryKeepsPlaces ==
    ASSUME \A i, j \in DOMAIN InitialCapabilities :
             InitialCapabilities[i].profile_name = InitialCapabilities[j].profile_name
               => i = j
    PROVE  Spec => PlaceIsKept
<1>1. Init => FleetTypeOK /\ OnePlaceEach
    BY InitIsTyped DEF Init, TypeOK, OnePlaceEach
<1>2. TypeOK /\ TypeOK' /\ [Next]_vars => [FleetStep]_fleetVars
    BY FleetIsCalled
<1> QED
    BY <1>1, <1>2, TypeCorrect, PlacesAreKept, PTL DEF Spec

-----------------------------------------------------------------------------
(* Where a routed task goes.  execute() calls the peer its caller named,   *)
(* not the one route() chose (RoutedTaskIsSentToPeer is refuted by a run); *)
(* the two are the same when every caller names a node.                    *)

\* A dispatch honours the node the caller named.
LEMMA DispatchIsOnTarget ==
    ASSUME FleetTypeOK, NEW intent \in TaskIntent, intent.target_node # None,
           Route(intent).status = "dispatched"
    PROVE  /\ Route(intent).node_address = intent.target_node
           /\ Route(intent).endpoint = IF intent.target_node = LocalNode
                                         THEN "internal" ELSE "a2a"
<1>1. \E i \in DOMAIN capabilities :
         OnTarget(i, intent) /\ Route(intent) = Claim(capabilities[i])
    <2>1. CASE intent.target_profile # None
        BY <2>1, NamedIsRight
    <2>2. CASE intent.target_profile = None
        <3>1. Route(intent) # Unavailable(None, intent.target_node)
            BY DEF Unavailable
        <3> QED
            BY <2>2, <3>1, MatchIsRight DEF CandidatesOf
    <2> QED
        BY <2>1, <2>2
<1>2. PICK i \in DOMAIN capabilities :
         OnTarget(i, intent) /\ Route(intent) = Claim(capabilities[i])
    BY <1>1
<1>3. capabilities[i].node_id = intent.target_node
    BY <1>2 DEF OnTarget
<1> QED
    BY <1>2, <1>3 DEF Claim, Answer, EndpointFor

\* A client is kept only by a node that has a mesh client, for its peers.
LEMMA ClientsNeedTheMesh ==
    (connected # {} => MeshWired) /\ [Next]_vars => (connected' # {} => MeshWired')
<1> SUFFICES ASSUME connected # {} => MeshWired, [Next]_vars
             PROVE  connected' = connected \/ MeshWired
    OBVIOUS
<1> QED
    BY DEF Next, Execute, Proceed, Reject, LocalReturn, RemoteReturn, AnswerRaised,
           AnswerResult, AskForInput, AwaitFails, StartCancel, Cancel, CancelStatus,
           CancelMessage, CancelAwaitFails, ConnectPeer, RegisterSkill, Finished,
           vars, meshVars

\* When every request names its node, a request that is routed to a connected
\* peer is sent to that peer.
THEOREM NamedPeersAreCalled ==
    ASSUME \A intent \in Requested : intent.target_node # None
    PROVE  Spec => RoutedTaskIsSentToPeer
<1> DEFINE Sent == \A r \in Requests :
                     /\ pc[r] = "new" /\ pc'[r] # "new"
                     /\ dispatch'[r].status = "dispatched"
                     /\ dispatch'[r].node_address \in connected
                     => pc'[r] = "remote"
           Wired == connected # {} => MeshWired
<1>1. ASSUME TypeOK, Wired, [Next]_vars PROVE Sent
    <2> SUFFICES ASSUME NEW r \in Requests, pc[r] = "new", pc'[r] # "new",
                        dispatch'[r].status = "dispatched",
                        dispatch'[r].node_address \in connected
                 PROVE  pc'[r] = "remote"
        OBVIOUS
    <2>1. PICK intent \in Requested : Execute(r, intent)
        <3>1. ASSUME NEW q \in Requests, NEW point, pc' = [pc EXCEPT ![q] = point], pc[q] # "new"
              PROVE  FALSE
            BY <1>1, <3>1 DEF TypeOK
        <3>2. ASSUME NEW q \in Requests, NEW intent \in Requested, Execute(q, intent)
              PROVE  q = r
            <4>1. PICK point : pc' = [pc EXCEPT ![q] = point]
                BY <3>2 DEF Execute, Goto, Finish
            <4> QED
                BY <1>1, <4>1 DEF TypeOK
        <3>3. ASSUME NEW q \in Requests, Proceed(q) \/ AwaitFails(q)
              PROVE  FALSE
            BY <3>1, <3>3 DEF Proceed, Reject, LocalReturn, RemoteReturn, AnswerRaised,
                              AnswerResult, AskForInput, AwaitFails, Goto, Finish
        <3>4. pc' # pc
            OBVIOUS
        <3> QED
            BY <1>1, <3>2, <3>3, <3>4
               DEF Next, StartCancel, Cancel, CancelStatus, CancelMessage, CancelAwaitFails,
                   ConnectPeer, RegisterSkill, Finished, vars, taskVars
    <2>2. intent \in TaskIntent /\ intent.target_node # None /\ FleetTypeOK
        BY <1>1, ExecutorAssumption DEF TypeOK
    <2>3. dispatch'[r] = Route(intent)
        BY <1>1, <2>1 DEF Execute, TypeOK
    <2>4. /\ Route(intent).status = "dispatched"
          /\ intent.target_node \in connected
          /\ intent.target_node # LocalNode
          /\ Route(intent).endpoint = "a2a"
        BY <1>1, <2>2, <2>3, DispatchIsOnTarget DEF TypeOK, Peers
    <2>5. MeshWired
        BY <1>1, <2>4
    <2>6. pc' = [pc EXCEPT ![r] = "remote"]
        BY <2>1, <2>4, <2>5 DEF Execute, Goto
    <2> QED
        BY <1>1, <2>6 DEF TypeOK
<1>2. TypeOK /\ Wired /\ [Next]_vars => [Sent]_vars
    BY <1>1
<1>3. Init => Wired
    BY DEF Init
<1>4. Wired /\ [Next]_vars => Wired'
    BY ClientsNeedTheMesh
<1> HIDE DEF Sent, Wired
<1>5. Spec => [][Sent]_vars
    BY <1>2, <1>3, <1>4, TypeCorrect, PTL DEF Spec
<1> QED
    BY <1>5 DEF RoutedTaskIsSentToPeer, Sent

-----------------------------------------------------------------------------
(* The refinement of ProfileSlots.                                         *)

\* When a profile is claimed once, its holder is the request that claims it.
LEMMA HolderIsTheClaimant ==
    ASSUME NEW claims, NEW p \in Profiles,
           \A r, q \in Requests : <<p, r>> \in claims /\ <<p, q>> \in claims => r = q
    PROVE  /\ \A r \in Requests : <<p, r>> \in claims => HolderIn(claims)[p] = r
           /\ (\A r \in Requests : <<p, r>> \notin claims) => HolderIn(claims)[p] = None
<1>1. ASSUME NEW r \in Requests, <<p, r>> \in claims
      PROVE  HolderIn(claims)[p] = r
    <2> DEFINE h == CHOOSE q \in Requests : <<p, q>> \in claims
    <2>1. h \in Requests /\ <<p, h>> \in claims
        BY <1>1
    <2>2. h = r
        BY <1>1, <2>1
    <2> QED
        BY <1>1, <2>2 DEF HolderIn
<1>2. ASSUME \A r \in Requests : <<p, r>> \notin claims
      PROVE  HolderIn(claims)[p] = None
    BY <1>2 DEF HolderIn
<1> QED
    BY <1>1, <1>2

\* The claims, before and after a step.
LEMMA ClaimsMembers ==
    \A p : \A r \in Requests :
      /\ <<p, r>> \in Claims <=> Holds(r) /\ Claimed(r) = p
      /\ <<p, r>> \in Claims' <=> Holds(r)' /\ Claimed(r)' = p
BY DEF Claims

\* The executor starts where ProfileSlots does, with no profile held.
LEMMA SlotsInit == Init => Slots!Init
<1> SUFFICES ASSUME Init PROVE Slots!Init
    OBVIOUS
<1>1. \A r \in Requests : ~ Holds(r)
    BY DEF Init, Holds
<1> QED
    BY <1>1 DEF Slots!Init, holderOf, HolderIn, Claims

\* What a step does to the claims is what it does to the holders.
LEMMA SlotsStep ==
    ASSUME SlotInv, SlotInv', [Next]_vars
    PROVE  [Slots!Next]_holderOf
<1> DEFINE after == HolderIn(Claims')
<1>1. /\ \A p : \A r, q \in Requests :
             <<p, r>> \in Claims /\ <<p, q>> \in Claims => r = q
      /\ \A p : \A r, q \in Requests :
             <<p, r>> \in Claims' /\ <<p, q>> \in Claims' => r = q
    BY ClaimsMembers DEF SlotInv, NoOvercommit
<1>2. holderOf' = after
    BY DEF holderOf, HolderIn
<1>3. /\ DOMAIN holderOf = Profiles /\ holderOf = [p \in Profiles |-> holderOf[p]]
      /\ DOMAIN after = Profiles /\ after = [p \in Profiles |-> after[p]]
    BY DEF holderOf, HolderIn
<1>4. ASSUME NEW p \in Profiles
      PROVE  /\ \A r \in Requests : <<p, r>> \in Claims => holderOf[p] = r
             /\ (\A r \in Requests : <<p, r>> \notin Claims) => holderOf[p] = None
             /\ \A r \in Requests : <<p, r>> \in Claims' => after[p] = r
             /\ (\A r \in Requests : <<p, r>> \notin Claims') => after[p] = None
    BY <1>1, HolderIsTheClaimant DEF holderOf
<1>5. ASSUME NEW p \in Profiles,
             \A r \in Requests : <<p, r>> \in Claims' <=> <<p, r>> \in Claims
      PROVE  after[p] = holderOf[p]
    BY <1>4, <1>5
<1> HIDE DEF after
<1>6. CASE Keeps
    <2>1. \A p \in Profiles : after[p] = holderOf[p]
        BY <1>5, <1>6, ClaimsMembers DEF Keeps, Same
    <2>2. after = holderOf
        BY <1>3, <2>1
    <2> QED
        BY <1>2, <2>2
<1>7. ASSUME NEW r \in Requests, Takes(r) PROVE Slots!Next
    <2>1. PICK p \in Profiles \ busy : p = Claimed(r)'
        BY <1>7 DEF Takes
    <2>2. \A q \in Requests : <<p, q>> \notin Claims
        BY <2>1, ClaimsMembers DEF SlotInv, BusyIsHeld
    <2>3. holderOf[p] = None
        BY <1>4, <2>2
    <2>4. ASSUME NEW s \in Profiles PROVE holderOf[s] # r
        <3>1. <<s, r>> \notin Claims
            BY <1>7, ClaimsMembers DEF Takes
        <3>2. CASE \E q \in Requests : <<s, q>> \in Claims
            BY <1>4, <3>1, <3>2
        <3>3. CASE \A q \in Requests : <<s, q>> \notin Claims
            BY <1>4, <3>3, ExecutorAssumption
        <3> QED
            BY <3>2, <3>3
    <2>5. after[p] = r
        BY <1>4, <1>7, <2>1, ClaimsMembers DEF Takes
    <2>6. \A s \in Profiles \ {p} : after[s] = holderOf[s]
        BY <1>5, <1>7, <2>1, ClaimsMembers DEF Takes, Others, Same
    <2>7. after = [holderOf EXCEPT ![p] = r]
        BY <1>3, <2>5, <2>6
    <2>8. Slots!Acquire(r, p)
        BY <1>2, <2>3, <2>4, <2>7 DEF Slots!Acquire
    <2> QED
        BY <2>8 DEF Slots!Next
<1>8. ASSUME NEW r \in Requests, Frees(r) PROVE Slots!Next
    <2>1. PICK p \in Profiles : p = Claimed(r)
        BY <1>8 DEF SlotInv, BusyIsHeld, TypeOK, FleetTypeOK, Frees
    <2>2. holderOf[p] = r
        BY <1>4, <1>8, <2>1, ClaimsMembers DEF Frees
    <2>3. \A q \in Requests : <<p, q>> \notin Claims'
        BY <1>8, <2>1, ClaimsMembers DEF SlotInv, NoOvercommit, Frees, Others, Same
    <2>4. after[p] = None
        BY <1>4, <2>3
    <2>5. \A s \in Profiles \ {p} : after[s] = holderOf[s]
        BY <1>5, <1>8, <2>1, ClaimsMembers DEF Frees, Others, Same
    <2>6. after = [holderOf EXCEPT ![p] = None]
        BY <1>3, <2>4, <2>5
    <2>7. Slots!GiveBack(p)
        BY <1>2, <2>2, <2>6, ExecutorAssumption DEF Slots!GiveBack
    <2> QED
        BY <2>7 DEF Slots!Next
<1> QED
    BY <1>6, <1>7, <1>8, StepKinds DEF SlotInv

\* The executor and its fleet controller implement exclusive profiles.
THEOREM SlotsRefined == Spec => ImplementsSlots
<1>1. SlotInv /\ SlotInv' /\ [Next]_vars => [Slots!Next]_holderOf
    BY SlotsStep
<1> QED
    BY <1>1, SlotsInit, SlotInvariant, PTL DEF Spec, ImplementsSlots, Slots!Spec

-----------------------------------------------------------------------------
(* What the caller is told.  execute() and cancel() enqueue for the same   *)
(* caller, each at points of its own, in any order.                        *)

MessagesIn(queue) == {i \in DOMAIN queue : queue[i] = "message"}

Messages(r) == MessagesIn(events[r])

\* A caller has the message of its task once execute() has returned one, and
\* that of its cancellation once cancel() has: never one of them twice, and none
\* for a task that asked for input or was lost.
ToldOnce(r) ==
    Cardinality(Messages(r)) =
      (IF pc[r] = "done" THEN 1 ELSE 0) + (IF cancelPc[r] = "done" THEN 1 ELSE 0)

AnsweredOnce == \A r \in Requests : ToldOnce(r)

Events == Seq({"message", "status"})

\* An event that is enqueued is one more message, if it is one.
LEMMA OneMoreMessage ==
    ASSUME NEW old \in Events, NEW event \in {"message", "status"}
    PROVE  /\ Cardinality(MessagesIn(old)) \in Nat
           /\ event = "message" =>
                Cardinality(MessagesIn(Append(old, event))) = Cardinality(MessagesIn(old)) + 1
           /\ event # "message" =>
                Cardinality(MessagesIn(Append(old, event))) = Cardinality(MessagesIn(old))
<1> DEFINE new == Append(old, event)
           n   == Len(old)
<1>1. /\ n \in Nat /\ DOMAIN old = 1 .. n /\ DOMAIN new = 1 .. n + 1
      /\ \A i \in 1 .. n : new[i] = old[i]
      /\ new[n + 1] = event
    BY LenProperties, AppendProperties DEF Events
<1>2. IsFiniteSet(MessagesIn(old)) /\ Cardinality(MessagesIn(old)) \in Nat
    <2>1. IsFiniteSet(1 .. n)
        <3>1. 1 \in Int /\ n \in Int
            BY <1>1
        <3> HIDE DEF n
        <3> QED
            BY <3>1, FS_Interval, Zenon
    <2>2. MessagesIn(old) \subseteq 1 .. n
        BY <1>1 DEF MessagesIn
    <2> QED
        BY <2>1, <2>2, FS_Subset, FS_CardinalityType
<1>3. ASSUME event = "message"
      PROVE  Cardinality(MessagesIn(new)) = Cardinality(MessagesIn(old)) + 1
    <2>1. MessagesIn(new) = MessagesIn(old) \cup {n + 1} /\ n + 1 \notin MessagesIn(old)
        BY <1>1, <1>3 DEF MessagesIn
    <2> QED
        BY <1>2, <2>1, FS_AddElement
<1>4. ASSUME event # "message"
      PROVE  MessagesIn(new) = MessagesIn(old)
    BY <1>1, <1>4 DEF MessagesIn
<1> QED
    BY <1>2, <1>3, <1>4

\* What r is told stays, and how its coroutines stand.
SameAnswers(r) ==
    /\ events'[r] = events[r]
    /\ pc'[r] = "done" <=> pc[r] = "done"
    /\ cancelPc'[r] = "done" <=> cancelPc[r] = "done"

\* Every step enqueues a message as a coroutine returns with it, or a status.
LEMMA AnswerKinds ==
    ASSUME TypeOK, [Next]_vars
    PROVE  \/ \A r \in Requests : SameAnswers(r)
           \/ \E r \in Requests :
                /\ \A q \in Requests \ {r} : SameAnswers(q)
                /\ \/ /\ events'[r] = Append(events[r], "message")
                      /\ pc[r] # "done" /\ pc'[r] = "done"
                      /\ cancelPc'[r] = "done" <=> cancelPc[r] = "done"
                   \/ /\ events'[r] = Append(events[r], "message")
                      /\ cancelPc[r] # "done" /\ cancelPc'[r] = "done"
                      /\ pc'[r] = "done" <=> pc[r] = "done"
                   \/ /\ events'[r] = Append(events[r], "status")
                      /\ pc'[r] = "done" <=> pc[r] = "done"
                      /\ cancelPc'[r] = "done" <=> cancelPc[r] = "done"
<1> USE DEF SameAnswers
<1>0. /\ pc \in [Requests -> ExecutePoints]
      /\ events \in [Requests -> Seq({"message", "status"})]
      /\ cancelPc \in [Requests -> {"none", "status", "message", "lost", "done"}]
    BY DEF TypeOK
<1>1. CASE UNCHANGED vars \/ Finished \/ \E peer \in Peers : ConnectPeer(peer) \/ RegisterSkill(peer)
    BY <1>1 DEF vars, taskVars, Finished, ConnectPeer, RegisterSkill
<1>2. ASSUME NEW r \in Requests, NEW intent \in Requested, Execute(r, intent)
      PROVE  \A q \in Requests : SameAnswers(q)
    BY <1>0, <1>2 DEF Execute, Goto, Finish
<1>3. ASSUME NEW r \in Requests, LocalReturn(r) \/ RemoteReturn(r) \/ AwaitFails(r)
      PROVE  \A q \in Requests : SameAnswers(q)
    BY <1>0, <1>3 DEF LocalReturn, RemoteReturn, AwaitFails, Goto, Finish, AfterResult
<1>4. ASSUME NEW r \in Requests, StartCancel(r) \/ CancelAwaitFails(r)
      PROVE  \A q \in Requests : SameAnswers(q)
    BY <1>0, <1>4 DEF StartCancel, CancelAwaitFails, CancelTo
<1>5. ASSUME NEW r \in Requests, Reject(r) \/ AnswerRaised(r) \/ AnswerResult(r)
      PROVE  /\ \A q \in Requests \ {r} : SameAnswers(q)
             /\ events'[r] = Append(events[r], "message")
             /\ pc[r] # "done" /\ pc'[r] = "done"
             /\ cancelPc'[r] = "done" <=> cancelPc[r] = "done"
    BY <1>0, <1>5 DEF Reject, AnswerRaised, AnswerResult, Goto, Enqueue
<1>6. ASSUME NEW r \in Requests, AskForInput(r)
      PROVE  /\ \A q \in Requests \ {r} : SameAnswers(q)
             /\ events'[r] = Append(events[r], "status")
             /\ pc'[r] = "done" <=> pc[r] = "done"
             /\ cancelPc'[r] = "done" <=> cancelPc[r] = "done"
    BY <1>0, <1>6 DEF AskForInput, Goto, Enqueue
<1>7. ASSUME NEW r \in Requests, CancelMessage(r)
      PROVE  /\ \A q \in Requests \ {r} : SameAnswers(q)
             /\ events'[r] = Append(events[r], "message")
             /\ cancelPc[r] # "done" /\ cancelPc'[r] = "done"
             /\ pc'[r] = "done" <=> pc[r] = "done"
    BY <1>0, <1>7 DEF CancelMessage, CancelTo, Enqueue
<1>8. ASSUME NEW r \in Requests, CancelStatus(r)
      PROVE  /\ \A q \in Requests \ {r} : SameAnswers(q)
             /\ events'[r] = Append(events[r], "status")
             /\ pc'[r] = "done" <=> pc[r] = "done"
             /\ cancelPc'[r] = "done" <=> cancelPc[r] = "done"
    BY <1>0, <1>8 DEF CancelStatus, CancelTo, Enqueue
<1> HIDE DEF SameAnswers
<1>9. ASSUME NEW r \in Requests, Proceed(r)
      PROVE  \/ \A q \in Requests : SameAnswers(q)
             \/ /\ \A q \in Requests \ {r} : SameAnswers(q)
                /\ \/ /\ events'[r] = Append(events[r], "message")
                      /\ pc[r] # "done" /\ pc'[r] = "done"
                      /\ cancelPc'[r] = "done" <=> cancelPc[r] = "done"
                   \/ /\ events'[r] = Append(events[r], "status")
                      /\ pc'[r] = "done" <=> pc[r] = "done"
                      /\ cancelPc'[r] = "done" <=> cancelPc[r] = "done"
    BY <1>3, <1>5, <1>6, <1>9 DEF Proceed
<1> QED
    BY <1>1, <1>2, <1>3, <1>4, <1>7, <1>8, <1>9 DEF Next, Cancel

\* So the messages of every caller stay counted.
LEMMA NextKeepsAnswers ==
    ASSUME TypeOK, AnsweredOnce, [Next]_vars
    PROVE  AnsweredOnce'
<1>1. \A r \in Requests : events[r] \in Events
    BY DEF TypeOK, Events
<1>2. \A r \in Requests : /\ ToldOnce(r) <=> Cardinality(MessagesIn(events[r])) =
                               (IF pc[r] = "done" THEN 1 ELSE 0)
                               + (IF cancelPc[r] = "done" THEN 1 ELSE 0)
                          /\ ToldOnce(r)' <=> Cardinality(MessagesIn(events'[r])) =
                               (IF pc'[r] = "done" THEN 1 ELSE 0)
                               + (IF cancelPc'[r] = "done" THEN 1 ELSE 0)
    BY DEF ToldOnce, Messages
<1>3. ASSUME NEW r \in Requests, NEW event \in {"message", "status"},
             events'[r] = Append(events[r], event)
      PROVE  /\ Cardinality(MessagesIn(events[r])) \in Nat
             /\ event = "message" => Cardinality(MessagesIn(events'[r])) = Cardinality(MessagesIn(events[r])) + 1
             /\ event # "message" => Cardinality(MessagesIn(events'[r])) = Cardinality(MessagesIn(events[r]))
    BY <1>1, <1>3, OneMoreMessage
<1>4. ASSUME NEW r \in Requests, SameAnswers(r)
      PROVE  ToldOnce(r)'
    BY <1>2, <1>4 DEF SameAnswers, AnsweredOnce
<1>5. ASSUME NEW r \in Requests,
             \/ /\ events'[r] = Append(events[r], "message")
                /\ pc[r] # "done" /\ pc'[r] = "done"
                /\ cancelPc'[r] = "done" <=> cancelPc[r] = "done"
             \/ /\ events'[r] = Append(events[r], "message")
                /\ cancelPc[r] # "done" /\ cancelPc'[r] = "done"
                /\ pc'[r] = "done" <=> pc[r] = "done"
             \/ /\ events'[r] = Append(events[r], "status")
                /\ pc'[r] = "done" <=> pc[r] = "done"
                /\ cancelPc'[r] = "done" <=> cancelPc[r] = "done"
      PROVE  ToldOnce(r)'
    BY <1>2, <1>3, <1>5 DEF AnsweredOnce
<1> QED
    BY <1>4, <1>5, AnswerKinds DEF AnsweredOnce

\* A caller is answered once and acknowledged once, however execute() and
\* cancel() interleave on the event queue of its task and wherever the SDK
\* ends either of them.
THEOREM CallersAreToldOnce == Spec => []AnsweredOnce
<1>1. Init => AnsweredOnce
    <2> SUFFICES ASSUME Init, NEW r \in Requests PROVE ToldOnce(r)
        BY DEF AnsweredOnce
    <2>1. Messages(r) = {} /\ pc[r] = "new" /\ cancelPc[r] = "none"
        BY DEF Init, Messages, MessagesIn
    <2> QED
        BY <2>1, FS_EmptySet DEF ToldOnce
<1> QED
    BY <1>1, NextKeepsAnswers, TypeCorrect, PTL DEF Spec

=============================================================================
