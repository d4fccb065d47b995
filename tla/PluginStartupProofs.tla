------------------------ MODULE PluginStartupProofs ------------------------
(***************************************************************************)
(* The connections of a node to its peers, for every registry, and the     *)
(* start of the plugin.  The mesh client is proved about on its own; that  *)
(* a node that starts implements it carries the results over.              *)
(***************************************************************************)
EXTENDS PluginStartup, FiniteSetTheorems, FunctionTheorems, SequenceTheorems, TLAPS

-----------------------------------------------------------------------------
(* The registry.                                                           *)

\* The registry of peers has a first place and a last.
LEMMA RegistryFacts ==
    /\ Len(Registry) \in Nat \ {0}
    /\ DOMAIN Registry = 1 .. Len(Registry)
    /\ \A i \in DOMAIN Registry : Registry[i] \in Peers
<1>1. Registry \in Seq(Peers) /\ Registry # <<>>
    BY MeshAssumption
<1>2. Len(Registry) \in Nat \ {0}
    BY <1>1, EmptySeq
<1>3. DOMAIN Registry = 1 .. Len(Registry)
    BY <1>1, LenProperties
<1> QED
    BY <1>2, <1>3 DEF Peers

\* The bounds on outages are numbers, and the first retries have a delay.
LEMMA BoundFacts == Outage \in Nat /\ OverflowAttempt \in Nat /\ OverflowAttempt > 1
    BY MeshAssumption

\* A peer has one place in the registry, so there are no more peers than
\* places, and no more clients.
LEMMA ClientsFit ==
    ASSUME NEW S \in SUBSET Peers
    PROVE  Cardinality(S) \in 0 .. Len(Registry)
<1>1. IsFiniteSet(1 .. Len(Registry)) /\ Cardinality(1 .. Len(Registry)) = Len(Registry)
    BY RegistryFacts, FS_Interval
<1>2. Registry \in Surjection(1 .. Len(Registry), Peers)
    <2>1. Registry \in [1 .. Len(Registry) -> Peers]
        BY MeshAssumption, LenProperties
    <2>2. \A p \in Peers : \E i \in 1 .. Len(Registry) : Registry[i] = p
        BY RegistryFacts DEF Peers
    <2> QED
        BY <2>1, <2>2 DEF Surjection
<1>3. IsFiniteSet(Peers) /\ Cardinality(Peers) <= Len(Registry)
    BY <1>1, <1>2, FS_Surjection
<1>4. IsFiniteSet(S) /\ Cardinality(S) <= Cardinality(Peers)
    BY <1>3, FS_Subset
<1> QED
    BY <1>3, <1>4, RegistryFacts, FS_CardinalityType

-----------------------------------------------------------------------------
(* Types.  A delay is computed only for an attempt below OverflowAttempt.  *)

AttemptsLeft == \A p \in Peers : Retrying(p) => attempt[p] < OverflowAttempt

TypeInv == TypeOK /\ AttemptsLeft

\* The client of the mesh starts with its variables of their types.
LEMMA InitIsTyped == Init => TypeInv
<1> SUFFICES ASSUME Init PROVE TypeInv
    OBVIOUS
<1> USE BoundFacts, RegistryFacts
<1>1. TypeOK
    BY DEF Init, TypeOK
<1>2. AttemptsLeft
    BY DEF Init, AttemptsLeft, Retrying
<1> QED
    BY <1>1, <1>2 DEF TypeInv

\* A card, or none.
LEMMA AttemptKeepsType ==
    ASSUME TypeOK, NEW p \in Peers, CardArrives(p) \/ CardFails(p)
    PROVE  /\ clients' \subseteq Peers
           /\ routable' \subseteq Peers
           /\ outage' \in [Peers -> 0 .. Outage]
<1>1. CASE CardArrives(p)
    BY <1>1 DEF CardArrives, TypeOK
<1>2. CASE CardFails(p)
    BY <1>2, BoundFacts DEF CardFails, TypeOK
<1> QED
    BY <1>1, <1>2

\* The steps of connect_all().
LEMMA ConnectKeepsType ==
    ASSUME TypeInv, StartConnectAll \/ ConnectNext
    PROVE  TypeInv'
<1> USE BoundFacts, RegistryFacts
<1>1. CASE StartConnectAll
    BY <1>1 DEF StartConnectAll, TypeInv, TypeOK, AttemptsLeft, Retrying, connectVars,
                retryVars, closeVars
<1>2. CASE ConnectNext
    <2> DEFINE p == Registry[trying]
    <2>1. p \in Peers
        BY DEF TypeInv, TypeOK
    <2>2. PICK names \in SUBSET Peers :
            GoOn(names) /\ (CardArrives(p) \/ CardFails(p))
        BY <1>2, <2>1 DEF ConnectNext, TypeInv, TypeOK
    <2>3. /\ clients' \subseteq Peers
          /\ routable' \subseteq Peers
          /\ outage' \in [Peers -> 0 .. Outage]
        BY <2>1, <2>2, AttemptKeepsType DEF TypeInv
    <2>4. CASE trying < Len(Registry)
        <3>1. /\ failed' = names /\ trying' = trying + 1
              /\ UNCHANGED <<sweep, loop, attempt>>
            BY <2>2, <2>4 DEF GoOn, retryVars
        <3>2. trying' \in DOMAIN Registry
            BY <2>4, <3>1 DEF TypeInv, TypeOK
        <3>3. AttemptsLeft'
            BY <3>1 DEF TypeInv, AttemptsLeft, Retrying
        <3> QED
            BY <1>2, <2>3, <3>1, <3>2, <3>3 DEF ConnectNext, TypeInv, TypeOK, closeVars
    <2>5. CASE ~ (trying < Len(Registry))
        <3>1. /\ failed' = names /\ sweep' = "done" /\ trying' = trying
              /\ ScheduleRetries(names)
            BY <2>2, <2>5 DEF GoOn
        <3>2. /\ loop' \in [Peers -> {"none", "sleeping", "fetching", "died"}]
              /\ attempt' \in [Peers -> 0 .. OverflowAttempt]
            BY <3>1 DEF ScheduleRetries, TypeInv, TypeOK
        <3>3. AttemptsLeft'
            BY <3>1 DEF ScheduleRetries, TypeInv, AttemptsLeft, Retrying
        <3> QED
            BY <1>2, <2>3, <3>1, <3>2, <3>3 DEF ConnectNext, TypeInv, TypeOK, closeVars
    <2> QED
        BY <2>4, <2>5
<1> QED
    BY <1>1, <1>2

\* The steps of a retry task.
LEMMA RetryKeepsType ==
    ASSUME TypeInv, NEW p \in Peers, Retry(p)
    PROVE  TypeInv'
<1> USE BoundFacts DEF TypeInv, TypeOK, AttemptsLeft, Retrying
<1>1. CASE Wake(p)
    BY <1>1 DEF Wake, connectVars, closeVars
<1>2. CASE RetrySucceeds(p)
    BY <1>2 DEF RetrySucceeds, CardArrives, connectVars, closeVars
<1>3. CASE RetryFails(p)
    BY <1>3 DEF RetryFails, CardFails, connectVars, closeVars
<1> QED
    BY <1>1, <1>2, <1>3 DEF Retry

\* The steps of close().
LEMMA CloseKeepsType ==
    ASSUME TypeInv, Close \/ CloseNext
    PROVE  TypeInv'
<1>1. Cardinality(clients) \in 0 .. Len(Registry)
    BY ClientsFit DEF TypeInv, TypeOK
<1> USE RegistryFacts DEF TypeInv, TypeOK, AttemptsLeft, Retrying, connectVars, retryVars
<1>2. CASE Close
    BY <1>1, <1>2 DEF Close, BeginClosing, ForgetClients, Settle
<1>3. CASE CloseNext
    BY <1>3 DEF CloseNext, ForgetClients
<1> QED
    BY <1>2, <1>3

\* Its steps keep them.
LEMMA NextKeepsType ==
    ASSUME TypeInv, [Next]_vars
    PROVE  TypeInv'
<1>1. CASE UNCHANGED vars
    BY <1>1 DEF vars, connectVars, retryVars, closeVars, TypeInv, TypeOK, AttemptsLeft,
                Retrying
<1> QED
    BY <1>1, ConnectKeepsType, RetryKeepsType, CloseKeepsType DEF Next, Finished

\* So they hold throughout.
LEMMA MeshIsTyped == Spec => []TypeInv
    BY InitIsTyped, NextKeepsType, PTL DEF Spec

-----------------------------------------------------------------------------
(* A peer is connected once.  connect_all() goes through the registry in   *)
(* order, so the peers it has dealt with are those before its place.       *)

Tried == {Registry[i] : i \in 1 .. trying - 1}

\* No retry task exists before the sweep is over; what the sweep has connected
\* and what it has failed to connect lie behind it and are not the same.
SweepInOrder ==
    /\ sweep # "done" => \A p \in Peers : loop[p] = "none"
    /\ sweep = "idle" => trying = 1
    /\ sweep # "done" => clients \cup failed \subseteq Tried
    /\ sweep # "done" => clients \cap failed = {}
    /\ \A p \in clients : loop[p] = "none"

\* The peer that is tried has not been tried before: no peer is configured
\* twice.
LEMMA NextIsUntried ==
    ASSUME TypeInv
    PROVE  Registry[trying] \notin Tried
<1>1. \A i, j \in DOMAIN Registry : Registry[i] = Registry[j] => i = j
    BY MeshAssumption
<1>2. trying \in 1 .. Len(Registry) /\ Len(Registry) \in Nat
    BY RegistryFacts DEF TypeInv, TypeOK
<1>3. \A i \in 1 .. trying - 1 : i \in DOMAIN Registry /\ i # trying
    BY <1>2, RegistryFacts
<1> QED
    BY <1>1, <1>2, <1>3, RegistryFacts DEF Tried

\* As connect_all() goes on, one more peer has been tried.
LEMMA TriedGrows ==
    ASSUME TypeInv, trying' = trying + 1
    PROVE  Tried' = Tried \cup {Registry[trying]}
<1>1. trying \in Nat \ {0}
    BY RegistryFacts DEF TypeInv, TypeOK
<1>2. 1 .. trying' - 1 = (1 .. trying - 1) \cup {trying}
    BY <1>1
<1> QED
    BY <1>2 DEF Tried

\* Nothing is connected or retried before connect_all() begins.
LEMMA InitInOrder == Init => SweepInOrder
    BY DEF Init, SweepInOrder, Tried, Retrying

\* connect_all() touches the next peer of the registry only, which it has not
\* tried, so which has neither a client nor a retry task.
LEMMA ConnectKeepsOrder ==
    ASSUME TypeInv, SweepInOrder, ConnectNext
    PROVE  SweepInOrder'
<1> DEFINE p == Registry[trying]
<1>1. p \in Peers /\ p \notin Tried
    BY NextIsUntried, RegistryFacts DEF TypeInv, TypeOK
<1>2. /\ sweep = "fetching"
      /\ \A q \in Peers : loop[q] = "none"
      /\ clients \subseteq Tried /\ failed \subseteq Tried
      /\ clients \cap failed = {}
    BY DEF ConnectNext, SweepInOrder
<1>3. PICK names \in SUBSET Peers :
        /\ GoOn(names)
        /\ \/ clients' = clients \cup {p} /\ names = failed
           \/ clients' = clients /\ names = failed \cup {p}
    BY <1>1 DEF ConnectNext, CardArrives, CardFails, TypeInv, TypeOK
<1>4. clients' \cap names = {}
    BY <1>1, <1>2, <1>3
<1>5. CASE trying < Len(Registry)
    <2>1. /\ failed' = names /\ sweep' = sweep /\ loop' = loop
          /\ trying' = trying + 1
        BY <1>3, <1>5 DEF GoOn, retryVars
    <2>2. Tried' = Tried \cup {p}
        BY <2>1, TriedGrows
    <2>3. clients' \cup failed' \subseteq Tried'
        BY <1>2, <1>3, <2>1, <2>2
    <2>4. \A q \in clients' : loop'[q] = "none"
        BY <1>1, <1>2, <1>3, <2>1 DEF TypeInv, TypeOK
    <2> QED
        BY <1>2, <1>4, <2>1, <2>3, <2>4 DEF SweepInOrder
<1>6. CASE ~ (trying < Len(Registry))
    <2>1. /\ failed' = names /\ sweep' = "done"
          /\ ScheduleRetries(names)
        BY <1>3, <1>6 DEF GoOn
    <2>2. clients' \subseteq Peers
        BY <1>1, <1>3 DEF TypeInv, TypeOK
    <2>3. \A q \in clients' : loop'[q] = "none"
        BY <1>2, <1>4, <2>1, <2>2 DEF ScheduleRetries
    <2> QED
        BY <2>1, <2>3 DEF SweepInOrder
<1> QED
    BY <1>5, <1>6

\* A retry task that connects its peer ends with it; the others are of peers
\* that are not connected.
LEMMA RetryKeepsOrder ==
    ASSUME TypeInv, SweepInOrder, NEW p \in Peers, Retry(p)
    PROVE  SweepInOrder'
<1>1. sweep = "done" /\ sweep' = "done"
    BY DEF Retry, Wake, RetrySucceeds, RetryFails, connectVars, SweepInOrder, TypeInv, TypeOK
<1> USE DEF TypeInv, TypeOK, Retrying, SweepInOrder
<1>2. CASE Wake(p)
    BY <1>1, <1>2 DEF Wake
<1>3. CASE RetrySucceeds(p)
    BY <1>1, <1>3 DEF RetrySucceeds, CardArrives
<1>4. CASE RetryFails(p)
    BY <1>1, <1>4 DEF RetryFails, CardFails
<1> QED
    BY <1>2, <1>3, <1>4 DEF Retry

\* close() gives nothing a client or a retry task.
LEMMA CloseKeepsOrder ==
    ASSUME TypeInv, SweepInOrder, Close \/ CloseNext
    PROVE  SweepInOrder'
<1>1. clients' \subseteq clients /\ UNCHANGED connectVars
    BY DEF Close, CloseNext, BeginClosing, ForgetClients
<1>2. \/ UNCHANGED loop
      \/ loop' = [p \in Peers |-> "none"]
    BY DEF Close, CloseNext, retryVars
<1>3. Tried' = Tried
    BY <1>1 DEF Tried, connectVars
<1> QED
    BY <1>1, <1>2, <1>3 DEF SweepInOrder, connectVars, Retrying, TypeInv, TypeOK

\* So every step keeps the order of the connections.
LEMMA NextKeepsOrder ==
    ASSUME TypeInv, SweepInOrder, [Next]_vars
    PROVE  SweepInOrder'
<1>1. CASE UNCHANGED vars
    BY <1>1 DEF vars, connectVars, retryVars, SweepInOrder, Tried, Retrying
<1>2. CASE StartConnectAll
    BY <1>2 DEF StartConnectAll, retryVars, SweepInOrder, Tried, Retrying
<1> QED
    BY <1>1, <1>2, ConnectKeepsOrder, RetryKeepsOrder, CloseKeepsOrder DEF Next, Finished

\* A sweep in order connects no peer that is connected.
LEMMA OrderIsConnectedOnce == TypeInv /\ SweepInOrder => ConnectedOnce
    BY NextIsUntried DEF SweepInOrder, ConnectedOnce, Retrying

\* So a peer is connected once, whatever the mesh client does.
LEMMA MeshConnectsOnce == Spec => [](SweepInOrder /\ ConnectedOnce)
    BY MeshIsTyped, InitInOrder, NextKeepsOrder, OrderIsConnectedOnce, PTL DEF Spec

-----------------------------------------------------------------------------
(* Which peers are forgotten: those whose retry task died of its delay,    *)
(* which overflows only when the outage has lasted that many attempts.     *)

\* A task is at most at the attempt that is the number of failures so far, so
\* one that died has seen as many failures as it takes.
OutagesCount ==
    /\ \A p \in failed : outage[p] > 0
    /\ \A p \in Peers : Retrying(p) => attempt[p] <= outage[p]
    /\ \A p \in Peers : loop[p] = "died" => outage[p] >= OverflowAttempt

\* Until close() is called, who was tried is connected or noted as failed; and
\* after the sweep, connected or retried unless its task died.
NothingForgotten ==
    closing = "open" =>
      /\ sweep # "done" => Tried \subseteq clients \cup failed
      /\ sweep = "done" =>
           \A p \in Peers : p \in clients \/ Retrying(p) \/ loop[p] = "died"

\* At the start no peer has been tried, so none is forgotten.
LEMMA InitForgetsNothing == Init => OutagesCount /\ NothingForgotten
    BY DEF Init, OutagesCount, NothingForgotten, Tried, Retrying

\* Whoever the last place of the registry follows has been tried.
LEMMA AllTried ==
    ASSUME TypeInv, ~ (trying < Len(Registry))
    PROVE  Peers = Tried \cup {Registry[trying]}
<1>1. trying = Len(Registry) /\ Len(Registry) \in Nat \ {0}
    BY RegistryFacts DEF TypeInv, TypeOK
<1>2. DOMAIN Registry = (1 .. trying - 1) \cup {trying}
    BY <1>1, RegistryFacts
<1> QED
    BY <1>2 DEF Peers, Tried

\* A peer that connect_all() has tried is connected or has a retry task.
LEMMA ConnectForgetsNothing ==
    ASSUME TypeInv, SweepInOrder, OutagesCount, NothingForgotten, ConnectNext
    PROVE  OutagesCount' /\ NothingForgotten'
<1> DEFINE p == Registry[trying]
<1>1. p \in Peers
    BY RegistryFacts DEF TypeInv, TypeOK
<1>2. /\ sweep = "fetching" /\ closing' = closing
      /\ \A q \in Peers : loop[q] = "none"
    BY DEF ConnectNext, closeVars, SweepInOrder
<1>3. PICK names \in SUBSET Peers :
        /\ GoOn(names)
        /\ \/ CardArrives(p) /\ names = failed
           \/ CardFails(p) /\ names = failed \cup {p}
    BY <1>1 DEF ConnectNext, TypeInv, TypeOK
<1>4. clients' \cup names = clients \cup failed \cup {p}
    BY <1>3 DEF CardArrives, CardFails
<1>5. \A q \in names : outage'[q] \in Nat /\ outage'[q] > 0
    <2>1. outage \in [Peers -> 0 .. Outage] /\ \A q \in failed : outage[q] > 0
        BY DEF TypeInv, TypeOK, OutagesCount
    <2>2. CASE CardArrives(p) /\ names = failed
        BY <1>3, <2>1, <2>2, BoundFacts DEF CardArrives
    <2>3. CASE CardFails(p) /\ names = failed \cup {p}
        BY <1>1, <1>3, <2>1, <2>3, BoundFacts DEF CardFails
    <2> QED
        BY <1>3, <2>2, <2>3
<1>6. CASE trying < Len(Registry)
    <2>1. /\ failed' = names /\ sweep' = sweep /\ UNCHANGED retryVars
          /\ trying' = trying + 1
        BY <1>3, <1>6 DEF GoOn
    <2>2. Tried' = Tried \cup {p}
        BY <2>1, TriedGrows
    <2>3. OutagesCount'
        BY <1>2, <1>5, <2>1 DEF OutagesCount, Retrying, retryVars
    <2>4. NothingForgotten'
        BY <1>2, <1>4, <2>1, <2>2 DEF NothingForgotten
    <2> QED
        BY <2>3, <2>4
<1>7. CASE ~ (trying < Len(Registry))
    <2>1. /\ failed' = names /\ sweep' = "done" /\ ScheduleRetries(names)
        BY <1>3, <1>7 DEF GoOn
    <2>2. Peers = Tried \cup {p}
        BY <1>7, AllTried
    <2>3. OutagesCount'
        BY <1>2, <1>5, <2>1 DEF OutagesCount, Retrying, ScheduleRetries
    <2>4. \A q \in names : Retrying(q)'
        BY <2>1 DEF ScheduleRetries, Retrying
    <2>5. closing = "open" => Peers \subseteq clients' \cup names
        BY <1>2, <1>4, <2>2 DEF NothingForgotten
    <2> QED
        BY <1>2, <2>1, <2>3, <2>4, <2>5 DEF NothingForgotten
<1> QED
    BY <1>6, <1>7

\* A failed retry is counted by both: its delay overflows no earlier than the
\* outage reaches the attempt that does.
LEMMA RetryForgetsNothing ==
    ASSUME TypeInv, SweepInOrder, OutagesCount, NothingForgotten,
           NEW p \in Peers, Retry(p)
    PROVE  OutagesCount' /\ NothingForgotten'
<1>1. sweep = "done" /\ UNCHANGED <<connectVars, closeVars>>
    BY DEF Retry, Wake, RetrySucceeds, RetryFails, SweepInOrder, TypeInv, TypeOK
<1> USE BoundFacts DEF TypeInv, TypeOK, Retrying, OutagesCount, NothingForgotten,
                       connectVars, closeVars
<1>2. CASE Wake(p)
    BY <1>1, <1>2 DEF Wake
<1>3. CASE RetrySucceeds(p)
    BY <1>1, <1>3 DEF RetrySucceeds, CardArrives
<1>4. CASE RetryFails(p)
    <2>1. /\ attempt' = [attempt EXCEPT ![p] = @ + 1]
          /\ outage' = [outage EXCEPT ![p] = @ + 1]
          /\ UNCHANGED <<clients, routable>>
          /\ loop[p] = "fetching"
          /\ loop' = [loop EXCEPT ![p] = IF attempt'[p] >= OverflowAttempt
                                           THEN "died" ELSE "sleeping"]
        BY <1>4 DEF RetryFails, CardFails
    <2>2. /\ attempt'[p] = attempt[p] + 1
          /\ outage'[p] = outage[p] + 1
          /\ attempt'[p] <= outage'[p]
        BY <2>1
    <2>3. \/ loop' = [loop EXCEPT ![p] = "sleeping"]
          \/ /\ loop' = [loop EXCEPT ![p] = "died"]
             /\ attempt'[p] >= OverflowAttempt
        BY <2>1, <2>2
    <2>4. \A q \in failed : outage'[q] > 0
        BY <2>1
    <2>5. OutagesCount'
        BY <1>1, <2>1, <2>2, <2>3, <2>4
    <2>6. NothingForgotten'
        BY <1>1, <2>1, <2>3
    <2> QED
        BY <2>5, <2>6
<1> QED
    BY <1>2, <1>3, <1>4 DEF Retry

\* No step forgets a peer but the one its task dies in.
LEMMA NextForgetsNothing ==
    ASSUME TypeInv, SweepInOrder, OutagesCount, NothingForgotten, [Next]_vars
    PROVE  OutagesCount' /\ NothingForgotten'
<1> USE DEF OutagesCount, NothingForgotten, Retrying, Tried
<1>1. CASE UNCHANGED vars
    BY <1>1 DEF vars, connectVars, retryVars, closeVars
<1>2. CASE StartConnectAll
    BY <1>2 DEF StartConnectAll, retryVars, closeVars
<1>3. CASE Close
    BY <1>3 DEF Close, BeginClosing, ForgetClients, connectVars
<1>4. CASE CloseNext
    BY <1>4 DEF CloseNext, ForgetClients, connectVars, retryVars
<1> QED
    BY <1>1, <1>2, <1>3, <1>4, ConnectForgetsNothing, RetryForgetsNothing DEF Next, Finished

\* So it is throughout.
LEMMA MeshForgetsNothing == Spec => [](OutagesCount /\ NothingForgotten)
<1>1. TypeInv /\ SweepInOrder /\ OutagesCount /\ NothingForgotten /\ [Next]_vars
        => (OutagesCount /\ NothingForgotten)'
    BY NextForgetsNothing
<1> QED
    BY <1>1, MeshIsTyped, MeshConnectsOnce, InitForgetsNothing, PTL DEF Spec

-----------------------------------------------------------------------------
(* close(), whenever it is called.  The sweep may go on, and creates retry  *)
(* tasks; but it comes back to no peer that it has dealt with.             *)

\* A peer that was settled when close() was called has no retry task, and none is
\* going to be created for it.
SettledIsOver ==
    /\ closing # "open" =>
         \A p \in settled :
           /\ loop[p] = "none"
           /\ sweep # "done" => p \in Tried \ failed
    /\ closing = "closed" => settled \cap clients = {}

\* connect_all() goes on with a peer it has not tried, and then retries those it
\* failed to connect: neither was settled.
LEMMA ConnectKeepsSettled ==
    ASSUME TypeInv, SettledIsOver, ConnectNext
    PROVE  SettledIsOver'
<1> DEFINE p == Registry[trying]
<1>1. p \in Peers /\ p \notin Tried
    BY NextIsUntried, RegistryFacts DEF TypeInv, TypeOK
<1>2. sweep = "fetching" /\ closing' = closing /\ settled' = settled /\ settled \subseteq Peers
    BY DEF ConnectNext, closeVars, TypeInv, TypeOK
<1>3. PICK names \in SUBSET Peers :
        /\ GoOn(names) /\ names \subseteq failed \cup {p}
        /\ clients' \subseteq clients \cup {p}
    BY <1>1 DEF ConnectNext, CardArrives, CardFails, TypeInv, TypeOK
<1>4. ASSUME closing # "open"
      PROVE  \A q \in settled : q \in Tried \ failed /\ q # p /\ loop[q] = "none"
    BY <1>1, <1>2, <1>4 DEF SettledIsOver
<1>5. closing' = "closed" => settled' \cap clients' = {}
    BY <1>2, <1>3, <1>4 DEF SettledIsOver
<1>6. CASE trying < Len(Registry)
    <2>1. failed' = names /\ sweep' = sweep /\ loop' = loop /\ trying' = trying + 1
        BY <1>3, <1>6 DEF GoOn, retryVars
    <2>2. Tried' = Tried \cup {p}
        BY <2>1, TriedGrows
    <2> QED
        BY <1>2, <1>3, <1>4, <1>5, <2>1, <2>2 DEF SettledIsOver
<1>7. CASE ~ (trying < Len(Registry))
    <2>1. sweep' = "done" /\ ScheduleRetries(names)
        BY <1>3, <1>7 DEF GoOn
    <2>2. closing # "open" => \A q \in settled : loop'[q] = "none"
        BY <1>2, <1>3, <1>4, <2>1 DEF ScheduleRetries
    <2> QED
        BY <1>2, <1>5, <2>1, <2>2 DEF SettledIsOver
<1> QED
    BY <1>6, <1>7

\* No other step brings a settled peer back either.
LEMMA NextKeepsSettled ==
    ASSUME TypeInv, SweepInOrder, SettledIsOver, [Next]_vars
    PROVE  SettledIsOver'
<1> USE DEF SettledIsOver
<1>0. settled \subseteq Peers /\ clients \subseteq Peers
    BY DEF TypeInv, TypeOK
<1>1. CASE UNCHANGED vars
    BY <1>1 DEF vars, connectVars, retryVars, closeVars, Tried
<1>2. CASE StartConnectAll
    BY <1>2 DEF StartConnectAll, retryVars, closeVars, Tried
<1>3. CASE ConnectNext
    BY <1>3, ConnectKeepsSettled
<1>4. ASSUME NEW p \in Peers, Retry(p)
      PROVE  SettledIsOver'
    <2>1. /\ loop[p] # "none" /\ UNCHANGED <<connectVars, closeVars>>
          /\ clients' \subseteq clients \cup {p}
          /\ \A q \in Peers \ {p} : loop'[q] = loop[q]
        BY <1>4 DEF Retry, Wake, RetrySucceeds, RetryFails, CardArrives, CardFails,
                    TypeInv, TypeOK
    <2>2. closing # "open" => p \notin settled
        BY <2>1
    <2> QED
        BY <1>0, <2>1, <2>2 DEF connectVars, closeVars, Tried
<1>5. CASE Close
    <2>1. /\ loop' = [p \in Peers |-> "none"] /\ settled' \subseteq Peers
          /\ sweep # "done" => settled' = clients
          /\ UNCHANGED connectVars
          /\ closing' = "closed" => clients' = {}
        BY <1>0, <1>5 DEF Close, BeginClosing, ForgetClients, Settle
    <2> QED
        BY <2>1 DEF SweepInOrder, connectVars, Tried
<1>6. CASE CloseNext
    BY <1>6 DEF CloseNext, ForgetClients, connectVars, retryVars, Tried
<1> QED
    BY <1>1, <1>2, <1>3, <1>4, <1>5, <1>6 DEF Next, Finished

\* So close() is rid of them, whatever connect_all() is doing.
LEMMA MeshSettles == Spec => []SettledIsOver
<1>1. Init => SettledIsOver
    BY DEF Init, SettledIsOver
<1>2. TypeInv /\ SweepInOrder /\ SettledIsOver /\ [Next]_vars => SettledIsOver'
    BY NextKeepsSettled
<1> QED
    BY <1>1, <1>2, MeshIsTyped, MeshConnectsOnce, PTL DEF Spec

-----------------------------------------------------------------------------
(* The start of the plugin.  A step of it is a step of the mesh client, or *)
(* leaves the mesh client alone.                                           *)

\* A step of a node that starts is a step of the mesh client, or a stutter of it:
\* starting only decides when connect_all() may run.
LEMMA StartupStepIsMeshStep ==
    ASSUME [StartupNext]_allVars
    PROVE  [Next]_vars
<1>1. CASE UNCHANGED allVars
    BY <1>1 DEF allVars
<1>2. CASE Register \/ LoopStarts \/ Scan \/ StartupOver
    BY <1>2 DEF Register, LoopStarts, Scan, StartupOver, allVars
<1>3. CASE OnLoop(ConnectPeers)
    BY <1>3 DEF OnLoop, ConnectPeers, Next
<1>4. CASE OnLoop(ConnectNext) \/ OnLoop(Close) \/ OnLoop(CloseNext)
    BY <1>4 DEF OnLoop, Next
<1>5. CASE \E p \in Peers : OnLoop(Retry(p))
    BY <1>5 DEF OnLoop, Next
<1> QED
    BY <1>1, <1>2, <1>3, <1>4, <1>5 DEF StartupNext

\* What is proved of the mesh client holds of a node that starts.
THEOREM StartupImplementsMesh == StartupSpec => Spec
<1>1. StartupInit => Init
    BY DEF StartupInit
<1> QED
    BY <1>1, StartupStepIsMeshStep, PTL DEF StartupSpec, Spec

\* Peers are connected and tasks recovered only after register() has passed
\* the guard, which lets it pass once.
StartGuarded == ~ started => sweeps = 0 /\ scans = 0 /\ servers = 0

StartInv ==
    /\ {loopRuns, started} \subseteq BOOLEAN
    /\ recovery \in {"none", "scanning", "done"}
    /\ StartGuarded
    /\ StartedOnce

\* However often register() is called and wherever it raises, what it has started
\* it does not start again.
LEMMA StartupKeepsStart ==
    ASSUME StartInv, [StartupNext]_allVars
    PROVE  StartInv'
<1> USE DEF StartInv, StartGuarded, StartedOnce
<1>1. CASE UNCHANGED startupVars
    BY <1>1 DEF startupVars, startVars
<1>2. CASE Register
    BY <1>2 DEF Register, Wire, Scheduled
<1>3. CASE LoopStarts
    BY <1>3 DEF LoopStarts, startVars
<1>4. CASE Scan
    BY <1>4 DEF Scan, startVars
<1> QED
    BY <1>1, <1>2, <1>3, <1>4 DEF StartupNext, StartupOver, OnLoop, allVars

\* So the guard of register() holds throughout.
LEMMA StartupIsGuarded == StartupSpec => []StartInv
<1>1. StartupInit => {loopRuns, started} \subseteq BOOLEAN
    BY StartupAssumption, Zenon DEF StartupInit
<1>2. StartupInit => StartGuarded /\ StartedOnce /\ recovery \in {"none", "scanning", "done"}
    BY DEF StartupInit, StartGuarded, StartedOnce
<1> QED
    BY <1>1, <1>2, StartupKeepsStart, PTL DEF StartupSpec, StartInv

-----------------------------------------------------------------------------
\* Every variable keeps its type; in particular the attempt a delay is
\* computed for never passes the one that overflows, and the number of the
\* clients close() iterates over fits the registry.
THEOREM StartupTypeCorrect == StartupSpec => []StartupTypeOK
<1>1. TypeInv /\ StartInv => StartupTypeOK
    BY DEF TypeInv, StartInv, StartedOnce, StartupTypeOK
<1> QED
    BY <1>1, StartupImplementsMesh, MeshIsTyped, StartupIsGuarded, PTL

\* However often register() is called and wherever it raises, what it starts
\* is started once and in its order.
THEOREM NothingStartsTwice == StartupSpec => []StartedOnce
    BY StartupIsGuarded, PTL DEF StartInv

\* Whatever cards fail, however long, and whenever close() is called: no
\* connected peer is fetched or retried again.
THEOREM PeersConnectOnce == StartupSpec => []ConnectedOnce
    BY StartupImplementsMesh, MeshConnectsOnce, PTL

\* From the end of the sweep to close(), the peers that are neither connected
\* nor tried again are exactly those whose task died of its delay.
ForgottenHaveDied ==
    sweep = "done" /\ closing = "open" =>
      \A p \in Peers :
        /\ p \notin clients /\ ~ Retrying(p) <=> loop[p] = "died"
        /\ loop[p] = "died" => outage[p] >= OverflowAttempt

\* However long outages last: the overflow of a delay (mesh_peer_client.py:
\* 1.0 * 2**attempt, before it is capped) is the only way to lose a peer,
\* and only an outage of that many attempts leads to it.
THEOREM OnlyOverflowForgets == StartupSpec => []ForgottenHaveDied
<1>1. SweepInOrder /\ OutagesCount /\ NothingForgotten => ForgottenHaveDied
    BY DEF SweepInOrder, OutagesCount, NothingForgotten, ForgottenHaveDied, Retrying
<1> QED
    BY <1>1, MeshConnectsOnce, MeshForgetsNothing, StartupImplementsMesh, PTL

\* When outages are shorter than that, no task has died.
LEMMA NoneHasDied ==
    ASSUME Outage < OverflowAttempt, TypeInv, OutagesCount
    PROVE  \A p \in Peers : loop[p] # "died"
    BY BoundFacts DEF TypeInv, TypeOK, OutagesCount

\* With outages of fewer attempts than the one whose delay overflows, every
\* peer is connected or being retried from the end of the sweep to close().
THEOREM NoPeerForgotten ==
    ASSUME Outage < OverflowAttempt
    PROVE  StartupSpec => []NoPeerIsForgotten
<1>1. TypeInv /\ OutagesCount /\ NothingForgotten => NoPeerIsForgotten
    BY NoneHasDied DEF NothingForgotten, NoPeerIsForgotten
<1> QED
    BY <1>1, MeshIsTyped, MeshForgetsNothing, StartupImplementsMesh, PTL

\* With such outages a retry task ends only because its peer is connected or
\* close() is called, as the documentation says; without the hypothesis it
\* is not so.
THEOREM RetriesEndRightly ==
    ASSUME Outage < OverflowAttempt
    PROVE  StartupSpec => RetryEndsOnSuccessOrClose
<1> DEFINE EndsRightly == \A p \in Peers :
             Retrying(p) /\ ~ Retrying(p)' => p \in clients' \/ closing' # "open"
<1>1. ASSUME TypeInv, SweepInOrder, OutagesCount, NothingForgotten, [Next]_vars
      PROVE  [EndsRightly]_vars
    <2>1. TypeInv' /\ OutagesCount'
        BY <1>1, NextForgetsNothing, NextKeepsType
    <2>2. SUFFICES ASSUME Next, NEW q \in Peers, Retrying(q), ~ Retrying(q)'
                   PROVE  q \in clients' \/ closing' # "open"
        BY <1>1
    <2>3. \A p \in Peers : loop[p] # "died" /\ loop'[p] # "died"
        BY <1>1, <2>1, BoundFacts DEF OutagesCount, TypeInv, TypeOK
    <2>4. loop \in [Peers -> {"none", "sleeping", "fetching", "died"}]
        BY <1>1 DEF TypeInv, TypeOK
    <2>5. sweep = "done"
        BY <1>1, <2>2 DEF SweepInOrder, Retrying
    <2>6. CASE Close
        BY <2>6 DEF Close, BeginClosing, ForgetClients
    <2>7. ASSUME NEW p \in Peers, Retry(p)
          PROVE  q \in clients'
        <3>1. CASE Wake(p)
            BY <2>2, <2>4, <3>1 DEF Wake, Retrying
        <3>2. CASE RetrySucceeds(p)
            BY <2>2, <2>4, <3>2 DEF RetrySucceeds, CardArrives, Retrying
        <3>3. CASE RetryFails(p)
            <4>1. loop'[q] \in {"sleeping", loop[q]} \/ loop'[q] = "died"
                BY <2>4, <3>3 DEF RetryFails
            <4> QED
                BY <2>2, <2>3, <4>1 DEF Retrying
        <3> QED
            BY <2>7, <3>1, <3>2, <3>3 DEF Retry
    <2>8. CASE StartConnectAll \/ ConnectNext
        BY <2>5, <2>8 DEF StartConnectAll, ConnectNext
    <2>9. CASE CloseNext \/ Finished
        BY <2>2, <2>9 DEF CloseNext, Finished, vars, retryVars, Retrying
    <2> QED
        BY <2>2, <2>6, <2>7, <2>8, <2>9 DEF Next
<1> QED
    BY <1>1, MeshForgetsNothing, MeshIsTyped, MeshConnectsOnce, StartupImplementsMesh,
       PTL DEF Spec, RetryEndsOnSuccessOrClose

\* close() is for good for every peer that was connected, or had its retries
\* scheduled, when it was called, whenever that is: no client of it is left, no
\* task that could connect it, and none comes back, while connect_all() may go on.
THEOREM CloseIsForGood == StartupSpec => []ClosedForGood
<1>1. SettledIsOver => ClosedForGood
    BY DEF SettledIsOver, ClosedForGood, Retrying
<1> QED
    BY <1>1, MeshSettles, StartupImplementsMesh, PTL

=============================================================================
