----------------------- MODULE FleetControllerProofs -----------------------
(***************************************************************************)
(* What the modules that extend FleetController rely on, in every registry *)
(* and availability: what route() returns, that its choice honours targets *)
(* and prefers types and the own node, that discover() agrees with it, and *)
(* that register_profile() keeps places.                                   *)
(***************************************************************************)
EXTENDS FleetController, WellFoundedInduction, TLAPS

\* A best match is a candidate.
LEMMA BestMatchIsCandidate ==
    ASSUME NEW candidates, NEW type, NEW tags
    PROVE  BestMatch(candidates, type, tags) \subseteq candidates
BY DEF BestMatch, First

\* The capability at a non-empty set of places is a registered one.
LEMMA TheIsCapability ==
    ASSUME FleetTypeOK, NEW positions \in SUBSET DOMAIN capabilities,
           positions # {}
    PROVE  The(positions) \in Capability
<1>1. PICK i \in positions : i = CHOOSE j \in positions : TRUE
    OBVIOUS
<1> QED
    BY <1>1 DEF The, FleetTypeOK

\* Claiming a capability answers with its profile, as dispatched only when
\* the profile is free.
LEMMA ClaimIsRight ==
    ASSUME NEW cap \in Capability
    PROVE  /\ Claim(cap) \in ProfileDispatch
           /\ Claim(cap).profile_name \in Profiles
           /\ Claim(cap).status = "dispatched" => Claim(cap).profile_name \notin busy
BY DEF Claim, Answer, EndpointFor, Capability, ProfileDispatch

\* Every decision of route() is a well-formed dispatch, and one with status
\* dispatched names a profile that was free: the guard NoOvercommit rests on.
THEOREM RouteIsRight ==
    ASSUME FleetTypeOK, NEW intent \in TaskIntent
    PROVE  /\ Route(intent) \in ProfileDispatch
           /\ Route(intent).status = "dispatched" =>
                /\ Route(intent).profile_name \in Profiles
                /\ Route(intent).profile_name \notin busy
<1> DEFINE Right(d) == /\ d \in ProfileDispatch
                       /\ d.status = "dispatched" =>
                            d.profile_name \in Profiles /\ d.profile_name \notin busy
<1>1. ASSUME NEW p \in Profiles \cup {None}, NEW n \in Nodes \cup {None}
      PROVE  Right(Unavailable(p, n))
    BY <1>1 DEF Unavailable, ProfileDispatch
<1>2. ASSUME NEW cap \in Capability
      PROVE  Right(Claim(cap)) /\ Right(Answer("unavailable", cap))
    BY <1>2, ClaimIsRight DEF Answer, EndpointFor, Capability, ProfileDispatch
<1>3. /\ intent.target_profile \in Profiles \cup {None}
      /\ intent.target_node \in Nodes \cup {None}
    BY DEF TaskIntent
<1> HIDE DEF Right
<1>4. CASE intent.target_profile # None
    <2>1. Right(RouteToProfile(intent))
        <3> DEFINE named == Registered(intent.target_profile)
        <3>1. named # {} => The(named) \in Capability
            BY TheIsCapability DEF Registered
        <3> QED
            BY <1>1, <1>2, <1>3, <3>1 DEF RouteToProfile
    <2> QED
        BY <1>4, <2>1 DEF Route, Right
<1>5. CASE intent.target_profile = None
    <2> DEFINE Best(candidates) == BestMatch(candidates, intent.intent_type, intent.tags)
               match == Best(IF intent.target_node = None
                               THEN DOMAIN capabilities
                               ELSE FilterByNode(intent.target_node))
               localMatch == Best(FilterByNode(LocalNode))
    <2>1. match \subseteq DOMAIN capabilities /\ localMatch \subseteq DOMAIN capabilities
        BY BestMatchIsCandidate DEF FilterByNode
    <2>2. /\ match # {} => The(match) \in Capability
          /\ localMatch # {} => The(localMatch) \in Capability
        BY <2>1, TheIsCapability
    <2>3. Right(RouteByMatch(intent))
        <3>1. CASE match = {}
            BY <3>1, <1>1, <1>3 DEF RouteByMatch
        <3>2. CASE match # {}
            <4>1. Right(Claim(The(match)))
                BY <3>2, <2>2, <1>2
            <4>2. localMatch # {} => Right(Claim(The(localMatch)))
                BY <2>2, <1>2
            <4> QED
                BY <3>2, <4>1, <4>2 DEF RouteByMatch
        <3> QED
            BY <3>1, <3>2
    <2> QED
        BY <1>5, <2>3 DEF Route, Right
<1> QED
    BY <1>4, <1>5

\* Registering keeps the registry a sequence of capabilities.
LEMMA RegisterKeepsType ==
    ASSUME FleetTypeOK, NEW cap \in Capability, RegisterProfile(cap)
    PROVE  capabilities' \in Seq(Capability)
<1> DEFINE known == Registered(cap.profile_name)
<1>1. CASE known = {}
    BY <1>1 DEF RegisterProfile, FleetTypeOK
<1>2. CASE known # {}
    <2>1. capabilities' = [i \in 1 .. Len(capabilities) |->
                             IF i \in known THEN cap ELSE capabilities[i]]
        <3>1. DOMAIN capabilities = 1 .. Len(capabilities)
            BY DEF FleetTypeOK
        <3>2. capabilities' = [i \in DOMAIN capabilities |->
                                 IF i \in known THEN cap ELSE capabilities[i]]
            BY <1>2, Zenon DEF RegisterProfile
        <3> QED
            BY <3>1, <3>2, Zenon
    <2>2. Len(capabilities) \in Nat
        BY DEF FleetTypeOK
    <2>3. capabilities' \in [1 .. Len(capabilities) -> Capability]
        BY <2>1 DEF FleetTypeOK
    <2> QED
        BY <2>2, <2>3
<1> QED
    BY <1>1, <1>2

-----------------------------------------------------------------------------
(* What a decision promises its caller, in every registry.                 *)

\* The least-number principle, from the well-foundedness of < on Nat.
LEMMA LessIsWellFounded == IsWellFoundedOn({p \in Nat \X Nat : p[1] < p[2]}, Nat)
    BY NatLessThanWellFounded, Zenon DEF OpToRel

\* A set of places that is not empty has a first one.
LEMMA LeastExists ==
    ASSUME NEW S \in SUBSET Nat, S # {}
    PROVE  \E m \in S : \A n \in S : m <= n
<1> DEFINE Less == {p \in Nat \X Nat : p[1] < p[2]}
<1>1. IsWellFoundedOn(Less, Nat)
    BY LessIsWellFounded
<1>2. PICK m \in S : \A n \in S : ~ (<<n, m>> \in Less)
    <2> HIDE DEF Less
    <2> QED
        BY <1>1, WFMin
<1>3. ASSUME NEW n \in S
      PROVE  m <= n
    <2>1. <<n, m>> \in Nat \X Nat /\ <<n, m>>[1] = n /\ <<n, m>>[2] = m
        OBVIOUS
    <2> QED
        BY <1>2, <2>1
<1> QED
    BY <1>3

\* A non-empty list of candidates has one first place.
LEMMA FirstIsOne ==
    ASSUME FleetTypeOK, NEW S \in SUBSET DOMAIN capabilities, S # {}
    PROVE  \E m \in S : First(S) = {m} /\ The(First(S)) = capabilities[m]
<1>1. S \subseteq Nat
    BY DEF FleetTypeOK
<1>2. PICK m \in S : \A n \in S : m <= n
    BY <1>1, LeastExists
<1>3. First(S) = {m}
    BY <1>1, <1>2 DEF First
<1> QED
    BY <1>3 DEF The

\* The best match of a list of candidates: one that declares the type or, when
\* none of them does, one that shares a tag; none only when none can handle it.
LEMMA BestMatchIsBest ==
    ASSUME FleetTypeOK, NEW S \in SUBSET DOMAIN capabilities, NEW type, NEW tags
    PROVE  LET best == BestMatch(S, type, tags)
           IN  /\ best = {} <=> \A i \in S : ~ CanHandle(capabilities[i], type, tags)
               /\ best # {} =>
                    \E i \in S :
                      /\ best = {i} /\ The(best) = capabilities[i]
                      /\ \/ type \in capabilities[i].intents
                         \/ /\ tags \cap capabilities[i].tags # {}
                            /\ \A j \in S : type \notin capabilities[j].intents
<1> DEFINE exact == {i \in S : type \in capabilities[i].intents}
           byTag == {i \in S : tags \cap capabilities[i].tags # {}}
           pool  == IF exact # {} THEN exact ELSE byTag
<1>1. BestMatch(S, type, tags) = First(pool)
    BY DEF BestMatch
<1>2. pool \in SUBSET DOMAIN capabilities
    OBVIOUS
<1>3. pool = {} <=> \A i \in S : ~ CanHandle(capabilities[i], type, tags)
    BY DEF CanHandle
<1>4. \A i \in pool : /\ i \in S
                      /\ \/ type \in capabilities[i].intents
                         \/ /\ tags \cap capabilities[i].tags # {}
                            /\ \A j \in S : type \notin capabilities[j].intents
    OBVIOUS
<1>5. CASE pool = {}
    BY <1>1, <1>3, <1>5 DEF First
<1>6. CASE pool # {}
    <2> HIDE DEF pool
    <2>1. PICK m \in pool : First(pool) = {m} /\ The(First(pool)) = capabilities[m]
        BY <1>2, <1>6, FirstIsOne
    <2> QED
        BY <1>1, <1>3, <1>4, <1>6, <2>1
<1> QED
    BY <1>5, <1>6

\* The places route() chooses from for an intent that names no profile.
CandidatesOf(intent) == {i \in DOMAIN capabilities : OnTarget(i, intent)}

\* Without a target node every capability is a candidate of route(), with one
\* those of that node.
LEMMA CandidatesAreThose ==
    ASSUME NEW intent \in TaskIntent
    PROVE  CandidatesOf(intent) = IF intent.target_node = None
                                    THEN DOMAIN capabilities
                                    ELSE FilterByNode(intent.target_node)
    BY DEF CandidatesOf, OnTarget, FilterByNode

\* A place that may be chosen for the intent: it declares the type, or it
\* shares a tag and no other candidate declares the type.
Suits(i, intent) ==
    \/ DeclaresIntent(i, intent)
    \/ /\ intent.tags \cap capabilities[i].tags # {}
       /\ \A j \in CandidatesOf(intent) : ~ DeclaresIntent(j, intent)

\* The first local profile that declares the type, if there is one, is busy.
LocalIsBusy(intent) ==
    \A i \in First({j \in FilterByNode(LocalNode) : DeclaresIntent(j, intent)}) : ~ Free(i)

\* Without a target profile, route() refuses when no candidate can handle the
\* intent and claims a suitable one otherwise; one of another node only when
\* a target node is named or the first local one that declares the type is busy.
LEMMA MatchIsRight ==
    ASSUME FleetTypeOK, NEW intent \in TaskIntent, intent.target_profile = None
    PROVE  \/ /\ Route(intent) = Unavailable(None, intent.target_node)
              /\ \A i \in CandidatesOf(intent) :
                   ~ CanHandle(capabilities[i], intent.intent_type, intent.tags)
           \/ \E i \in CandidatesOf(intent) :
                /\ Route(intent) = Claim(capabilities[i])
                /\ Suits(i, intent)
                /\ \/ intent.target_node # None
                   \/ capabilities[i].node_id = LocalNode
                   \/ LocalIsBusy(intent)
<1> DEFINE type  == intent.intent_type
           tags  == intent.tags
           cands == CandidatesOf(intent)
           local == FilterByNode(LocalNode)
           match == BestMatch(cands, type, tags)
           localMatch == BestMatch(local, type, tags)
           preferLocal ==
             /\ intent.target_node = None
             /\ The(match).node_id # LocalNode
             /\ localMatch # {}
             /\ CanHandle(The(localMatch), type, {})
             /\ The(localMatch).profile_name \notin busy
<1>1. Route(intent) = IF match = {} THEN Unavailable(None, intent.target_node)
                      ELSE Claim(The(IF preferLocal THEN localMatch ELSE match))
    <2>1. match = BestMatch(IF intent.target_node = None
                              THEN DOMAIN capabilities
                              ELSE FilterByNode(intent.target_node), type, tags)
        BY CandidatesAreThose
    <2> QED
        BY <2>1 DEF Route, RouteByMatch
<1>2. cands \in SUBSET DOMAIN capabilities /\ local \in SUBSET DOMAIN capabilities
    BY DEF CandidatesOf, FilterByNode
<1>3. CASE match = {}
    <2>1. \A i \in cands : ~ CanHandle(capabilities[i], type, tags)
        BY <1>2, <1>3, BestMatchIsBest
    <2> QED
        BY <1>1, <1>3, <2>1
<1>4. CASE match # {} /\ preferLocal
    <2>1. PICK i \in local : localMatch = {i} /\ The(localMatch) = capabilities[i]
        BY <1>2, <1>4, BestMatchIsBest
    <2>2. i \in cands /\ capabilities[i].node_id = LocalNode
        BY <1>4, <2>1 DEF CandidatesOf, OnTarget, FilterByNode
    <2>3. Suits(i, intent)
        BY <1>4, <2>1 DEF Suits, DeclaresIntent, CanHandle
    <2> QED
        BY <1>1, <1>4, <2>1, <2>2, <2>3
<1>5. CASE match # {} /\ ~ preferLocal
    <2>1. PICK i \in cands :
            /\ match = {i} /\ The(match) = capabilities[i]
            /\ \/ type \in capabilities[i].intents
               \/ /\ tags \cap capabilities[i].tags # {}
                  /\ \A j \in cands : type \notin capabilities[j].intents
        BY <1>2, <1>5, BestMatchIsBest
    <2>2. Suits(i, intent)
        BY <2>1 DEF Suits, DeclaresIntent
    <2>3. ASSUME intent.target_node = None, capabilities[i].node_id # LocalNode
          PROVE  LocalIsBusy(intent)
        <3> DEFINE exact == {j \in local : DeclaresIntent(j, intent)}
        <3> SUFFICES ASSUME NEW k \in First(exact)
                     PROVE  ~ Free(k)
            BY DEF LocalIsBusy
        <3>1. k \in exact /\ exact \in SUBSET DOMAIN capabilities
            BY <1>2 DEF First
        <3>2. localMatch = First(exact)
            BY <3>1 DEF BestMatch, DeclaresIntent
        <3>3. The(localMatch) = capabilities[k] /\ localMatch # {}
            <4> HIDE DEF exact, localMatch
            <4>1. PICK m \in exact : First(exact) = {m} /\ The(First(exact)) = capabilities[m]
                BY <3>1, FirstIsOne
            <4>2. k = m
                BY <4>1
            <4> QED
                BY <3>2, <4>1, <4>2
        <3>4. CanHandle(The(localMatch), type, {})
            BY <3>1, <3>3 DEF CanHandle, DeclaresIntent
        <3> QED
            BY <1>5, <2>1, <2>3, <3>3, <3>4 DEF Free
    <2> QED
        BY <1>1, <1>5, <2>1, <2>2, <2>3
<1> QED
    BY <1>3, <1>4, <1>5

\* With a target profile, what is dispatched is a registered place of that
\* name, on the target node if one is named, that declares the type.
LEMMA NamedIsRight ==
    ASSUME FleetTypeOK, NEW intent \in TaskIntent, intent.target_profile # None,
           Route(intent).status = "dispatched"
    PROVE  \E i \in DOMAIN capabilities :
             /\ Route(intent) = Claim(capabilities[i])
             /\ capabilities[i].profile_name = intent.target_profile
             /\ OnTarget(i, intent) /\ DeclaresIntent(i, intent)
<1> DEFINE named == Registered(intent.target_profile)
           cap   == The(named)
<1>1. Route(intent) = RouteToProfile(intent)
    BY DEF Route
<1>2. \A p, n : Unavailable(p, n).status # "dispatched"
    BY DEF Unavailable
<1>3. Answer("unavailable", cap).status # "dispatched"
    BY DEF Answer
<1>4. /\ named # {}
      /\ intent.target_node \in {None, cap.node_id}
      /\ CanHandle(cap, intent.intent_type, {})
      /\ Route(intent) = Claim(cap)
    BY <1>1, <1>2, <1>3 DEF RouteToProfile
<1>5. PICK i \in named : cap = capabilities[i]
    BY <1>4 DEF The
<1> QED
    BY <1>4, <1>5 DEF Registered, OnTarget, DeclaresIntent, CanHandle

\* A claim is dispatched exactly for a free capability, with its name, and
\* leaves the node exactly when the capability is of another node.
LEMMA ClaimAnswers ==
    ASSUME NEW cap
    PROVE  /\ Claim(cap).status \in {"dispatched", "no_capacity"}
           /\ Claim(cap).status = "dispatched" => cap.profile_name \notin busy
           /\ Claim(cap).profile_name = cap.profile_name
           /\ Claim(cap).endpoint = "a2a" => cap.node_id # LocalNode
    BY DEF Claim, Answer, EndpointFor

\* Whatever is registered and whatever is busy: a dispatch goes to a free
\* profile that honours the explicit targets and suits the intent.
THEOREM DispatchesRight == FleetTypeOK => DispatchIsRight
<1> SUFFICES ASSUME FleetTypeOK, NEW intent \in TaskIntent,
                    Route(intent).status = "dispatched"
             PROVE  \E i \in DOMAIN capabilities :
                      /\ Free(i)
                      /\ OnTarget(i, intent)
                      /\ capabilities[i].profile_name = Route(intent).profile_name
                      /\ intent.target_profile \in {None, capabilities[i].profile_name}
                      /\ \/ DeclaresIntent(i, intent)
                         \/ /\ intent.target_profile = None
                            /\ intent.tags \cap capabilities[i].tags # {}
                            /\ ~ \E j \in DOMAIN capabilities :
                                   OnTarget(j, intent) /\ DeclaresIntent(j, intent)
    BY DEF DispatchIsRight
<1>1. CASE intent.target_profile # None
    BY <1>1, NamedIsRight, ClaimAnswers DEF Free
<1>2. CASE intent.target_profile = None
    <2>1. Route(intent) # Unavailable(None, intent.target_node)
        BY DEF Unavailable
    <2>2. PICK i \in CandidatesOf(intent) :
            Route(intent) = Claim(capabilities[i]) /\ Suits(i, intent)
        BY <1>2, <2>1, MatchIsRight
    <2> QED
        BY <1>2, <2>2, ClaimAnswers DEF Suits, CandidatesOf, Free
<1> QED
    BY <1>1, <1>2

\* An untargeted intent leaves the node only when the first local profile that
\* declares its type is absent or busy.
THEOREM LocalGoesFirst == FleetTypeOK => LocalFirst
<1> SUFFICES ASSUME FleetTypeOK, NEW intent \in TaskIntent, Untargeted(intent),
                    Route(intent).status = "dispatched",
                    Route(intent).endpoint = "a2a"
             PROVE  LocalIsBusy(intent)
    BY DEF LocalFirst, LocalIsBusy
<1>1. Route(intent) # Unavailable(None, intent.target_node)
    BY DEF Unavailable
<1> QED
    BY <1>1, MatchIsRight, ClaimAnswers DEF Untargeted

\* route() refuses an untargeted intent as unavailable exactly when discover()
\* finds nobody for it.
THEOREM RouteAndDiscoverAgree == FleetTypeOK => RouteAgreesWithDiscover
<1> SUFFICES ASSUME FleetTypeOK, NEW intent \in TaskIntent, Untargeted(intent)
             PROVE  Route(intent).status = "unavailable"
                      <=> Discover(intent.intent_type, intent.tags) = {}
    BY DEF RouteAgreesWithDiscover
<1>1. CandidatesOf(intent) = DOMAIN capabilities
    BY DEF CandidatesOf, OnTarget, Untargeted
<1>2. Unavailable(None, intent.target_node).status = "unavailable"
    BY DEF Unavailable
<1>3. \A i \in DOMAIN capabilities : Suits(i, intent) =>
        CanHandle(capabilities[i], intent.intent_type, intent.tags)
    BY DEF Suits, CanHandle, DeclaresIntent
<1> QED
    BY <1>1, <1>2, <1>3, MatchIsRight, ClaimAnswers DEF Untargeted, Discover

-----------------------------------------------------------------------------
\* A profile has one place in the registry.
OnePlaceEach ==
    \A i, j \in DOMAIN capabilities :
      capabilities[i].profile_name = capabilities[j].profile_name => i = j

\* Registering, for the first time or again, takes no place away, changes the
\* name at none, and gives no profile a second one.
THEOREM RegisteringKeepsPlaces ==
    ASSUME FleetTypeOK, OnePlaceEach, NEW cap \in Capability, RegisterProfile(cap)
    PROVE  /\ Len(capabilities') >= Len(capabilities)
           /\ \A i \in DOMAIN capabilities :
                capabilities'[i].profile_name = capabilities[i].profile_name
           /\ OnePlaceEach'
<1> DEFINE known == Registered(cap.profile_name)
           n == Len(capabilities)
<1>1. n \in Nat /\ DOMAIN capabilities = 1 .. n
    BY DEF FleetTypeOK
<1>2. CASE known = {}
    <2>1. capabilities' = Append(capabilities, cap)
        BY <1>2 DEF RegisterProfile
    <2>2. /\ Len(capabilities') = n + 1
          /\ DOMAIN capabilities' = 1 .. n + 1
          /\ \A i \in 1 .. n : capabilities'[i] = capabilities[i]
          /\ capabilities'[n + 1] = cap
        BY <2>1 DEF FleetTypeOK
    <2>3. \A i \in 1 .. n : capabilities[i].profile_name # cap.profile_name
        BY <1>1, <1>2 DEF Registered
    <2>4. OnePlaceEach'
        BY <1>1, <2>2, <2>3 DEF OnePlaceEach
    <2> QED
        BY <1>1, <2>2, <2>4
<1>3. CASE known # {}
    <2>1. capabilities' = [i \in 1 .. n |-> IF i \in known THEN cap ELSE capabilities[i]]
        <3>1. capabilities' = [i \in DOMAIN capabilities |->
                                 IF i \in known THEN cap ELSE capabilities[i]]
            BY <1>3, Zenon DEF RegisterProfile
        <3> QED
            BY <1>1, <3>1, Zenon
    <2>2. DOMAIN capabilities' = 1 .. n /\ Len(capabilities') = n
        BY <1>1, <2>1
    <2>3. \A i \in 1 .. n : capabilities'[i].profile_name = capabilities[i].profile_name
        BY <1>1, <2>1 DEF Registered
    <2>4. OnePlaceEach'
        BY <1>1, <2>2, <2>3 DEF OnePlaceEach
    <2> QED
        BY <1>1, <2>2, <2>3, <2>4
<1> QED
    BY <1>2, <1>3

\* What the modules that use the fleet controller may do to it: the registry
\* changes by registrations only.
FleetStep ==
    /\ busy' \subseteq Profiles
    /\ \/ capabilities' = capabilities
       \/ \E cap \in Capability : RegisterProfile(cap)

\* A profile keeps its one place in the registry, whoever calls the fleet
\* controller in whatever order.
THEOREM PlacesAreKept ==
    FleetTypeOK /\ OnePlaceEach /\ [][FleetStep]_fleetVars => PlaceIsKept
<1> DEFINE Kept == /\ Len(capabilities') >= Len(capabilities)
                   /\ \A i \in DOMAIN capabilities :
                        capabilities'[i].profile_name = capabilities[i].profile_name
                   /\ \A i, j \in DOMAIN capabilities' :
                        capabilities'[i].profile_name = capabilities'[j].profile_name
                          => i = j
<1>1. ASSUME FleetTypeOK, OnePlaceEach, [FleetStep]_fleetVars
      PROVE  FleetTypeOK' /\ OnePlaceEach' /\ Kept
    <2>1. CASE capabilities' = capabilities /\ busy' \subseteq Profiles
        BY <1>1, <2>1 DEF FleetTypeOK, OnePlaceEach
    <2>2. ASSUME NEW cap \in Capability, RegisterProfile(cap), busy' \subseteq Profiles
          PROVE  FleetTypeOK' /\ OnePlaceEach' /\ Kept
        BY <1>1, <2>2, RegisterKeepsType, RegisteringKeepsPlaces DEF FleetTypeOK, OnePlaceEach
    <2> QED
        BY <1>1, <2>1, <2>2 DEF FleetStep, fleetVars, FleetTypeOK
<1>2. FleetTypeOK /\ OnePlaceEach /\ [FleetStep]_fleetVars
        => FleetTypeOK' /\ OnePlaceEach' /\ [Kept]_fleetVars
    BY <1>1
<1> QED
    BY <1>2, PTL DEF PlaceIsKept

=============================================================================
