CONSTANTS
    doris = doris
    ray = ray
    peerRay = peerRay
    peerOps = peerOps
    home = home
    peer = peer
    review = review
    consult = consult
    deploy = deploy
    None = None
    LocalNode = home
    Profiles <- MCProfiles
    Nodes <- MCNodes
    Keywords <- MCKeywords
    r1 = r1
    r2 = r2
    r3 = r3
    Requested <- MCLocalAndAddressed
    InitialCapabilities <- MCInitialCapabilities
    Skills <- MCOneSkill
    Requests = {r1, r2, r3}
    Cancellable = {r1}
    DispatchResults = {"completed", "failed", "input_required", "raised"}
    MeshWired = TRUE
    AwaitMayFail = TRUE
    AuditMayFail = FALSE
SPECIFICATION Spec
SYMMETRY AnyOrder
INVARIANTS
    NoOvercommit
    BusyIsHeld
    TrailMatchesOutcome
PROPERTIES
    ImplementsSlots
    FreedWithTheAnswer
