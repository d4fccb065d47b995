CONSTANTS
    doris = doris
    ray = ray
    peerRay = peerRay
    peerOps = peerOps
    home = home
    peer = peer
    review = review
    consult = consult
    deploy = deploy
    None = None
    LocalNode = home
    Profiles <- MCProfiles
    Nodes <- MCNodes
    Keywords <- MCKeywords
    r1 = r1
    r2 = r2
    r3 = r3
    Requested <- MCRequested
    InitialCapabilities <- MCInitialCapabilities
    Skills <- MCSkills
    Requests = {r1, r2}
    Cancellable = {r1}
    DispatchResults = {"completed", "failed"}
    MeshWired = TRUE
    AwaitMayFail = FALSE
    AuditMayFail = FALSE
SPECIFICATION Spec
PROPERTY RoutedTaskIsSentToPeer
