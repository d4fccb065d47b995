CONSTANTS
    doris = doris
    ray = ray
    peerRay = peerRay
    home = home
    peer = peer
    review = review
    consult = consult
    None = None
    LocalNode = home
    Profiles <- MCProfiles
    Nodes <- MCNodes
    Keywords <- MCKeywords
    Catalogue <- MCCatalogue
    Requested <- MCRequested
SPECIFICATION Spec
INVARIANTS
    DispatchIsRight
    LocalFirst
    RouteAgreesWithDiscover
PROPERTY PlaceIsKept
