CONSTANTS
    c1 = c1
    c2 = c2
    c3 = c3
    c4 = c4
    o1 = o1
    server = server
    gateway = gateway
    plain = plain
    home = home
    peer = peer
    local = local
    ray = ray
    cody = cody
    consultation = consultation
    action = action
    None = None
    Calls = {c1, c2, c3, c4}
    Threads = {server, gateway, plain}
    ThreadOf <- MCThreadOf
    LoopThreads = {server, gateway}
    Nodes = {home, peer, local}
    TargetOf <- MCTargetOf
    Local = local
    Wirings = {TRUE, FALSE}
    PoolSize = 1
    LocalResults = {"raised"}
    PeerNode = peer
    Clients = {peer}
    Profiles = {ray, cody}
    PeerCapabilities <- MCPeerCapabilities
    Keywords = {consultation, action}
    Consultation = consultation
    ActionRequest = action
    Others = {o1}
    OtherMessages <- MCOtherMessages
    AgentResults = {"completed", "raised"}
    MaxRestarts = 1
SPECIFICATION FairSpec
INVARIANTS
    TypeOK
    PeerTrackerIsExact
PROPERTIES
    ImplementsRemoteCall
