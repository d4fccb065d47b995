CONSTANTS
    t1 = t1
    t2 = t2
    t3 = t3
    server = server
    gateway = gateway
    recovery = recovery
    doris = doris
    ray = ray
    cody = cody
    home = home
    consultation = consultation
    action = action
    other = other
    code = code
    None = None
    LocalNode = home
    Nodes = {home}
    Profiles = {ray, cody}
    Keywords <- MCKeywords
    Consultation = consultation
    ActionRequest = action
    Callers = {server, gateway, recovery}
    Recovery = recovery
    Tasks = {t1, t2, t3}
    InFlight = {t3}
    InitialCapabilities <- MCNoConsultants
    Submitted <- MCOthers
    Reports = {"completed", "cancelled", "input_required", "escalated"}
    QuestionTags <- MCQuestionTags
    SpecialistResults = {"completed", "input_required", "escalated", "raised"}
    ResumeResults = {"completed", "failed", "raised"}
    NamesProfile = {TRUE}
    MAX_SPECIALIST_DEPTH = 1
SPECIFICATION Spec
SYMMETRY MCSymmetry
INVARIANTS
    TypeOK
    NoProfileIsLost
    TrackerIsExact
    FlagFitsStatus
PROPERTIES
    ChainsAreBounded
