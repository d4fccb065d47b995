CONSTANTS
    t1 = t1
    t2 = t2
    t3 = t3
    server = server
    gateway = gateway
    recovery = recovery
    doris = doris
    ray = ray
    cody = cody
    home = home
    consultation = consultation
    action = action
    other = other
    code = code
    None = None
    LocalNode = home
    Nodes = {home}
    Profiles <- MCProfiles
    Keywords <- MCKeywords
    Consultation = consultation
    ActionRequest = action
    Callers = {server, recovery}
    Recovery = recovery
    Tasks = {t1, t2, t3}
    InFlight = {}
    InitialCapabilities <- MCConsultants
    Submitted <- MCSubmitted
    Reports = {"completed", "failed", "cancelled", "input_required", "escalated"}
    QuestionTags <- MCQuestionTags
    SpecialistResults = {"completed", "failed", "input_required", "escalated", "raised"}
    ResumeResults = {"completed", "input_required", "raised"}
    NamesProfile = {TRUE}
    MAX_SPECIALIST_DEPTH = 2
SPECIFICATION Spec
INVARIANTS
    ResumedWithAnAnswer
