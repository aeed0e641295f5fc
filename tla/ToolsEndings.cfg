SPECIFICATION Spec
CONSTANTS
    Parts = {"text"}
    None = None
    Torn = Torn
    vA = vA
    vB = vB
    vC = vC
    vD = vD
    vE = vE
    vF = vF
    vG = vG
    vK = vK
    vM = vM
    vN = vN
    vP = vP
    vQ = vQ
    vR = vR
    Logins = {vA, vB}
    MaxTokens = 3
    MaxPolls = 2
    Uploads = {vA, vB}
    Home = vC
    Legacy = vD
    Imported = vE
    Contents = {vF, vG}
    Content <- ContentOf
    Thumbnail <- ThumbnailOf
    MaxItems = 1
    StateClients = {vA, vB, vC}
    StateExtensions = {vD, vE}
    StateOf <- ExtensionOf
    Permitted = {vD, vE}
    StatePlaces = {vF, vG}
    Connections = {vG}
    Persistent = FALSE
    StateKeys = {vK}
    Values = {vA, vB}
    MaxWrites = 4
    SessionModels = {vA, vB}
    Original = vA
    MaxEntries = 4
    MaxChanges = 2
    WriteCalls = {vA}
    EditCalls = {vB, vC}
    Streams = {vD}
    Shells = {vA}
    Pythons = {vB}
    Tests = {vC}
    Timed = {vB}
    Limit = 1
    Providers = {vA, vB, vC}
    ServedModels = {vM, vN}
    Native = {vA}
    Setters = {vA, vB}
    Chat <- MessagePairs
    MaxLogged = 4
    MaxCalls = 3
    Actions = {vA, vB}
    Idempotent = {vA}
    NeedApproval = {vB}
    ActionKeys = {vM, vN}
    Payloads = {vP, vQ}
    MaxConcurrency = 2
    Capacity = 1
    Definitions <- TwoDefinitions
    Prompts = {vA, vB}
    Compactions = {vC, vD}
    AppSessions = {vE, vF}
    FirstSession = vE
    MaxJobs = 1
    Plan <- TwoInOrder
    Blocked = {vC}
    ContributionKeys = {vP, vQ}
    Development = TRUE
    MaxIndex = 3
    Bundles = {vA, vB}
    BundleOwner <- OneId
    BundleIds = {vC}
    Tasks = {vD}
    Paths = {vP, vQ}
    Sizes = {1, 2}
    MaxTotal = 2
    MaxUses = 3
INVARIANT
    EndingsAreRestored
CHECK_DEADLOCK FALSE
