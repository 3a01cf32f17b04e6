\* After the last request, or a panic without a restart, the system stops.
CONSTANTS
    Schema <- RpcSchema
    Root = "Request"
    Callbacks = {}
    Inputs = {}
    CallbackMayFail = FALSE
    PB_MAX_REQUIRED_FIELDS = 64
    Payloads <- MCPayloads
    Meaning <- MCMeaning
    Tails <- MCTails
    HeapMayFail = TRUE
    MaxRequests = 2
    MaxCrashes = 1
SPECIFICATION Spec
CHECK_DEADLOCK FALSE
INVARIANTS
    OnlyIntended
    ZeroFreeObeyed
    ReplyMatches
    RobotAligned
    AllExecuted
    NothingInvented
