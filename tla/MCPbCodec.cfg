\* Encoder and decoder return: the system stops.
CONSTANTS
    Few = 2
    Schema <- MCSchema
    Root = "Outer"
    Callbacks <- MCCallbacks
    CallbackMayFail = TRUE
    PB_MAX_REQUIRED_FIELDS = 64
    CallbackMayVary = TRUE
    Sources <- MCSources
    BufSizes = {3, 20, 200}
    Modes = {"encode", "delimited", "nullterminated", "size"}
    Inputs = {}
SPECIFICATION Spec
CHECK_DEADLOCK FALSE
INVARIANTS
    OutContained
    PassesAgree
    RoundTrip
PROPERTIES
    BothReturn
