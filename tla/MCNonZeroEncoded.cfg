\* Encoder and decoder return: the system stops.
CONSTANTS
    Few = 1
    Schema <- MCSchema
    Root = "Outer"
    Callbacks = {}
    CallbackMayFail = FALSE
    PB_MAX_REQUIRED_FIELDS = 64
    CallbackMayVary = FALSE
    Sources <- MCSources
    BufSizes = {200}
    Modes = {"encode"}
    Inputs = {}
SPECIFICATION Spec
CHECK_DEADLOCK FALSE
INVARIANT NonZeroEncoded
