\* pb_decode returns: the system stops.
CONSTANTS
    MaxLen = 3
    Schema <- MCSchema
    Root = "Outer"
    Callbacks <- MCCallbacks
    Inputs <- MCInputs
    CallbackMayFail = TRUE
    PB_MAX_REQUIRED_FIELDS = 1
SPECIFICATION PbSpec
CHECK_DEADLOCK FALSE
INVARIANTS
    PbTypeOK
    StreamContained
    CountsInBounds
    SizesInBounds
    UnionConsistent
    RequiredStored
    FixedCountsFull
PROPERTIES
    Terminates
