CONSTANTS
    MaxFields = 3
    Structs <- MCStructs
SPECIFICATION Spec
INVARIANTS
    PointersRight
    SearchesComplete
    RequiredCounted
