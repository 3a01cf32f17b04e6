CONSTANTS
    MaxFields = 0
    Structs <- FullGap
SPECIFICATION Spec
INVARIANT PointersRight
