\* A reader stops when its varint is complete: the system stops.
CONSTANTS
    Bytes <- MCBytes
SPECIFICATION Spec
CHECK_DEADLOCK FALSE
INVARIANTS
    LoopsMatch
    ShortVarintsAgree
    Reads32Bits
    EncodesBack
