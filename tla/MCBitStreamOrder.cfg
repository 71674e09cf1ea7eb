SPECIFICATION Spec
CONSTANTS
    BitsPerByte = 2
    mChunkSize = 2
    MaxLength = 6
INVARIANTS
    HandedOverInOrder
