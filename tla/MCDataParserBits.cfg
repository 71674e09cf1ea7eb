SPECIFICATION DataSpec
CONSTANTS
    BitsPerByte = 3
    mChunkSize = 3
    MaxLength = 8
    MaxValueBits = 6
    Roots <- MCRoots
INVARIANTS
    FieldsAreTheirBits
