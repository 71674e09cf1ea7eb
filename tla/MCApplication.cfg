SPECIFICATION ApplicationSpec
CONSTANTS
    BitsPerByte = 3
    mChunkSize = 3
    MaxLength = 7
    MaxValueBits = 6
    Roots <- MCRoots
    ArgVs <- MCArgVs
    Readable <- MCReadable
INVARIANTS
    ApplicationTypeOK
    ValuesAreOfTheirBits
    WholeOrNarrowFieldsAreRead
    ValuesAreWhatWasWritten
    SuccessReadsAllData
PROPERTIES
    ImplementsObserver
    EveryRunEnds
