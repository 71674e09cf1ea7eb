SPECIFICATION ParsePositionsSpec
CONSTANTS
    Streams <- MCStreams
    aChunkSize = 3
    aPretextLen = 2
    aPosttextLen = 2
    Pushes <- MCPushes
INVARIANTS
    ErrorsAreWhereTheyAre
    WindowSlides
