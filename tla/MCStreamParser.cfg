SPECIFICATION Spec
CONSTANTS
    Inputs <- MCInputs
    MaxWord = 2
    Words <- MCWords
    Formats <- MCFormats
    Numerals <- MCNumerals
    NumericLiterals <- MCNumericLiterals
    StringLiterals <- MCStringLiterals
    Codings <- MCCodings
    Controls <- MCControls
    UlongMax = 65535
    MaxFields = 1
INVARIANTS
    ErrorsAreReported
PROPERTIES
    UsesInterpreter
CHECK_DEADLOCK FALSE
