SPECIFICATION Spec
CONSTANTS
    Words <- MCWords
    Formats <- MCFormats
    Numerals <- MCNumerals
    NumericLiterals <- MCNumericLiterals
    StringLiterals <- MCStringLiterals
    Codings <- MCCodings
    Controls <- MCControls
    UlongMax = 65535
    MaxFields = 2
INVARIANTS
    TypeOK
    FieldsAsDeclared
    NoStatementLost
PROPERTIES
    ImplementsTree
CHECK_DEADLOCK FALSE
