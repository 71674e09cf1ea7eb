SPECIFICATION Spec
CONSTANTS
    UintBits = 8
    TheoreticalMaxUnicodePoint = 1114111
    NumericTexts <- MCNumericTexts
    StringTexts <- MCStringTexts
    MaxUnread = 1
    MaxPair = 6
INVARIANTS
    LiteralsTypeOK
    NumbersMeanTheirText
    StringsMeanTheirText
    LiteralsAreAccepted
PROPERTIES
    VerdictsAsAssumed
CHECK_DEADLOCK FALSE
