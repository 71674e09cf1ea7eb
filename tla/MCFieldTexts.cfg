SPECIFICATION FieldTextsSpec
CONSTANTS
    TheoreticalMaxUnicodePoint = 1114111
    CodingNames <- MCCodingNames
    TermChars = {0, 36, 65535}
    Texts <- MCTexts
    Bytes <- MCBytes
    MaxIndex = 4
INVARIANTS
    TextsAreReadAsWritten
    NothingIsSkipped
PROPERTIES
    FieldIsAsDescribed
    FinishedFieldStays
