\* An observer that refuses goes on refusing, as the Interpreter does.
SPECIFICATION Spec
CONSTANTS
    Inputs <- MCInputs
    Consistent = TRUE
    MaxWord = 3
INVARIANTS
    TypeOK
    NoWordLost
    AtMostOneAfterRefusal
PROPERTIES
    WordsAreWhole
    CommentEndsItself
    EveryCallReturns
