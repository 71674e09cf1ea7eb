SPECIFICATION Spec
CONSTANTS
    MaxStates = 3
    MaxActions = 3
    MaxRequests = 2
INVARIANTS
    TypeOK
    ToldOnlyOfCurrentState
PROPERTIES
    EveryCallReturns
    ImplementsSlots
