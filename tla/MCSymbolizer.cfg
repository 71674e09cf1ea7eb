\* The observer may veto the reports of runs.
SPECIFICATION Spec
CONSTANTS
    Symbols <- MCSymbols
    Width <- MCWidth
    Registrations <- MCRegistrations
    VetoedCategories = {"A", "Unknown"}
    MaxLength = 2
    MaxChunk = 3
    MaxStream = 6
INVARIANTS
    TypeOK
    DeliveredOnce
    ReportsAreTheRuns
