SPECIFICATION Spec
CONSTANTS
    GlobTable <- MCGlobTable
    Letters <- MCLetters
    LongNames <- MCLongNames
    Lines <- MCLines
    Continuations <- MCContinuations
    Closers <- MCClosers
    MaxLines = 3
INVARIANTS
    Accounted
    WaitsWhileOpen
    RefusedForGood
