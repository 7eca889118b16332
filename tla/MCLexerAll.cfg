SPECIFICATION Spec
CONSTANTS
    GlobTable <- MCGlobTable
    Letters <- MCLetters
    LongNames <- MCLongNames
    Texts <- MCTexts
    Phrases <- MCPhrases
INVARIANTS
    Balanced
    ReadsAgain
    NothingLost
    ReadAsMeant
    AssertionsHold
