SPECIFICATION Spec
CONSTANTS
    GlobTable <- MCGlobTable
    Texts <- MCTexts
    Phrases <- MCPhrases
INVARIANTS
    ReadsBack
    WordsKept
    Understood
