SPECIFICATION Spec
CONSTANTS
  Alphabet <- AlphabetMC
  Home <- HomeMC
  Trees <- TreesMC
  Wanted <- WantedMC
  Volatile <- VolatileMC
  MaxChanges = 2
INVARIANTS
  FoundOnce
PROPERTIES
  Implements
  Ends
