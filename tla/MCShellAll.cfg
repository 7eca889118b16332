\* Every line of MCShell, every fate of every command.
SPECIFICATION FairCommandSpec
CONSTANTS
    Commands <- AllCommands
    Programs = {}
    Positional <- MCPositional
    Environment0 <- MCEnvironment
    HomeDir <- MCHomeDir
    Unopenable <- MCUnopenable
    GlobTable <- MCGlobTable
    Fates <- MCFates
    MaxSpawned = 5
INVARIANTS SpawnsAsWritten FinishesAsWritten OperandsInFrame BalancedAtExit PipesFlow
PROPERTIES Terminates
