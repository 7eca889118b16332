SPECIFICATION Spec
CONSTANTS
  Tree <- TreeMC
  Volatile <- VolatileMC
  Started <- StartedMC
  BinDir <- BinDirMC
  DefaultPath <- DefaultPathMC
  Inherited <- InheritedMC
  Exports <- ExportsMC
  Operands <- OperandsMC
  Specs <- SpecsMC
  Commands <- CommandsMC
  Builtins <- BuiltinsMC
  Functions <- FunctionsMC
  MaxSteps = 3
INVARIANTS
  LandsWhereAsked
  PathAsAsked
  StartsWhatItFound
  WhichTellsTheTruth
