\* Every program of three instructions after the prelude.
SPECIFICATION Spec
CONSTANTS
    Programs <- AnyPrograms
    Positional <- MCPositional
    Environment0 <- MCEnvironment
    HomeDir <- X
    Unopenable = {}
    Fates <- MCFates
    MaxSpawned = 3
    GlobTable <- NoGlobs
INVARIANTS IInv
PROPERTIES FramesIsolated
