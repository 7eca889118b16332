SPECIFICATION FairSpec
CONSTANTS
    p1 = p1
    p2 = p2
    p3 = p3
    p4 = p4
    Pid = {p1, p2, p3}
    Shell = Shell
    None = None
    Ready = Ready
    Programs <- Pipelines
    FunctionBody <- PipelineFunction
INVARIANT WaitedIsForeground
INVARIANT NoStuckWait
INVARIANT StartsInForeground
PROPERTY PromptReturns
