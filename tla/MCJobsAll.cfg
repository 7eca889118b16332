SPECIFICATION Spec
CONSTANTS
    p1 = p1
    p2 = p2
    p3 = p3
    p4 = p4
    Pid = {p1, p2, p3, p4}
    Shell = Shell
    None = None
    Ready = Ready
    Programs <- Lines
    FunctionBody <- FunctionLine
SYMMETRY PidSymmetry
INVARIANT IInv
INVARIANT StatusFaithful
INVARIANT NoJobLost
INVARIANT PromptOwnsTty
PROPERTY StatusSticky
