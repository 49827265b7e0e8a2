SPECIFICATION Spec
CONSTANTS
    w1 = w1
    w2 = w2
    i1 = i1
    s1 = s1
    s2 = s2
    s3 = s3
    StackId <- ThreeStacks
    Worker <- TwoWorkers
    Impersonator <- OneImpersonator
    WaitKinds <- AllWaits
    MaxDepth = 2
    MaxCalls = 2
    MaxSignals = 2
    MaxWaits = 2
    MaxImpersonations = 1
    Mortal = TRUE
INVARIANTS OneHolder StacksAccountedFor RepliesAccountedFor GuardedStatesUnreachable
SYMMETRY Symmetry
CHECK_DEADLOCK FALSE
