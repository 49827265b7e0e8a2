SPECIFICATION Spec
CONSTANTS
    w1 = w1
    w2 = w2
    i1 = i1
    s1 = s1
    s2 = s2
    s3 = s3
    StackId <- ThreeStacks
    Worker <- OneWorker
    Impersonator <- OneImpersonator
    WaitKinds <- AllWaits
    MaxDepth = 1
    MaxCalls = 2
    MaxSignals = 1
    MaxWaits = 1
    MaxImpersonations = 0
    Mortal = FALSE
INVARIANTS PushedReplyIsKept
SYMMETRY Symmetry
CHECK_DEADLOCK FALSE
