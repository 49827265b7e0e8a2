SPECIFICATION FairSpec
CONSTANTS
    w1 = w1
    w2 = w2
    i1 = i1
    s1 = s1
    s2 = s2
    s3 = s3
    StackId <- TwoStacks
    Worker <- OneWorker
    Impersonator <- OneImpersonator
    WaitKinds <- AllWaits
    MaxDepth = 1
    MaxCalls = 2
    MaxSignals = 1
    MaxWaits = 2
    MaxImpersonations = 1
    Mortal = TRUE
PROPERTIES ClientReturns DeadIsReleased
CHECK_DEADLOCK FALSE
