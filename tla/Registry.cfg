SPECIFICATION RegistrySpec
CONSTANTS
    u1 = u1
    u2 = u2
    u3 = u3
    u4 = u4
    k1 = k1
    k2 = k2
    Entry <- Threads
    KernelEntry <- KernelThreads
    ID <- ThreadIDs
    NSID <- ThreadIDs
    IdOf <- ThreadId
    NsidOf <- ThreadNsid
INVARIANTS LiveIsFound OnlyTheOvertakenLinger
CHECK_DEADLOCK FALSE
