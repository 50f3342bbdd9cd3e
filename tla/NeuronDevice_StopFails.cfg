\* Three threads share one group, with load, start, infer_post and the stop
\* RPC of unload failing at will: unload logs a failed stop and forgets the
\* running model all the same.
CONSTANTS
    t1 = t1
    t2 = t2
    t3 = t3
    d1 = d1
    Threads <- MC_Threads
    Devices <- MC_Devices
    NNIds <- MC_NNIds
    EgIds <- MC_EgIds
    NoNN = NoNN
    NoEg = NoEg
    NoThread = NoThread
    SemCapacity = 1
    MaxOps = 2
    FailingRpcs <- MC_AllFailures
SPECIFICATION Spec
INVARIANT OneModelStartedPerGroup
CHECK_DEADLOCK FALSE
