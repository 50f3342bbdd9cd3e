\* Two threads share a pool built from NEURONCORE_GROUP_SIZES=[2,2]; SIGINT
\* may arrive on either thread at any point after the handler is installed.
\* Does the handler tear the pool down and re-raise?
CONSTANTS
    t1 = t1
    t2 = t2
    Threads <- MC_Threads
    Devices <- MC_Devices
    NNIds <- MC_NNIds
    EgIds <- MC_EgIds
    NoNN = NoNN
    NoEg = NoEg
    NoThread = NoThread
    SemCapacity = 1
    MaxOps = 1
    FailingRpcs <- MC_Failures
    TotalCores = 4
    NumCoresReqVector <- MC_GroupSizes
    OptDeviceSize <- MC_Unset
    DefaultNumCores <- MC_Unset
    MinNumCores = 1
SPECIFICATION SSpec
PROPERTY HandlerTearsDown
CHECK_DEADLOCK FALSE
