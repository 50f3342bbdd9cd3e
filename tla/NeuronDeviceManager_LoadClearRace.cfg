\* As NeuronDeviceManager.cfg: does a group keep only ids of models the
\* daemon holds in it, while clear_if_empty races with a load?
CONSTANTS
    t1 = t1
    t2 = t2
    t3 = t3
    Threads <- MC_Threads
    Devices <- MC_Devices
    NNIds <- MC_NNIds
    EgIds <- MC_EgIds
    NoNN = NoNN
    NoEg = NoEg
    NoThread = NoThread
    SemCapacity = 1
    MaxOps = 1
    FailingRpcs <- MC_Failures
    TotalCores = 4
    NumCoresReqVector <- MC_GroupSizes
    OptDeviceSize <- MC_Unset
    DefaultNumCores <- MC_Unset
    MinNumCores = 1
SPECIFICATION MSpec
INVARIANT NoStaleModelIds
CHECK_DEADLOCK FALSE
