\* Three threads run two inferences each on a pool built from
\* NEURONCORE_GROUP_SIZES=[2,2] on a daemon with 4 cores; create_eg, load,
\* unload, start and infer_post may fail; the pool is torn down by
\* clear_if_empty and re-initialized by later threads.
CONSTANTS
    t1 = t1
    t2 = t2
    t3 = t3
    Threads <- MC_Threads
    Devices <- MC_Devices
    NNIds <- MC_NNIds
    EgIds <- MC_EgIds
    NoNN = NoNN
    NoEg = NoEg
    NoThread = NoThread
    SemCapacity = 1
    MaxOps = 2
    FailingRpcs <- MC_PoolFailures
    TotalCores = 4
    NumCoresReqVector <- MC_GroupSizes
    OptDeviceSize <- MC_Unset
    DefaultNumCores <- MC_Unset
    MinNumCores = 1
SPECIFICATION MSpec
INVARIANT MTypeOK PoolMatchesDaemon RoundRobinFair RunningMatchesDaemon DefaultGroupLargest
PROPERTY MTermination GroupRefinement
CHECK_DEADLOCK FALSE
