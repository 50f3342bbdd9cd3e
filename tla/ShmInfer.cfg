\* Two threads run infer on one model with three inputs and two outputs;
\* the model's initialize may fail at any call of any buffer but mmap, and
\* infer then goes inline; the destructor runs once both infers returned.
CONSTANTS
    t1 = t1
    t2 = t2
    Threads <- MC_Threads
    NoThread = NoThread
    NoData = NoData
    Mixed = Mixed
    NumInputs = 3
    NumOutputs = 2
    FailingCalls <- MC_FailingCalls
    InferStatuses <- MC_InferStatuses
    StartFails = TRUE
SPECIFICATION SSpec
INVARIANT STypeOK ReverseOrderRelease CleanTeardown InferReturnsOwnOutputs
CHECK_DEADLOCK FALSE
