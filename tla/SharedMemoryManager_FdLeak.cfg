\* One input, one output, every call but mmap may fail: is every descriptor
\* shm_open returned closed once the destructor has run?
CONSTANTS
    NumInputs = 1
    NumOutputs = 1
    FailingCalls <- MC_FailingCalls
SPECIFICATION Spec
INVARIANT NoDescriptorLeak
CHECK_DEADLOCK FALSE
