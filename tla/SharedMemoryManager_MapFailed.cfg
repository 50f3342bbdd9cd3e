\* One input, one output, mmap may fail as well: does a successful
\* initialize leave only live mappings registered with the daemon?
CONSTANTS
    NumInputs = 1
    NumOutputs = 1
    FailingCalls <- MC_AllFailingCalls
SPECIFICATION Spec
INVARIANT EnabledBuffersMapped
CHECK_DEADLOCK FALSE
