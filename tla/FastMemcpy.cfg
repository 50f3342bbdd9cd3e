\* tensor_memcpy on every combination of dtype, size argument, buffer
\* sizes, address alignments and thread pool, with the code's thresholds.
CONSTANTS
    ArgSizes <- MC_ArgSizes
    BufSizes <- MC_BufSizes
    Misaligns <- MC_Misaligns
    SmallLimit = 1024
    SerialLimit <- MC_SerialLimit
SPECIFICATION Spec
INVARIANT TypeOK CopiesAligned CopyExact
CHECK_DEADLOCK FALSE
