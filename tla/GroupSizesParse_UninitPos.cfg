\* Every NEURONCORE_GROUP_SIZES value of up to five characters, with the
\* search start of remove_pattern left to the uninitialized pos.
CONSTANTS
    Chars <- MC_Chars
    MaxLen = 5
    MaxNumCores = 64
SPECIFICATION Spec
INVARIANT GroupSizesAsWritten
