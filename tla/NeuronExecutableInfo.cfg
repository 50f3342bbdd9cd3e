\* Every NodeDef over the abstraction: the keys present or not, list sizes
\* of 1 or 2, the shuffles attribute absent or holding 0 to 2 tensors of
\* either kind, model_config of size 2 or 3 with entries on each side of the range checks, below 2^32 and above.
CONSTANTS
    Counts <- MC_Counts
    HighWords <- MC_HighWords
    Words <- MC_Words
    ShuffleLens <- MC_ShuffleLens
SPECIFICATION Spec
INVARIANT ModelConfigAsChecked
CHECK_DEADLOCK FALSE
