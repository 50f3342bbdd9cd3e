\* Two threads call Run on one NeuronFunction; the placer and each later
\* step of Run may fail, the NodeDef parses and the cores are placed.
CONSTANTS
    Threads = {t1, t2}
    NoThread = NoThread
    Junk = Junk
    Shuffles <- MC_Shuffles
    NumElems = 3
    Vals = {a, b}
    NumRanges = 2
    FailingSteps <- MC_RunFailures
SPECIFICATION Spec
INVARIANT TypeOK InputsAreShuffledInputs
CHECK_DEADLOCK FALSE
