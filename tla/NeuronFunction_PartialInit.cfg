\* Parsing the NodeDef or placing its cores may fail after exe_ is set.
CONSTANTS
    Threads = {t1, t2}
    NoThread = NoThread
    Junk = Junk
    Shuffles <- MC_Shuffles
    NumElems = 3
    Vals = {a, b}
    NumRanges = 2
    FailingSteps <- MC_InitFailures
SPECIFICATION Spec
INVARIANT InitializedBeforeUse
CHECK_DEADLOCK FALSE
