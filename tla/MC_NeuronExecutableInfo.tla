--------------------- MODULE MC_NeuronExecutableInfo ---------------------
(* Instantiation of NeuronExecutableInfo for TLC.                         *)
EXTENDS NeuronExecutableInfo

\* one or two inputs and outputs: enough for a list one entry short
MC_Counts == {1, 2}
\* an int64 below 2^32, or between 2^32 and 2^33
MC_HighWords == {0, 1}
\* each side of the range checks: -1 and 0, 1023 and 1024
MC_Words == {-1, 0, 1, 1023, 1024}
\* an empty shuffle (no shuffle for that input) and a non-empty one
MC_ShuffleLens == {0, 2}
=============================================================================
