------------------------------ MODULE MC_Sigint ------------------------------
(* Instantiation of Sigint for TLC.                                        *)
EXTENDS Sigint

CONSTANTS t1, t2

MC_Threads == {t1, t2}
\* device_array_ indices: one more than a plan of [2,2] can fill
MC_Devices == 0..2
MC_NNIds == 1..2
\* each of up to two initializations can create two groups
MC_EgIds == 1..4
\* NEURONCORE_GROUP_SIZES=[2,2]
MC_GroupSizes == <<2, 2>>
\* opt_device_size and DEFAULT_NUM_CORES left negative
MC_Unset == -1
\* the RPCs clear only logs may fail
MC_Failures == {"clear_stop", "unload"}
=============================================================================
