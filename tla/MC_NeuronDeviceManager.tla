---------------------- MODULE MC_NeuronDeviceManager ----------------------
(* Instantiation of NeuronDeviceManager for TLC.                          *)
EXTENDS NeuronDeviceManager

CONSTANTS t1, t2, t3

MC_Threads == {t1, t2, t3}
\* device_array_ indices: one more than a plan of [2,2] can fill
MC_Devices == 0..2
\* every thread can load a model
MC_NNIds == 1..3
\* each of up to three initializations can create two groups
MC_EgIds == 1..6
\* NEURONCORE_GROUP_SIZES=[2,2]
MC_GroupSizes == <<2, 2>>
\* opt_device_size and DEFAULT_NUM_CORES left negative
MC_Unset == -1
\* a failing create_eg makes init_devices stop early; a failing load ends a
\* thread; a failing unload RPC is only logged
MC_Failures == {"create_eg", "load", "unload"}
\* ... and the start and infer_post RPCs, whose errors are returned
MC_PoolFailures == MC_Failures \cup {"start", "infer_post"}
=============================================================================
