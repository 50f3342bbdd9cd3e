-------------------------- MODULE MC_NeuronDevice --------------------------
(* Instantiation of NeuronDevice for TLC: the threads are model values,   *)
(* model and group handles small integer ranges.                          *)
EXTENDS NeuronDevice

CONSTANTS t1, t2, t3, d1

MC_Threads == {t1, t2, t3}
MC_Devices == {d1}
\* one model handle per thread: every thread can load
MC_NNIds == 1..3
MC_EgIds == 1..2

\* Transport and daemon failures of the calls whose errors are returned, and
\* of the stop RPC that unload only logs.
MC_AllFailures == {"load", "start", "infer_post", "stop"}
=============================================================================
