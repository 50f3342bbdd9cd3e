--------------------------- MODULE MC_NeuronFunction ---------------------------
(* NeuronFunction for TLC: two inputs of three elements, the first with a   *)
(* shuffle that rotates it, the second with none.                          *)
EXTENDS NeuronFunction

MC_Shuffles == << <<2, 0, 1>>, <<>> >>

\* Failures a Run can meet once the NodeDef is well formed.
MC_RunFailures == {"placer_status", "input_shape", "allocate_output", "shuffle"}

\* Also the failures of ParseFromNodeDef and of the core placement.
MC_InitFailures == {"parse_checks", "core_ranges"}
====
