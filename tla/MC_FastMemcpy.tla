--------------------------- MODULE MC_FastMemcpy ---------------------------
(* Instantiation of FastMemcpy for TLC, with the code's own thresholds.   *)
EXTENDS FastMemcpy

\* a tensor under 4 MiB and one over it whose size / 8 is not a multiple of 8
MC_BufSizes == {1031, 4194332}
\* the whole tensor, a small copy, and a large one with a ragged last slice
MC_ArgSizes == {-1, 1000, 4194311}
\* 8-aligned, 4-aligned and unaligned addresses
MC_Misaligns == {0, 1, 4}
MC_SerialLimit == 1024 * 1024 * 4
=============================================================================
