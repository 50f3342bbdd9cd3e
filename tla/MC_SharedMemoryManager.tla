--------------------- MODULE MC_SharedMemoryManager ---------------------
(* Instantiation of SharedMemoryManager for TLC.                          *)
EXTENDS SharedMemoryManager

\* every OS call and RPC of initialize but mmap may fail
MC_FailingCalls == {"gen_shm_name", "shm_open", "ftruncate", "shm_map"}
\* ... and mmap too
MC_AllFailingCalls == MC_FailingCalls \cup {"mmap"}
=============================================================================
