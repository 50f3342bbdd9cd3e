----------------------------- MODULE MC_ShmInfer -----------------------------
(* Instantiation of ShmInfer for TLC.                                      *)
EXTENDS ShmInfer

CONSTANTS t1, t2

MC_Threads == {t1, t2}
\* every OS call and RPC of initialize but mmap may fail
MC_FailingCalls == {"gen_shm_name", "shm_open", "ftruncate", "shm_map"}
\* the daemon may succeed, succeed with inf/nan results, or fail
MC_InferStatuses == {"NERR_OK", "NERR_INFER_COMPLETED_WITH_NUM_ERR", "NERR_FAIL"}
=============================================================================
