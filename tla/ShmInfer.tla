------------------------------- MODULE ShmInfer -------------------------------
(***************************************************************************)
(* NeuronDevice::infer (src/unnamed/part_000) run by the threads of one    *)
(* model over the SharedMemoryManager of that model.                       *)
(*                                                                         *)
(* When shm.enabled_, infer memcpys the caller's inputs into the shared    *)
(* input buffers, names the shared output buffers in the request, and      *)
(* copy_output_tensors reads the results back out of them: every thread of *)
(* the model uses the same buffers.  mutex_eg_ is held from start_model to *)
(* the return of copy_output_tensors.  Without enabled_ the inputs and     *)
(* outputs travel inline in the request and the response.                  *)
(*                                                                         *)
(* A thread's request is abstracted to the thread itself: the inputs it    *)
(* passes, and the outputs the daemon computes from them, are "its" data.  *)
(* A buffer holds the data of one thread, NoData, or Mixed (outputs        *)
(* computed from input buffers that held the data of several threads).     *)
(* infer_post and infer_wait never use the shared buffers.                 *)
(***************************************************************************)
EXTENDS SharedMemoryManager

CONSTANTS
    Threads,        \* threads calling infer on this model (model values)
    NoThread,       \* mutex_eg_ not held
    NoData,         \* what a buffer holds before any infer wrote it
    Mixed,          \* outputs computed from inputs of several requests
    InferStatuses,  \* status codes the daemon's infer may answer
    StartFails      \* whether start_model may fail

ASSUME /\ InferStatuses \subseteq {"NERR_OK", "NERR_INFER_COMPLETED_WITH_NUM_ERR", "NERR_FAIL"}
       /\ StartFails \in BOOLEAN
       \* a memcpy into MAP_FAILED is shm_map_failed's finding, not composed here
       /\ "mmap" \notin FailingCalls

VARIABLES
    mutex,      \* holder of mutex_eg_
    tpc,        \* where each thread is in infer
    data,       \* what each shared buffer holds
    answered,   \* the status the daemon answered each thread (history)
    out         \* the output tensors copy_output_tensors filled for each thread

infer_vars == <<mutex, tpc, data, answered, out>>
all_vars == <<vars, infer_vars>>

Terminal == {"ok", "error"}

(* The daemon reads the input buffers and writes the outputs of the        *)
(* request they hold.                                                      *)
Computed == IF \E t \in Threads : \A b \in Bufs("input") : data[b] = t
            THEN CHOOSE t \in Threads : \A b \in Bufs("input") : data[b] = t
            ELSE Mixed

(* The outputs read back from the shared output buffers.                  *)
ReadOutputs == IF \E v \in Threads \cup {NoData, Mixed} : \A b \in Bufs("output") : data[b] = v
               THEN CHOOSE v \in Threads \cup {NoData, Mixed} : \A b \in Bufs("output") : data[b] = v
               ELSE Mixed

-----------------------------------------------------------------------------
(* infer, up to the RPC: take mutex_eg_, start_model (its error returns    *)
(* and releases the lock), then build the request, memcpying the inputs   *)
(* into the shared input buffers when enabled_.  A manager exists once     *)
(* initialize has returned, whether or not it succeeded.                  *)
InferStart(t) ==
    /\ tpc[t] = "idle"
    /\ pc \in {"ready", "failed"}
    /\ mutex = NoThread
    /\ \E startOk \in IF StartFails THEN BOOLEAN ELSE {TRUE} :
         IF startOk
         THEN /\ mutex' = t
              /\ tpc' = [tpc EXCEPT ![t] = "rpc"]
              /\ data' = IF enabled THEN [b \in AllBufs |-> IF b \in Bufs("input") THEN t ELSE data[b]]
                                    ELSE data
              /\ UNCHANGED answered
         ELSE /\ tpc' = [tpc EXCEPT ![t] = "error"]
              /\ answered' = [answered EXCEPT ![t] = "start_model"]
              /\ UNCHANGED <<mutex, data>>
    /\ UNCHANGED <<vars, out>>

(* The status infer checks: a computation with inf/nan results is success. *)
\* Mutant: NERR_INFER_COMPLETED_WITH_NUM_ERR is passed on as an error.
RemapNone(code) == code

Remap(code) == IF code = "NERR_INFER_COMPLETED_WITH_NUM_ERR" THEN "NERR_OK" ELSE code

(* The infer RPC, still under mutex_eg_: the daemon computes from the     *)
(* input buffers into the output buffers when enabled_; NRT_CHECK_RETURN   *)
(* returns the error of a status other than NERR_OK, releasing the lock.  *)
\* Mutant: mutex_eg_ is let go once the RPC has returned.
InferRpcUnlocks(t) ==
    /\ tpc[t] = "rpc"
    /\ \E code \in InferStatuses :
         /\ answered' = [answered EXCEPT ![t] = code]
         /\ data' = IF enabled /\ code # "NERR_FAIL"
                    THEN [b \in AllBufs |-> IF b \in Bufs("output") THEN Computed ELSE data[b]]
                    ELSE data
         /\ tpc' = [tpc EXCEPT ![t] = IF Remap(code) = "NERR_OK" THEN "copy" ELSE "error"]
         /\ mutex' = NoThread
    /\ UNCHANGED <<vars, out>>

InferRpc(t) ==
    /\ tpc[t] = "rpc"
    /\ \E code \in InferStatuses :
         /\ answered' = [answered EXCEPT ![t] = code]
         /\ data' = IF enabled /\ code # "NERR_FAIL"
                    THEN [b \in AllBufs |-> IF b \in Bufs("output") THEN Computed ELSE data[b]]
                    ELSE data
         /\ IF Remap(code) = "NERR_OK"
            THEN tpc' = [tpc EXCEPT ![t] = "copy"] /\ UNCHANGED mutex
            ELSE tpc' = [tpc EXCEPT ![t] = "error"] /\ mutex' = NoThread
    /\ UNCHANGED <<vars, out>>

(* The end of infer: with enabled_, add the shared output buffers to the   *)
(* response's ofmap; copy_output_tensors then tensor_memcpys each output   *)
(* named in output_names from the ofmap entry of that name, and infer      *)
(* returns, releasing mutex_eg_.  Every name is found: the shared ofmap is *)
(* built from output_names, and the daemon answers every output inline.  *)
InferCopy(t) ==
    /\ tpc[t] = "copy"
    /\ out' = [out EXCEPT ![t] = IF enabled THEN ReadOutputs ELSE t]
    /\ tpc' = [tpc EXCEPT ![t] = "ok"]
    /\ mutex' = NoThread
    /\ UNCHANGED <<vars, data, answered>>

ThreadStep(t) == InferStart(t) \/ InferRpc(t) \/ InferCopy(t)

(* The manager's owner destroys it once no infer uses it.                  *)
Destroy ==
    /\ \A t \in Threads : tpc[t] \in Terminal
    /\ DestructorStart \/ DestructorStep
    /\ UNCHANGED infer_vars

-----------------------------------------------------------------------------
SInit ==
    /\ Init
    /\ mutex = NoThread
    /\ tpc = [t \in Threads |-> "idle"]
    /\ data = [b \in AllBufs |-> NoData]
    /\ answered = [t \in Threads |-> "none"]
    /\ out = [t \in Threads |-> NoData]

SNext == (InitBuffer /\ UNCHANGED infer_vars) \/ Destroy \/ \E t \in Threads : ThreadStep(t)

SSpec == SInit /\ [][SNext]_all_vars /\ WF_all_vars(SNext)

-----------------------------------------------------------------------------
STypeOK ==
    /\ TypeOK
    /\ mutex \in Threads \cup {NoThread}
    /\ tpc \in [Threads -> {"idle", "rpc", "copy", "ok", "error"}]
    /\ data \in [AllBufs -> Threads \cup {NoData, Mixed}]
    /\ out \in [Threads -> Threads \cup {NoData, Mixed}]

(* An infer that returns OK hands its caller the outputs of its own       *)
(* inputs, although every thread of the model shares the same input and   *)
(* output buffers; and an infer fails only when start_model or the daemon *)
(* failed, a result with inf/nan values being a success.                  *)
InferReturnsOwnOutputs ==
    \A t \in Threads :
        /\ tpc[t] = "ok" => out[t] = t
        /\ tpc[t] = "error" => answered[t] \in {"start_model", "NERR_FAIL"}

=============================================================================
