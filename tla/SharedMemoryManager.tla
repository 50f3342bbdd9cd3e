------------------------- MODULE SharedMemoryManager -------------------------
(***************************************************************************)
(* The shared-memory fast path of one model (class SharedMemoryManager,    *)
(* src/unnamed/part_000): initialize creates, sizes, maps and registers    *)
(* with neuron-rtd one POSIX shared-memory object per input and output     *)
(* tensor; the destructor unregisters, unmaps and unlinks them.            *)
(*                                                                         *)
(* One thread owns the manager, so a step is a whole call: the set-up of   *)
(* one buffer in init_vectors, or one loop of the destructor.  The OS and  *)
(* the daemon are seen through the objects, descriptors and mappings each  *)
(* call leaves behind.                                                     *)
(***************************************************************************)
EXTENDS Naturals, Sequences

CONSTANTS
    NumInputs,     \* input tensors of the model
    NumOutputs,    \* output tensors of the model
    FailingCalls   \* calls of initialize that may fail

ASSUME NumInputs + NumOutputs >= 1
ASSUME FailingCalls \subseteq {"gen_shm_name", "shm_open", "ftruncate", "mmap", "shm_map"}

Dirs == <<"input", "output">>
Bufs(dir) == {[dir |-> dir, idx |-> i] : i \in 1..(IF dir = "input" THEN NumInputs ELSE NumOutputs)}
AllBufs == Bufs("input") \cup Bufs("output")
\* init_vectors runs over the inputs, then over the outputs
InitOrder == [i \in 1..(NumInputs + NumOutputs) |->
                IF i <= NumInputs THEN [dir |-> "input", idx |-> i]
                ELSE [dir |-> "output", idx |-> i - NumInputs]]

VARIABLES
    pc,           \* "init", "ready", "failed", "destroy", "gone"
    stage,        \* the destructor's loop under way
    next,         \* the buffer of InitOrder init_vectors sets up next
    names,        \* buffers in input_names_ / output_names_
    ptrs,         \* buffers in input_ptrs_ / output_ptrs_
    map_failed,   \* buffers whose ptrs_ entry is what a failed mmap returned
    grpc_names,   \* buffers in input_grpc_names_ / output_grpc_names_
    enabled,      \* enabled_
    shm_objects,  \* shared-memory objects that exist in the OS namespace
    open_fds,     \* descriptors shm_open returned that are still open
    mapped,       \* live mappings in this process
    rtd_mapped    \* objects registered with the daemon by shm_map

vars == <<pc, stage, next, names, ptrs, map_failed, grpc_names, enabled,
          shm_objects, open_fds, mapped, rtd_mapped>>

Results(call) == IF call \in FailingCalls THEN {TRUE, FALSE} ELSE {TRUE}

-----------------------------------------------------------------------------
(***************************************************************************)
(* One iteration of SharedMemoryManager::init_vectors for buffer b:       *)
(* gen_shm_name (64 tries of CreateUniqueFileName), shm_open, push the     *)
(* name, ftruncate, mmap, push pointer and size, shm_map RPC, push the     *)
(* gRPC name.  Each failure returns from initialize at once.  A failed     *)
(* mmap returns MAP_FAILED, which the nullptr check never catches.  The   *)
(* descriptor shm_open returned is never closed.                          *)
(***************************************************************************)
MmapResults == IF "mmap" \in FailingCalls THEN {"addr", "MAP_FAILED"} ELSE {"addr"}

\* SYS_FAIL_RETURN(nullptr == ptr, "mmap"): the only failure check on mmap.
MmapFailureCaught(ptr) == ptr = "nullptr"

\* Mutant: init_vectors does not stop after the last buffer.
LastBufferLate(i) == i > Len(InitOrder)

LastBuffer(i) == i = Len(InitOrder)

InitBuffer ==
    LET b == InitOrder[next] IN
    /\ pc = "init"
    /\ \E named \in Results("gen_shm_name"), opened \in Results("shm_open"),
          sized \in Results("ftruncate"), ptr \in MmapResults,
          registered \in Results("shm_map") :
         LET created  == named /\ opened
             mapTried == created /\ sized
             mmapOk   == ptr = "addr"
             pushed   == mapTried /\ ~MmapFailureCaught(ptr)
             regOk    == pushed /\ registered
         IN
         /\ UNCHANGED stage
         /\ shm_objects' = IF created THEN shm_objects \cup {b} ELSE shm_objects
         /\ open_fds' = IF created THEN open_fds \cup {b} ELSE open_fds
         /\ names' = IF created THEN names \cup {b} ELSE names
         /\ mapped' = IF mapTried /\ mmapOk THEN mapped \cup {b} ELSE mapped
         /\ ptrs' = IF pushed THEN ptrs \cup {b} ELSE ptrs
         /\ map_failed' = IF pushed /\ ~mmapOk THEN map_failed \cup {b} ELSE map_failed
         /\ rtd_mapped' = IF regOk THEN rtd_mapped \cup {b} ELSE rtd_mapped
         /\ grpc_names' = IF regOk THEN grpc_names \cup {b} ELSE grpc_names
         /\ IF ~regOk
            THEN /\ pc' = "failed" /\ UNCHANGED <<next, enabled>>
            ELSE IF LastBuffer(next)
            THEN /\ pc' = "ready" /\ enabled' = TRUE /\ UNCHANGED next
            ELSE /\ next' = next + 1 /\ UNCHANGED <<pc, enabled>>

-----------------------------------------------------------------------------
(***************************************************************************)
(* SharedMemoryManager::~SharedMemoryManager, which runs whether or not   *)
(* initialize succeeded: for the inputs, then for the outputs,            *)
(* nrt_shm_unmap every gRPC name, munmap every pointer, shm_unlink every  *)
(* name.  Each failure is only logged; munmap of MAP_FAILED fails.        *)
(***************************************************************************)
\* Mutant: the names are unlinked before the pointers are unmapped.
TeardownUnlinkFirst == <<"unmap_rpc", "unlink", "munmap">>

Teardown == <<"unmap_rpc", "munmap", "unlink">>
Stage(i) == [dir |-> Dirs[((i - 1) \div 3) + 1], op |-> Teardown[((i - 1) % 3) + 1]]
NumStages == 6

DestructorStart ==
    /\ pc \in {"ready", "failed"}
    /\ pc' = "destroy"
    /\ stage' = 1
    /\ UNCHANGED <<next, names, ptrs, map_failed, grpc_names, enabled,
                   shm_objects, open_fds, mapped, rtd_mapped>>

(* The calls of one loop of the destructor on the buffers of direction dir *)
(* held in its vector.                                                    *)
UnmapRpcs(dir) ==
    /\ rtd_mapped' = rtd_mapped \ (grpc_names \cap Bufs(dir))
    /\ grpc_names' = grpc_names \ Bufs(dir)
    /\ UNCHANGED <<ptrs, map_failed, names, shm_objects, mapped>>

Munmaps(dir) ==
    /\ mapped' = mapped \ ((ptrs \ map_failed) \cap Bufs(dir))
    /\ ptrs' = ptrs \ Bufs(dir)
    /\ UNCHANGED <<map_failed, grpc_names, names, shm_objects, rtd_mapped>>

\* Mutant: the unlink loop walks the pointers instead of the names.
UnlinksByPtrs(dir) ==
    /\ shm_objects' = shm_objects \ (ptrs \cap Bufs(dir))
    /\ names' = names \ Bufs(dir)
    /\ UNCHANGED <<ptrs, map_failed, grpc_names, mapped, rtd_mapped>>

Unlinks(dir) ==
    /\ shm_objects' = shm_objects \ (names \cap Bufs(dir))
    /\ names' = names \ Bufs(dir)
    /\ UNCHANGED <<ptrs, map_failed, grpc_names, mapped, rtd_mapped>>

DestructorStep ==
    /\ pc = "destroy"
    /\ LET s == Stage(stage) IN
         CASE s.op = "unmap_rpc" -> UnmapRpcs(s.dir)
           [] s.op = "munmap"    -> Munmaps(s.dir)
           [] s.op = "unlink"    -> Unlinks(s.dir)
    /\ IF stage = NumStages THEN pc' = "gone" ELSE pc' = pc
    /\ stage' = stage + 1
    /\ UNCHANGED <<next, enabled, open_fds>>

-----------------------------------------------------------------------------
Init ==
    /\ pc = "init"
    /\ stage = 0
    /\ next = 1
    /\ names = {} /\ ptrs = {} /\ map_failed = {} /\ grpc_names = {}
    /\ enabled = FALSE
    /\ shm_objects = {} /\ open_fds = {} /\ mapped = {} /\ rtd_mapped = {}

Next == InitBuffer \/ DestructorStart \/ DestructorStep

Spec == Init /\ [][Next]_vars /\ WF_vars(Next)

-----------------------------------------------------------------------------
TypeOK ==
    /\ pc \in {"init", "ready", "failed", "destroy", "gone"}
    /\ stage \in 0..(NumStages + 1)
    /\ next \in 1..Len(InitOrder) \cup {1}
    /\ {names, ptrs, map_failed, grpc_names, shm_objects, open_fds, mapped, rtd_mapped}
         \subseteq SUBSET AllBufs
    /\ enabled \in BOOLEAN

(* Resources are released in the reverse order of acquisition, on every   *)
(* path through initialize and the destructor: a buffer registered with   *)
(* the daemon is still mapped here, and a mapped buffer's object still    *)
(* exists.                                                                *)
ReverseOrderRelease ==
    /\ rtd_mapped \subseteq mapped
    /\ mapped \subseteq shm_objects

(* Once the destructor has run, whatever point initialize failed at, no   *)
(* object is left in the namespace, no mapping in the process and no      *)
(* registration at the daemon.                                            *)
CleanTeardown ==
    pc = "gone" => shm_objects = {} /\ mapped = {} /\ rtd_mapped = {}

(* ... and no descriptor is left open.                                    *)
NoDescriptorLeak ==
    pc = "gone" => open_fds = {}

(* When initialize reports success (enabled_), every buffer infer will     *)
(* memcpy into is a live mapping registered with the daemon.              *)
EnabledBuffersMapped ==
    enabled => \A b \in AllBufs : b \in mapped /\ b \in rtd_mapped

=============================================================================
