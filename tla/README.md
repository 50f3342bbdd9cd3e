# TLA+ models of the Neuron TensorFlow runtime glue

This directory holds TLA+ specifications of the C++ runtime layer in
`src/`. That layer connects TensorFlow to the `neuron-rtd` daemon. Each
module models one component of `src/unnamed/part_000` or of `src/runtime`. MC modules and
`.cfg` files instantiate the modules for TLC. `PROJECT.json` lists the
components, the runs, the mutants, which source lines each definition
models, the findings and the hazards.

## The system

| Part | Source | What it does |
|---|---|---|
| `NeuronDeviceManager` | part_000:144-292 | A process-wide pool of NeuronCore Groups, guarded by `global_mutex_`. `apply_for_device` initializes the pool on first use, then hands groups out round-robin. `clear_if_empty` tears the pool down once no group holds a model. |
| `NeuronDevice` | part_000:294-604 | One NeuronCore Group (an execution group, or *eg*, at the daemon). It loads, starts, runs, stops and unloads models over gRPC. Its state is guarded by `mutex_eg_`. Only one model runs per group: `start_model` stops the running model before it starts another. |
| `SharedMemoryManager` | part_000:32-129 | POSIX shared-memory buffers for the inputs and outputs of one model, registered with the daemon by `shm_map`. |
| `sigint_handler` | part_000:22-29 | In serving builds, calls `clear()` on SIGINT or SIGTERM. |
| `RuntimeGRPC` | part_001:1-277 | gRPC wrappers for the direct runtime. |
| `NeuronExecutableInfo` | part_001:315-421 | Parses and validates the attributes of a Neuron op. |
| `tensor_util` | runtime/tensor_util.cc | `fast_memcpy` (eight-way parallel copy), `tensor_memcpy`, `tensor_shuffle`. |
| `NeuronFunction` | runtime/direct/function.cc | The direct-runtime op: one-time init under `mu_`, then input and output setup. |
| `neuron-rtd` | not in this repository | The daemon. Only what the client sees of it is modelled. |

How the parts interact:

- Caller threads (TensorFlow op kernels) call `apply_for_device`, then `load`.
- They then call `infer`, or `infer_post` followed by `infer_wait`, on the group they got.
- Finally they call `unload` and then `clear_if_empty`.
- Pool operations are serialized by `global_mutex_`. Device operations interleave with them.
- Every RPC of `load` and of the unload half of `unload` runs outside `mutex_eg_`.

## Modules

### `NeuronDevice.tla`: groups, threads and the daemon

The state is split into three groups of variables:

- **Device state:** the `NeuronDevice` members, as functions over `Devices`: `create_eg_done`, `eg_id`, `nn_id_set`, `running_nn_id`. There are also `mutex_eg` (the thread holding the lock) and `infer_sem` (free semaphore slots).
- **Daemon state:** `rtd_egs`, `rtd_model_eg`, `rtd_started`, and the handles used so far.
- **Thread state:** a program counter, a model, an inference count and a device for each thread.

A step is the part of a handler between two points where another thread can
come in. These are the actions:

| Action | Code |
|---|---|
| `LoadRpc` | the load RPC stream, made with no lock held (`load`, 322-363) |
| `LoadInsert` | the insert under `mutex_eg_` (364-367) |
| `Infer` | `infer`, all of it under `mutex_eg_`, with `start_model` |
| `PostLock`, `PostSem` | `infer_post`: take the lock, then block on the semaphore while holding it, then `infer_post_unsafe` |
| `Wait` | `infer_wait` (no lock), after which the caller releases its slot |
| `UnloadLocked`, `UnloadRpc` | the locked block of `unload`, then the unload RPC made after it |
| `ClearDevices(D)` | `NeuronDevice::clear` on a set of devices (used by the pool) |

`start_model` is an operator that returns the set of possible outcomes. It
stops the other model if one is running, then starts the requested one. The
`RpcResults` helper lets any RPC listed in `FailingRpcs` fail. A failed RPC has
no effect at the daemon.

The daemon is modelled by assumption:

- start succeeds only for a loaded model.
- stop succeeds only for a started model.
- It refuses to unload a started model.
- `destroy_eg` frees the models of the group.
- `create_eg` grants n cores when 1 ≤ n ≤ its free cores. A negative request means "all free cores".

### `NeuronCoreGroup.tla`: the abstract group

This module states what a group promises its callers, with no locks, RPCs or failures. Its state is:

- `held[d]`: the models callers hold on the group;
- `running[d]`: the models started in the group.

Its actions are `Load`, `Start` (of a held model, replacing what runs), `Stop`, `Unload` (which stops the model if it runs) and `Clear`.

`NeuronDevice` implements it through `GroupRefinement`, an `INSTANCE ... WITH` with this mapping:

- `held <- nn_id_set`;
- `running <- ` the models the daemon has started in the group's `eg_id_`.

A load RPC, an unload RPC and a failed call are stuttering steps. A stop that is skipped, or a failed stop that is only logged, is a step the abstract group does not allow.

### `NeuronDeviceManager.tla`: the pool composed with its groups

`NeuronDeviceManager` EXTENDS `NeuronDevice`. It adds `ready`, `num_devices`,
`device_index`, the cores of each group, and a history variable `handed`.

| Definition | Code |
|---|---|
| `InitDevicesFrom` (RECURSIVE) | `init_devices`: initialize the groups in order and stop at the first failure |
| `SearchFrom` (RECURSIVE) | the fallback search of `init_default_device` |
| `init_default_device` | the four cases: a size out of range, 1, 2, or any other size |
| `InitOutcomes` | the group-creating part of `initialize` |
| `ApplyInit` | applies the result of `NeuronDevice::initialize` to each created device; `nn_id_set_` is left untouched, as in the code |
| `apply_for_device`, `clear_if_empty` | one atomic step each: both run entirely under `global_mutex_` |
| `ManagerClear` | `NeuronDeviceManager::clear` |

The parsing of `NEURONCORE_GROUP_SIZES` is abstracted to its result, the
constant `NumCoresReqVector` (`<<>>` means unset or ill-formed).

### `GroupSizesParse.tla`: the `NEURONCORE_GROUP_SIZES` parse

The parse in `initialize` (part_000:162-196) is modelled as pure operators on strings, which are sequences of characters:

| Operator | Code |
|---|---|
| `remove_pattern` | `remove_pattern` (132-142) |
| `Pieces` | the `std::getline` split |
| `stoi_no_throw` | `stoi_no_throw` (612-620) |
| `CoreRequests` | the loop that skips empty pieces and clears the list on a value outside 0..64 |

- `remove_pattern` passes its own uninitialized `pos` as the start of `find`. `PosValues` therefore lets every search start anywhere. `GroupSizes(raw)` is the set of vectors the build can produce.
- The state is just the input and one of its results. `GroupSizesAsWritten` compares the result with `Listed`, a reference reading of the documented format: optional brackets around comma-separated numbers in 0..64.

### `SharedMemoryManager.tla`: shared-memory buffers

The state is a set of buffers (`[dir, idx]` records) for each kind of
resource:

- names pushed, pointers pushed, gRPC names pushed;
- objects in the OS namespace, open descriptors, live mappings, daemon registrations.

The actions are:

- **`InitBuffer`:** one iteration of `init_vectors`. Any call listed in `FailingCalls` may fail, and the loop returns at the first failure. A failed `mmap` yields `MAP_FAILED`, and the code only checks for `nullptr`.
- **`DestructorStart` and `DestructorStep`:** the destructor's six loops, in the code's order. For inputs it runs unmap RPC, `munmap` and `shm_unlink`, then the same three for outputs.

### `ShmInfer.tla`: `infer` over the shared buffers

`ShmInfer` EXTENDS `SharedMemoryManager` and adds the threads of one model
calling `NeuronDevice::infer` (part_000:396-447). Every thread of the model
uses the same shared input and output buffers. A thread's request is
abstracted to the thread itself. A buffer holds the data of one thread,
`NoData`, or `Mixed` (outputs computed from inputs of several requests).

| Action | Code |
|---|---|
| `InferStart` | take `mutex_eg_`, `start_model` (whose failure returns and unlocks), memcpy the inputs into the shared input buffers when `enabled_` |
| `InferRpc` | the infer RPC under the lock: the daemon writes `Computed` into the output buffers; `NRT_CHECK_RETURN` on the status after `Remap` (inf/nan results count as success) |
| `InferCopy` | `copy_output_tensors` reads the outputs back (`ReadOutputs`) and infer returns, unlocking |
| `Destroy` | the manager's destructor, once no infer uses it |

`initialize` may fail at any call but `mmap`; a manager that failed to
initialize has `enabled_` false, and infer then sends its tensors inline.

### `Sigint.tla`: the signal handler over the pool

`Sigint` EXTENDS `NeuronDeviceManager`. `apply_for_device` installs
`sigint_handler` after the first successful `initialize` (`Installed`).
`Deliver(t)` suspends thread `t` at a step boundary and starts the handler.
`HandlerClearDevice` is one iteration of `NeuronDeviceManager::clear`'s loop,
run without `global_mutex_`: it needs the device's `mutex_eg_`, like
`NeuronDevice::clear`. `HandlerRaise` resets the pool and ends the process.
The other threads keep running meanwhile. `NeuronDevice::clear`'s stop and
unload RPCs may fail here: they are the only calls of `clear` that meet a loaded
model.

### `NeuronExecutableInfo.tla`: the attributes of a Neuron op

`ParseFromNodeDef` and `ParseModelConfig` (part_001:315-421) are pure
operators. A NodeDef is abstracted to what the checks look at: whether every
required key is present, the size of each list attribute, the shuffle
tensors, and the `model_config` entries. TLC's integers are 32 bits wide, so an
int64 entry is held as its two 32-bit words. `Int32Cast` keeps the low word, as
`(int32_t)` does.

| Operator | Code |
|---|---|
| `SizesMatch` | the six `SIZE_CHECK`s |
| `ShufflesValid`, `ShuffleProtoValid` | one shuffle per input; `Tensor::FromProto` of each, after a non-empty one is set to `DT_INT64` of its own length |
| `ParseModelConfig` | the size check, then each entry cast to int32, stored and range-checked |
| `ParseFromNodeDef` | the checks in order, each returning at its first failure |

The state is the NodeDef and the parse's result. Every NodeDef of the
abstraction is an initial state.

### `FastMemcpy.tla`: `tensor_memcpy` and `fast_memcpy`

The checks of `tensor_memcpy` (tensor_util.cc:98-118) and the three branches of `fast_memcpy` (44-96) are pure operators. They produce the list of copy calls the code makes.

- A call is a record `[off, len, fn]`. What it writes is the interval of bytes its routine really copies: `memcpy_uint64` and `memcpy_uint32` drop a partial word.
- Buffer addresses are kept modulo 8, which is all the alignment macros look at.
- **Variables:** the request, the status, the plan and the set of calls done.
- **`RunCall(i)`:** one call runs. On the parallel path the slices run in any order, since `ParallelFor` gives no order. On the other paths they run in program order.

### `NeuronFunction.tla`: concurrent `Run` calls on the direct-runtime op

Each thread calls `Run` once on one `NeuronFunction`. The steps of `Run` are the actions:

- **`LockMu` and `MaybeInit`:** `MaybeInit` runs atomically under `mu_`.
- **`SetupInputs`, `SetupOutputs`, `MaybeShuffle`:** these use thread-local tensors and read `info_` without a lock.
- **`Execute`:** stands for everything from `NeuronHostMemory` onwards, which is not in this repository.

The shared state is abstracted as follows:

- `exe_` is a flag plus the number of executables added.
- `info_` records how far `ParseFromNodeDef` got: `"none"`, `"lists"` or `"full"`.
- `InitOutcomes` is the set of outcomes of the body of `MaybeInit`. It depends on which of `placer.GetStatus`, the parse and `GetParallelCoreRanges` fail (`FailingSteps`).
- A tensor is a function from 0-based element index to a value. `tensor_shuffle` is `dst[i] = src[shuffle[i]]` for every element of `src`; since the temporary has the input's shape, every element of `dst` is written and its old contents do not survive, so the operator does not read `dst`.

## Runs

| Run | Cfg | Expect | What it shows |
|---|---|---|---|
| device_stop_fails | `NeuronDevice_StopFails.cfg` | violation | With stop allowed to fail, `OneModelStartedPerGroup` breaks. See finding 1. |
| pool | `NeuronDeviceManager.cfg` | pass | 3 threads, two inferences each; `NEURONCORE_GROUP_SIZES=[2,2]` on 4 cores; create_eg, load, unload, start and infer_post may fail; the pool is torn down and rebuilt. No group is leaked or forgotten (`PoolMatchesDaemon`), and devices are handed out round-robin (`RoundRobinFair`). The running model matches the daemon whenever the lock is free (`RunningMatchesDaemon`). Every thread finishes (`MTermination`), although `infer_post` blocks on the semaphore while holding `mutex_eg_`. Every group, across tear-downs and rebuilds, implements `NeuronCoreGroup` (`GroupRefinement`). In every state, `init_default_device` run against the daemon's free cores would create the largest group the daemon can grant, for `opt_device_size` values -1, 0, 3, 4, 5, 64 and 65 (`DefaultGroupLargest`). About 785k states. |
| pool_load_clear_race | `NeuronDeviceManager_LoadClearRace.cfg` | violation | `NoStaleModelIds` breaks. See finding 2. |
| shm | `ShmInfer.cfg` | pass | 3 inputs and 2 outputs; every call but mmap may fail; 2 threads infer over the buffers, start_model may fail, and the daemon answers any of OK, inf/nan or failure. Every infer that returns OK hands back the outputs of its own inputs, and only a real failure fails it (`InferReturnsOwnOutputs`). Once both return, the destructor releases everything, in reverse order of acquisition. |
| shm_fd_leak | `SharedMemoryManager_FdLeak.cfg` | violation | `NoDescriptorLeak` breaks. See finding 3. |
| shm_map_failed | `SharedMemoryManager_MapFailed.cfg` | violation | `EnabledBuffersMapped` breaks. See finding 4. |
| group_sizes_uninit_pos | `GroupSizesParse_UninitPos.cfg` | violation | Every value of up to 5 characters over `[`, `]`, `,`, `1`, `7`, `a`. `GroupSizesAsWritten` breaks on `[1]`. See finding 6. With every search started at 0, all 9330 values parse as documented. |
| fastmemcpy | `FastMemcpy.cfg` | pass | Sizes 1000 (small path), 1031 (serial, ragged tail) and 4194311 (parallel, ragged last slice); buffers at offsets 0, 1 and 4 mod 8; with and without a pool; negative and too-large sizes. Word-wise calls are aligned (`CopiesAligned`). No two calls write the same byte, and success means each byte of the size is written exactly once, inside both buffers (`CopyExact`). About 5k states. |
| function | `NeuronFunction.cfg` | pass | 2 threads; the placer, input shapes, output allocation and shuffling may fail. Every input that `MaybeShuffle` replaces holds exactly the caller's elements, each once, in the temporary allocated for it (`InputsAreShuffledInputs`). With this cfg the parse and placement cannot fail, so `InitializedBeforeUse` is left to `function_partial_init`. About 348k states. |
| sigint | `Sigint.cfg` | violation | `HandlerTearsDown` breaks: the handler never gets past `mutex_eg_`. See finding 7. |
| executable_info_model_config | `NeuronExecutableInfo.cfg` | violation | Over 2.25M NodeDefs, `ModelConfigAsChecked` breaks. See finding 8. With the range checks applied to the int64 values, every NodeDef passes. |
| function_partial_init | `NeuronFunction_PartialInit.cfg` | violation | Parse checks and core placement may fail: `InitializedBeforeUse` breaks. See finding 5. |

Every property of a passing run has a mutant in `PROJECT.json`. A mutant
changes one mapped definition the way a plausible bug would, and TLC then finds
the property violated. Examples:

- `start_model` starting without stopping the other model;
- `running_nn_id_` reset without the stop RPC being sent;
- `infer_wait` taking `mutex_eg_`;
- the round-robin cursor wrapping late or never;
- `clear()` leaving `ready_` set;
- the search stepping down by two;
- unlinking before unmapping;
- unlinking by pointer instead of by name;
- a slice size not rounded to the alignment, or a ragged last slice copied word-wise;
- a shuffle loop that skips element 0.

### Findings

1. **A failed stop is only logged** (part_000:380, and 514 in `clear`). `running_nn_id_` is reset anyway, so the next `start_model` starts a second model in a group whose first model is still running. Trace: t1 infers (m1 started); t1 unloads and its stop fails; t2 loads m2 and infers, which starts m2 next to m1.
2. **`load` versus `clear_if_empty`** (part_000:364). The load RPC completes, then another thread's `clear_if_empty` sees every `nn_id_set_` empty and destroys the group. `load` then inserts a model id the daemon no longer has. `initialize` never resets `nn_id_set_`, so the id survives re-initialization and keeps `clear_if_empty` from clearing the pool until that model's `unload` erases the id (part_000:373).
3. **Descriptor leak** (part_000:76). The `shm_open` descriptor is never closed.
4. **`MAP_FAILED` is not caught** (part_000:81). Since `mmap` reports failure as `MAP_FAILED`, not `nullptr`, `initialize` succeeds with an unmapped buffer that `infer` later memcpys into.

5. **`MaybeInit` marks itself initialized before it is** (runtime/direct/function.cc:68). `exe_` is assigned before `ParseFromNodeDef` and `GetParallelCoreRanges`, whose errors are returned with `exe_` left set. The next `Run` takes `exe_ != nullptr` as "already initialized" and goes on to `RunOnHostMemory` with no NeuronCore range added. Trace: t2's core placement fails; t1 then skips init and reaches `SetupInputs`, with 0 executables.

6. **`remove_pattern` searches from an uninitialized position** (part_000:135). When the start lies past the bracket, `[1]` keeps its `[`. `stoi("[1")` then throws, and the documented value is silently replaced by the default group.

7. **The signal handler deadlocks on the lock its thread holds** (part_000:24, 506). `sigint_handler` calls `clear()` on whichever thread the signal interrupts, and `NeuronDevice::clear` takes `mutex_eg_`, which is not recursive. Trace: t2 is in `infer_post`, holding device 0's `mutex_eg_` and waiting on the semaphore; SIGINT is delivered to t2; the handler waits on that `mutex_eg_` forever. The process neither tears the pool down nor exits. This breaks the spec's "signal hooks perform full pool teardown before re-raising".

8. **`ParseModelConfig` range-checks a truncated value** (part_001:411-418). Each `model_config` entry is cast to int32 before the checks `0 <= optimal_num_cores < 1024` and `0 < max_num_duplicates < 1024`. A `max_num_duplicates` of 2^32+1 is accepted as 1, and an `optimal_num_cores` of 2^32 as 0. The attribute is written by the compiler, so this matters only for a malformed or hostile graph.

## Bounds

- **pool:** devices 0..2 (one more than the `[2,2]` plan fills) and eg handles 1..6.
  - This lets the pool be built, cleared and rebuilt.
  - The partial `init_devices` failure (one group of two) is covered.
  - 3 threads: enough for a thread to post while another waits, and for a third to contend for the lock. Model handles 1..3 give each thread its own model.
  - `MaxOps=2` lets a thread switch between `infer` and `infer_post`. `SemCapacity=1` makes a post block on the semaphore.
- **sigint:** 2 threads, 2 groups of 2 cores, `MaxOps=1`: enough for one thread to hold a `mutex_eg_` when the signal comes, and for the handler to clear a device in use.
- **fastmemcpy:** each size sits just past a branch boundary, and 4194311 = 8·524288 + 7. This gives the parallel path an unaligned slice size and a ragged last slice. Misalignments 0, 1 and 4 select each of the three routines.
- **function:** 2 threads, enough for one to initialize while the other waits on `mu_` and then skips init. 2 inputs of 3 elements over 2 values: one rotated by its shuffle, one without a shuffle. 2 core ranges, so "no executable" differs from "all".
- **executable_info_model_config:** list sizes 1 and 2, so that a list can be one entry short. The `input_shuffles` attribute is absent, or present with 0, 1 or 2 tensors, each empty or not; a present but empty list is rejected for its length (part_001:363), like any list of the wrong length. Low words -1, 0, 1, 1023 and 1024 sit on each side of both range checks, and high words 0 and 1 cover values below and above 2^32.
- **shm:** 3 + 2 buffers. This puts a failure at each position of both loops, and an input loop longer than the output loop. Two threads are enough for one to overwrite the buffers the other reads.

## Fairness

- Every caller thread is weakly fair. A runnable thread eventually runs: the OS schedules it, and no code path spins.
- The semaphore wait in `PostSem` is enabled only when a slot is free. `WF` therefore says only that a thread gets the slot if the slot stays free.
- The workload is bounded (`MaxOps`, one model per thread). Runs therefore end in states where every thread is done, and the cfgs say `CHECK_DEADLOCK FALSE`. Termination is checked as a liveness property instead.
- `fastmemcpy` and `function` also end once every call or thread is done. `RunCall` and each `Run` thread are weakly fair: pool threads and caller threads are scheduled by the OS.
- The `SharedMemoryManager` object is destroyed at `"gone"`, so its run also ends with no step left. Its spec is weakly fair on the whole next-state relation, which only matters for reaching the end.
- **sigint:** the handler is weakly fair: once it runs, the kernel keeps scheduling it. Delivery has no fairness, since the signal need never come. The suspended thread takes no steps until the handler ends.

## Not modelled

Modelled, in order: `NeuronDevice` → `NeuronDeviceManager` (composition) → `SharedMemoryManager` → `FastMemcpy` → `NeuronFunction` → `NeuronCoreGroup` (refinement) → `GroupSizesParse` → `ShmInfer` (composition) → `Sigint` (composition) → `NeuronExecutableInfo`.

Not checked:

- **Failing teardown calls:** `destroy_eg` in `NeuronDevice::clear` (part_000:526-534) and the `munmap`, `shm_unlink` and unmap RPCs of the buffer destructor always succeed in the models. The code logs such a failure and goes on: after a failed `destroy_eg` it still clears `create_eg_done_`, so the group stays allocated at the daemon and its cores are lost. `PoolMatchesDaemon` and `CleanTeardown` hold on that assumption; a failure would break them at once, by design of the code.
- **The semaphore release:** `infer_post` pushes a `ScopedAcquire` onto the caller's `sem_res_queue`, and the caller (outside this repository) drops it after `infer_wait` or on a failed post. `Wait` and `PostSem`'s failure branch include that release, and `MTermination` rests on it.
- **`acquire_mutex`** (part_000:458-460): it pushes a `mutex_lock` on `mutex_eg_` into a caller's queue, and nothing in this repository calls it or releases the lock.
- **A failed unload under `GroupRefinement`:** a failed unload RPC leaves the model held at the daemon but erased from `nn_id_set_`; the refinement mapping reads the device state, so it does not see that leak.
- **The extra error exits of `Run`:** `copy_output_tensors` failing and `DataTypeCanUseMemcpy` rejecting a dtype in `SetupInputs`/`SetupOutputs` return an error with nothing shared changed, like the modelled failures of those steps.

- **Lost replies:** the models assume a failed RPC had no effect at the daemon. The client sets no deadline and never cancels (spec: "there is no client-side cancellation or timeout"), so a reply is lost only when the channel breaks, and then every later call fails as well. No retry exists to re-send a call that already took effect.
- **The optional attributes of `ParseFromNodeDef`** (`auto_multicore`, the real input names and locations): they are copied with no check and nothing in this repository reads them.
- **`~NeuronDeviceManager`:** it runs `clear()` at process exit, after the caller threads are gone. It is the handler's teardown without the interleaving.
- **A signal inside one atomic pool step:** `Deliver` comes between steps. A signal inside `apply_for_device` would make the handler's unlocked `clear` race the pool's own update; the model only shows the lock deadlock.

Left out for good:

- **Tensor copies, profiler calls, logging, environment set-up:** they have no state the properties can tell apart.
- **`RuntimeGRPC`:** stateless wrappers.
- **`init_stub`:** it creates a channel and nothing else.
- **`tensor_memset`:** a plain fill.
- **`tensor_shuffle` with out-of-range indices:** neither the parse (`ShufflesValid`) nor `tensor_shuffle` compares a shuffle's length or values with its input. `NeuronFunction` takes the shuffles as given, because an out-of-bounds read is not a state the model can hold.
- **`NeuronHostMemory` and `NeuronDataParallelExecutable`:** not in this repository.
