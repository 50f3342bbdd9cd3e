------------------------- MODULE NeuronDeviceManager -------------------------
(***************************************************************************)
(* The process-wide pool of NeuronCore Groups (class NeuronDeviceManager,  *)
(* src/unnamed/part_000) composed with its groups (module NeuronDevice).   *)
(*                                                                         *)
(* A caller thread applies for a device (apply_for_device initializes the  *)
(* pool on first use, then hands out groups round-robin), loads its model  *)
(* on the group it got, runs inferences, unloads, and calls               *)
(* clear_if_empty, which tears the whole pool down once no group holds a  *)
(* model.  Every pool operation runs under global_mutex_ and is one step;  *)
(* the device operations interleave with them.                            *)
(***************************************************************************)
EXTENDS NeuronDevice, Integers, Sequences, FiniteSetsExt

CONSTANTS
    TotalCores,         \* NeuronCores the daemon can place in groups
    NumCoresReqVector,  \* NEURONCORE_GROUP_SIZES once parsed (<<>>: not set or ill-formed)
    OptDeviceSize,      \* opt_device_size passed to apply_for_device
    DefaultNumCores,    \* DEFAULT_NUM_CORES (negative: the daemon's default)
    MinNumCores         \* MIN_NUM_CORES

ASSUME /\ Devices = 0..(Cardinality(Devices) - 1)
       /\ EgIds = 1..Cardinality(EgIds)
       /\ NumCoresReqVector \in Seq(0..64)
       /\ Len(NumCoresReqVector) <= Cardinality(Devices)

VARIABLES
    ready,          \* ready_
    num_devices,    \* num_devices_
    device_index,   \* device_index_
    eg_cores,       \* cores the daemon gave each group it created
    handed          \* history: times each device was handed out since initialize

pool_vars == <<ready, num_devices, device_index, eg_cores, handed>>
mvars == <<vars, pool_vars>>

Active == {i \in Devices : i < num_devices}

FreeCores == TotalCores - MapThenSumSet(LAMBDA g : eg_cores[g], rtd_egs)

-----------------------------------------------------------------------------
(***************************************************************************)
(* The group sizes an initialize creates, as sequences: entry i is the     *)
(* core count of device_array_[i-1].  The daemon creates a group of n      *)
(* cores when 1 <= n <= its free cores; a negative request asks for its    *)
(* default, all free cores.                                                *)
(***************************************************************************)
Granted(req, free) == IF req < 0 THEN free ELSE req

CreateEgResults(n, free) == RpcResults("create_eg", 1 <= n /\ n <= free)

(* NeuronDeviceManager::init_devices: initialize device_array_[idx] for    *)
(* each requested size in order; the first failure stops the loop.        *)
RECURSIVE InitDevicesFrom(_, _)
InitDevicesFrom(vec, free) ==
    IF vec = <<>> THEN {<<>>}
    ELSE UNION {IF ok THEN {<<Head(vec)>> \o r : r \in InitDevicesFrom(Tail(vec), free - Head(vec))}
                      ELSE {<<>>}
                : ok \in CreateEgResults(Head(vec), free)}

(* The fallback loop of init_default_device: device_array_[0] with         *)
(* num_cores = opt_device_size, opt_device_size - 1, ... MIN_NUM_CORES,    *)
(* keeping the first group the daemon creates.                            *)
\* Mutant: the fallback steps down two cores at a time.
RECURSIVE SearchFromSkip(_, _)
SearchFromSkip(n, free) ==
    IF n < MinNumCores THEN {<<>>}
    ELSE UNION {IF ok THEN {<<n>>} ELSE SearchFromSkip(n - 2, free) : ok \in CreateEgResults(n, free)}

RECURSIVE SearchFrom(_, _)
SearchFrom(n, free) ==
    IF n < MinNumCores THEN {<<>>}
    ELSE UNION {IF ok THEN {<<n>>} ELSE SearchFrom(n - 1, free) : ok \in CreateEgResults(n, free)}

(* NeuronDeviceManager::init_default_device.                              *)
init_default_device(opt, free) ==
    IF opt < 0 \/ opt > 64
    THEN LET n == Granted(DefaultNumCores, free)
         IN  {IF ok THEN <<n>> ELSE <<>> : ok \in CreateEgResults(n, free)}
    ELSE IF opt = 1 THEN InitDevicesFrom(<<1, 1, 1, 1>>, free)
    ELSE IF opt = 2 THEN InitDevicesFrom(<<2, 2>>, free)
    ELSE SearchFrom(opt, free)

(* The group-creating part of NeuronDeviceManager::initialize.            *)
InitOutcomes(free) ==
    IF NumCoresReqVector = <<>> THEN init_default_device(OptDeviceSize, free)
    ELSE InitDevicesFrom(NumCoresReqVector, free)

(* NeuronDevice::initialize of device_array_[0 .. Len(sizes)-1] with the   *)
(* group sizes the daemon granted; num_devices_ counts them.  nn_id_set_   *)
(* is left as it was.                                                      *)
ApplyInit(sizes) ==
    LET k     == Len(sizes)
        base  == Cardinality(rtd_eg_used)
        newEg == [i \in 0..(k - 1) |-> base + 1 + i]
        made  == {i \in Devices : i < k}
    IN
    /\ create_eg_done' = [i \in Devices |-> IF i \in made THEN TRUE ELSE create_eg_done[i]]
    /\ eg_id' = [i \in Devices |-> IF i \in made THEN newEg[i] ELSE eg_id[i]]
    /\ running_nn_id' = [i \in Devices |-> IF i \in made THEN NoNN ELSE running_nn_id[i]]
    /\ rtd_egs' = rtd_egs \cup {newEg[i] : i \in made}
    /\ rtd_eg_used' = rtd_eg_used \cup {newEg[i] : i \in made}
    /\ eg_cores' = [g \in EgIds |-> IF \E i \in made : newEg[i] = g
                                    THEN sizes[(CHOOSE i \in made : newEg[i] = g) + 1]
                                    ELSE eg_cores[g]]
    /\ num_devices' = k

-----------------------------------------------------------------------------
(* NeuronDeviceManager::apply_for_device under global_mutex_: initialize   *)
(* the pool if it is not ready (an initialize that creates no group        *)
(* returns its error), then hand out device_array_[device_index_] and      *)
(* advance device_index_, wrapping at num_devices_.                        *)
\* Mutants: the cursor wraps one step late, or never.
NextIndexLate(i, n) == IF i + 1 > n THEN 0 ELSE i + 1
NextIndexNoWrap(i, n) == i + 1

NextIndex(i, n) == IF i + 1 >= n THEN 0 ELSE i + 1

HandOut(t, i, n) ==
    /\ device' = [device EXCEPT ![t] = i]
    /\ device_index' = NextIndex(i, n)
    /\ pc' = [pc EXCEPT ![t] = "load"]

apply_for_device(t) ==
    /\ pc[t] = "apply"
    /\ IF ready
       THEN /\ HandOut(t, device_index, num_devices)
            /\ handed' = [handed EXCEPT ![device_index] = @ + 1]
            /\ UNCHANGED <<device_vars, rtd_vars, ready, num_devices, eg_cores>>
       ELSE \E sizes \in InitOutcomes(FreeCores) :
              IF sizes = <<>>
              THEN /\ pc' = [pc EXCEPT ![t] = "done"]
                   /\ UNCHANGED <<device_vars, rtd_vars, pool_vars, device>>
              ELSE /\ ApplyInit(sizes)
                   /\ ready' = TRUE
                   /\ HandOut(t, device_index, Len(sizes))
                   /\ handed' = [i \in Devices |-> IF i = device_index THEN 1 ELSE 0]
                   /\ UNCHANGED <<nn_id_set, mutex_eg, infer_sem, rtd_model_eg,
                                  rtd_started, rtd_nn_used>>
    /\ UNCHANGED <<nn_id, ops>>

(* NeuronDeviceManager::clear: clear every active device, then reset the   *)
(* count, the cursor and ready_.                                          *)
\* Mutant: clear() leaves ready_ set.
ManagerClearKeepReady ==
    /\ ClearDevices(Active)
    /\ num_devices' = 0
    /\ device_index' = 0
    /\ UNCHANGED ready

ManagerClear ==
    /\ ClearDevices(Active)
    /\ num_devices' = 0
    /\ device_index' = 0
    /\ ready' = FALSE

(* NeuronDeviceManager::clear_if_empty, called by a thread after it has    *)
(* unloaded its model: clear the pool when no active device holds a model. *)
clear_if_empty(t) ==
    /\ pc[t] = "unloaded"
    /\ IF \A i \in Active : nn_id_set[i] = {}
       THEN ManagerClear
       ELSE UNCHANGED <<device_vars, rtd_vars, ready, num_devices, device_index>>
    /\ pc' = [pc EXCEPT ![t] = "done"]
    /\ UNCHANGED <<eg_cores, handed, nn_id, ops, device>>

-----------------------------------------------------------------------------
(* No group exists and every thread is about to apply for a device.       *)
MInit ==
    /\ create_eg_done = [d \in Devices |-> FALSE]
    /\ eg_id = [d \in Devices |-> NoEg]
    /\ nn_id_set = [d \in Devices |-> {}]
    /\ running_nn_id = [d \in Devices |-> NoNN]
    /\ mutex_eg = [d \in Devices |-> NoThread]
    /\ infer_sem = [d \in Devices |-> SemCapacity]
    /\ rtd_egs = {}
    /\ rtd_model_eg = [m \in NNIds |-> NoEg]
    /\ rtd_started = {}
    /\ rtd_nn_used = {}
    /\ rtd_eg_used = {}
    /\ pc = [t \in Threads |-> "apply"]
    /\ nn_id = [t \in Threads |-> NoNN]
    /\ ops = [t \in Threads |-> 0]
    /\ device = [t \in Threads |-> 0]
    /\ ready = FALSE
    /\ num_devices = 0
    /\ device_index = 0
    /\ eg_cores = [g \in EgIds |-> 0]
    /\ handed = [i \in Devices |-> 0]

MThreadStep(t) ==
    \/ apply_for_device(t)
    \/ ThreadStep(t) /\ UNCHANGED pool_vars
    \/ clear_if_empty(t)

MNext == \E t \in Threads : MThreadStep(t)

MSpec == MInit /\ [][MNext]_mvars /\ \A t \in Threads : WF_mvars(MThreadStep(t))

-----------------------------------------------------------------------------
MTypeOK ==
    /\ DeviceTypeOK
    /\ ready \in BOOLEAN
    /\ num_devices \in 0..Cardinality(Devices)
    /\ device_index \in Devices
    /\ eg_cores \in [EgIds -> 0..TotalCores]
    /\ handed \in [Devices -> Nat]
    /\ pc \in [Threads -> {"apply", "load", "insert", "ready", "post_sem", "wait",
                           "unload_rpc", "unloaded", "done"}]

(* The pool and the daemon agree on which groups exist: the pool is ready  *)
(* exactly when it has active devices, the active devices are the created  *)
(* ones, and every group alive at the daemon is the group of an active     *)
(* device, so no initialize, failed initialize or clear leaks a group.     *)
PoolMatchesDaemon ==
    /\ ready <=> num_devices > 0
    /\ \A i \in Devices : create_eg_done[i] <=> i \in Active
    /\ rtd_egs = {eg_id[i] : i \in Active}

(* apply_for_device hands the active devices out in round-robin order from *)
(* device 0: since the pool was initialized, a device was handed out at   *)
(* most once more than any later one and never less, and an inactive      *)
(* device never.                                                          *)
RoundRobinFair ==
    /\ \A i, j \in Active : i < j => handed[j] <= handed[i] /\ handed[i] <= handed[j] + 1
    /\ \A i \in Devices \ Active : ready => handed[i] = 0

(* Every model id a device keeps in nn_id_set_ is a model the daemon holds *)
(* in that device's live group: clear, clear_if_empty and re-initialize    *)
(* never leave a stale id behind.                                         *)
NoStaleModelIds ==
    \A d \in Devices : \A m \in nn_id_set[d] :
        create_eg_done[d] /\ rtd_model_eg[m] = eg_id[d]

(* init_default_device, for the opt_device_size values that ask for one   *)
(* group (out of range, 0, and 3 up to 64), run against the free cores   *)
(* the daemon has now: no group it creates is larger than the daemon can  *)
(* grant within the request (all free cores for an out-of-range size,     *)
(* min(opt_device_size, free cores) otherwise), and that largest group is *)
(* among its outcomes whenever it is at least MIN_NUM_CORES.  The spec     *)
(* calls the fallback a binary search; the code decrements one by one.    *)
(* The check is tabulated once for each number of free cores.             *)
DefaultSearchLargest ==
    [free \in 0..TotalCores |->
        \A opt \in {-1, 0, 3, 4, 5, 64, 65} :
            LET best == IF opt < 0 \/ opt > 64 THEN free ELSE Min({opt, free})
                outs == init_default_device(opt, free)
            IN  /\ \A s \in outs : Len(s) <= 1 /\ \A i \in DOMAIN s : s[i] <= best
                /\ best >= MinNumCores => <<best>> \in outs]

(* The largest group init_default_device can create from the daemon's     *)
(* free cores in this state is the largest the daemon can grant.          *)
DefaultGroupLargest == DefaultSearchLargest[FreeCores]

(* Every thread eventually finishes: a thread blocked in infer_post,      *)
(* holding mutex_eg_ on a full semaphore, is released by an infer_wait of *)
(* another thread, which needs no lock; and no pool operation waits.      *)
MTermination == <>(\A t \in Threads : pc[t] = "done")

=============================================================================
