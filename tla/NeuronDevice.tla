---------------------------- MODULE NeuronDevice ----------------------------
(***************************************************************************)
(* One or more NeuronCore Groups (class NeuronDevice, src/unnamed/part_000)*)
(* shared by caller threads, and the neuron-rtd daemon they talk to over   *)
(* gRPC.                                                                   *)
(*                                                                         *)
(* Each caller thread owns one model: it loads it onto its device, runs a  *)
(* bounded number of synchronous (infer) or split (infer_post/infer_wait)  *)
(* inferences, then unloads it.  The device state is guarded by mutex_eg_; *)
(* infer_post takes the device lock and then blocks on the device's        *)
(* inference semaphore while holding it; infer_wait takes no lock.         *)
(*                                                                         *)
(* A step of the model is the part of a handler between two points where  *)
(* another thread can interleave: an RPC made outside the device lock, or  *)
(* a wait while the lock is held.  Work done entirely under the lock is    *)
(* one step.                                                               *)
(***************************************************************************)
EXTENDS Naturals, FiniteSets

CONSTANTS
    Threads,      \* caller threads (model values)
    Devices,      \* NeuronCore Groups of the pool
    NNIds,        \* model handles the daemon can hand out (1..N)
    EgIds,        \* execution-group handles the daemon can hand out (1..N)
    NoNN,         \* NRT_INVALID_NN_ID
    NoEg,         \* no execution group
    NoThread,     \* mutex_eg_ not held
    SemCapacity,  \* slots of the infer semaphore of a device
    MaxOps,       \* inferences a thread runs before it unloads its model
    FailingRpcs   \* RPCs whose call may fail without effect at the daemon

ASSUME /\ SemCapacity \in Nat \ {0}
       /\ MaxOps \in Nat
       \* "clear_stop": the stop RPC as NeuronDevice::clear makes it
       /\ FailingRpcs \subseteq {"create_eg", "load", "start", "stop", "clear_stop", "unload",
                                 "destroy_eg", "infer", "infer_post", "infer_wait"}

VARIABLES
    \* NeuronDevice members, per device
    create_eg_done,   \* create_eg_done_
    eg_id,            \* eg_id_ (kept after clear(): it is never reset)
    nn_id_set,        \* nn_id_set_
    running_nn_id,    \* running_nn_id_
    mutex_eg,         \* holder of mutex_eg_
    infer_sem,        \* free slots of the xla::Semaphore passed to infer_post
    \* neuron-rtd, as seen through its RPCs
    rtd_egs,          \* live execution groups
    rtd_model_eg,     \* group of each loaded model, NoEg if not loaded
    rtd_started,      \* started models
    rtd_nn_used,      \* model handles handed out so far
    rtd_eg_used,      \* group handles handed out so far
    \* caller threads
    pc, nn_id, ops, device

device_vars == <<create_eg_done, eg_id, nn_id_set, running_nn_id, mutex_eg, infer_sem>>
rtd_vars    == <<rtd_egs, rtd_model_eg, rtd_started, rtd_nn_used, rtd_eg_used>>
thread_vars == <<pc, nn_id, ops, device>>
vars        == <<device_vars, rtd_vars, thread_vars>>

-----------------------------------------------------------------------------
(* RPC results.  An RPC succeeds only if the daemon accepts it (cond); an  *)
(* RPC in FailingRpcs may also fail, and then has no effect.               *)
RpcResults(rpc, cond) ==
    IF ~cond THEN {FALSE}
    ELSE IF rpc \in FailingRpcs THEN {TRUE, FALSE} ELSE {TRUE}

Loaded(m) == rtd_model_eg[m] # NoEg

\* The daemon hands out the lowest handle it has not used yet.
FreshNN == CHOOSE m \in NNIds \ rtd_nn_used : \A o \in NNIds \ rtd_nn_used : m <= o
FreshEg == CHOOSE g \in EgIds \ rtd_eg_used : \A o \in EgIds \ rtd_eg_used : g <= o

(* NeuronDevice::running and is_busy on a running-model value r.           *)
IsRunning(r, m) == r = m /\ r # NoNN
IsBusy(r) == r # NoNN

(***************************************************************************)
(* NeuronDevice::start_model(nn_id), run under mutex_eg_.  A record s      *)
(* holds running_nn_id_ (run), the daemon's started set (started) and      *)
(* whether start_model still succeeds (ok).  The stop and start RPCs use   *)
(* NRT_CHECK_RETURN: a failure returns at once, leaving running_nn_id_.    *)
(***************************************************************************)
\* Mutant: running_nn_id_ is reset without the stop RPC being sent.
StopOtherNoRpc(s, m) ==
    IF s.ok /\ ~IsRunning(s.run, m) /\ IsBusy(s.run)
    THEN {[s EXCEPT !.run = NoNN]}
    ELSE {s}

StopOther(s, m) ==
    IF s.ok /\ ~IsRunning(s.run, m) /\ IsBusy(s.run)
    THEN {IF ok THEN [s EXCEPT !.run = NoNN, !.started = @ \ {s.run}]
                ELSE [s EXCEPT !.ok = FALSE]
          : ok \in RpcResults("stop", s.run \in s.started)}
    ELSE {s}

\* Mutant: running_nn_id_ recorded even when the start RPC fails.
StartIfIdleEager(s, m) ==
    IF s.ok /\ ~IsBusy(s.run)
    THEN {IF ok THEN [s EXCEPT !.run = m, !.started = @ \cup {m}]
                ELSE [s EXCEPT !.run = m, !.ok = FALSE]
          : ok \in RpcResults("start", Loaded(m))}
    ELSE {s}

StartIfIdle(s, m) ==
    IF s.ok /\ ~IsBusy(s.run)
    THEN {IF ok THEN [s EXCEPT !.run = m, !.started = @ \cup {m}]
                ELSE [s EXCEPT !.ok = FALSE]
          : ok \in RpcResults("start", Loaded(m))}
    ELSE {s}

start_model(d, m) ==
    UNION {StartIfIdle(s, m) :
           s \in StopOther([run |-> running_nn_id[d], started |-> rtd_started,
                            ok |-> create_eg_done[d]], m)}

\* Apply the outcome s of start_model on device d.
ApplyStart(d, s) ==
    /\ running_nn_id' = [running_nn_id EXCEPT ![d] = s.run]
    /\ rtd_started' = s.started

-----------------------------------------------------------------------------
(* Thread actions.  Thread t uses device d = device[t] and model nn_id[t].  *)

(* NeuronDevice::load: the streamed load RPC runs outside mutex_eg_ on the *)
(* group eg_id_; any failed write, WritesDone or Finish ends the call with *)
(* an error and no model id.                                               *)
LoadRpc(t) ==
    LET d == device[t] IN
    /\ pc[t] = "load"
    /\ \E ok \in RpcResults("load", eg_id[d] \in rtd_egs /\ rtd_nn_used # NNIds) :
         IF ok
         THEN /\ nn_id' = [nn_id EXCEPT ![t] = FreshNN]
              /\ rtd_model_eg' = [rtd_model_eg EXCEPT ![FreshNN] = eg_id[d]]
              /\ rtd_nn_used' = rtd_nn_used \cup {FreshNN}
              /\ pc' = [pc EXCEPT ![t] = "insert"]
         ELSE /\ pc' = [pc EXCEPT ![t] = "done"]
              /\ UNCHANGED <<nn_id, rtd_model_eg, rtd_nn_used>>
    /\ UNCHANGED <<device_vars, rtd_egs, rtd_started, rtd_eg_used, ops, device>>

(* The end of NeuronDevice::load: nn_id_set_.insert under mutex_eg_.       *)
LoadInsert(t) ==
    LET d == device[t] IN
    /\ pc[t] = "insert"
    /\ mutex_eg[d] = NoThread
    /\ nn_id_set' = [nn_id_set EXCEPT ![d] = @ \cup {nn_id[t]}]
    /\ pc' = [pc EXCEPT ![t] = "ready"]
    /\ UNCHANGED <<create_eg_done, eg_id, running_nn_id, mutex_eg, infer_sem,
                   rtd_vars, nn_id, ops, device>>

(* NeuronDevice::infer: mutex_eg_ is held for the whole call, start_model  *)
(* then the infer RPC.  The infer RPC changes no state at the daemon.      *)
Infer(t) ==
    LET d == device[t] IN
    /\ pc[t] = "ready"
    /\ ops[t] < MaxOps
    /\ mutex_eg[d] = NoThread
    /\ \E s \in start_model(d, nn_id[t]) : ApplyStart(d, s)
    /\ ops' = [ops EXCEPT ![t] = @ + 1]
    /\ UNCHANGED <<create_eg_done, eg_id, nn_id_set, mutex_eg, infer_sem,
                   rtd_egs, rtd_model_eg, rtd_nn_used, rtd_eg_used,
                   pc, nn_id, device>>

(* NeuronDevice::infer_post, first half: take mutex_eg_.                   *)
PostLock(t) ==
    LET d == device[t] IN
    /\ pc[t] = "ready"
    /\ ops[t] < MaxOps
    /\ mutex_eg[d] = NoThread
    /\ mutex_eg' = [mutex_eg EXCEPT ![d] = t]
    /\ pc' = [pc EXCEPT ![t] = "post_sem"]
    /\ UNCHANGED <<create_eg_done, eg_id, nn_id_set, running_nn_id, infer_sem,
                   rtd_vars, nn_id, ops, device>>

(* infer_post pushes ScopedAcquire(1) on sem_res_queue before posting and *)
(* returns the post's error with the slot still in the queue.  The release *)
(* is the caller's (outside this repository): it drops the queue on the   *)
(* error, which this step includes.                                        *)

SemAfterFailedPost(d) ==
    LET acquired == [infer_sem EXCEPT ![d] = @ - 1]
    IN  [acquired EXCEPT ![d] = @ + 1]

(* NeuronDevice::infer_post, second half: still holding mutex_eg_, block   *)
(* on ScopedAcquire(1), then infer_post_unsafe (start_model, infer_post    *)
(* RPC), then release mutex_eg_.                                           *)
PostSem(t) ==
    LET d == device[t] IN
    /\ pc[t] = "post_sem"
    /\ infer_sem[d] > 0
    /\ \E s \in start_model(d, nn_id[t]) :
         /\ ApplyStart(d, s)
         /\ \E ok \in RpcResults("infer_post", s.ok /\ nn_id[t] \in s.started) :
              IF ok
              THEN /\ infer_sem' = [infer_sem EXCEPT ![d] = @ - 1]
                   /\ pc' = [pc EXCEPT ![t] = "wait"]
                   /\ UNCHANGED ops
              ELSE /\ infer_sem' = SemAfterFailedPost(d)
                   /\ pc' = [pc EXCEPT ![t] = "ready"]
                   /\ ops' = [ops EXCEPT ![t] = @ + 1]
    /\ mutex_eg' = [mutex_eg EXCEPT ![d] = NoThread]
    /\ UNCHANGED <<create_eg_done, eg_id, nn_id_set,
                   rtd_egs, rtd_model_eg, rtd_nn_used, rtd_eg_used,
                   nn_id, device>>

\* Mutant: infer_wait takes mutex_eg_ like infer does.
WaitUnderLock(t) ==
    LET d == device[t] IN
    /\ pc[t] = "wait"
    /\ mutex_eg[d] = NoThread
    /\ infer_sem' = [infer_sem EXCEPT ![d] = @ + 1]
    /\ ops' = [ops EXCEPT ![t] = @ + 1]
    /\ pc' = [pc EXCEPT ![t] = "ready"]
    /\ UNCHANGED <<create_eg_done, eg_id, nn_id_set, running_nn_id, mutex_eg,
                   rtd_vars, nn_id, device>>

(* NeuronDevice::infer_wait: the infer_wait RPC, which takes neither       *)
(* mutex_eg_ nor the semaphore.  The +1 is the caller popping              *)
(* sem_res_queue afterwards (outside this repository), taken in this step. *)
Wait(t) ==
    LET d == device[t] IN
    /\ pc[t] = "wait"
    /\ infer_sem' = [infer_sem EXCEPT ![d] = @ + 1]
    /\ ops' = [ops EXCEPT ![t] = @ + 1]
    /\ pc' = [pc EXCEPT ![t] = "ready"]
    /\ UNCHANGED <<create_eg_done, eg_id, nn_id_set, running_nn_id, mutex_eg,
                   rtd_vars, nn_id, device>>

(* NeuronDevice::unload, locked block: erase nn_id from nn_id_set_; if it  *)
(* is running, stop it (NRT_CHECK_LOG: a failure is only logged) and set   *)
(* running_nn_id_ to NRT_INVALID_NN_ID.                                    *)
UnloadLocked(t) ==
    LET d == device[t]
        m == nn_id[t] IN
    /\ pc[t] = "ready"
    /\ mutex_eg[d] = NoThread
    /\ nn_id_set' = [nn_id_set EXCEPT ![d] = @ \ {m}]
    /\ IF IsRunning(running_nn_id[d], m)
       THEN /\ \E ok \in RpcResults("stop", m \in rtd_started) :
                 rtd_started' = IF ok THEN rtd_started \ {m} ELSE rtd_started
            /\ running_nn_id' = [running_nn_id EXCEPT ![d] = NoNN]
       ELSE UNCHANGED <<rtd_started, running_nn_id>>
    /\ pc' = [pc EXCEPT ![t] = "unload_rpc"]
    /\ UNCHANGED <<create_eg_done, eg_id, mutex_eg, infer_sem,
                   rtd_egs, rtd_model_eg, rtd_nn_used, rtd_eg_used,
                   nn_id, ops, device>>

(* NeuronDevice::unload, after the lock: the unload RPC (logged on error). *)
(* The daemon refuses to unload a started model.                           *)
UnloadRpc(t) ==
    LET m == nn_id[t] IN
    /\ pc[t] = "unload_rpc"
    /\ \E ok \in RpcResults("unload", Loaded(m) /\ m \notin rtd_started) :
         rtd_model_eg' = IF ok THEN [rtd_model_eg EXCEPT ![m] = NoEg] ELSE rtd_model_eg
    /\ pc' = [pc EXCEPT ![t] = "unloaded"]
    /\ UNCHANGED <<device_vars, rtd_egs, rtd_started, rtd_nn_used, rtd_eg_used,
                   nn_id, ops, device>>

(***************************************************************************)
(* NeuronDevice::clear on every device of D, each under its mutex_eg_ (the *)
(* pool calls it on its active devices).  For every model of nn_id_set_:   *)
(* stop it if it is running, then unload it; then destroy the group if it  *)
(* was created.  Every RPC failure is only logged: nn_id_set_ is emptied   *)
(* and create_eg_done_ cleared whatever the daemon answered.  Destroying a *)
(* group frees the models the daemon still holds in it.                    *)
(***************************************************************************)
ClearDevices(D) ==
    LET stopping  == {d \in D : running_nn_id[d] \in nn_id_set[d]}
        unloading == UNION {nn_id_set[d] : d \in D}
        created   == {d \in D : create_eg_done[d]}
    IN
    /\ \A d \in D : mutex_eg[d] = NoThread
    /\ \E stopOk \in [stopping -> BOOLEAN], unloadOk \in [unloading -> BOOLEAN],
          destroyOk \in [created -> BOOLEAN] :
         LET started1 == rtd_started \ {running_nn_id[d] : d \in {x \in stopping : stopOk[x]}}
             model1   == [m \in NNIds |-> IF m \in unloading /\ unloadOk[m] THEN NoEg
                                                                       ELSE rtd_model_eg[m]]
             gone     == {eg_id[d] : d \in {x \in created : destroyOk[x]}}
         IN
         /\ \A d \in stopping : stopOk[d] \in RpcResults("clear_stop", running_nn_id[d] \in rtd_started)
         /\ \A m \in unloading :
               unloadOk[m] \in RpcResults("unload", Loaded(m) /\ m \notin started1)
         /\ \A d \in created : destroyOk[d] \in RpcResults("destroy_eg", eg_id[d] \in rtd_egs)
         /\ rtd_egs' = rtd_egs \ gone
         /\ rtd_model_eg' = [m \in NNIds |-> IF model1[m] \in gone THEN NoEg ELSE model1[m]]
         /\ rtd_started' = {m \in started1 : model1[m] \notin gone}
    /\ running_nn_id' = [d \in Devices |-> IF d \in stopping THEN NoNN ELSE running_nn_id[d]]
    /\ nn_id_set' = [d \in Devices |-> IF d \in D THEN {} ELSE nn_id_set[d]]
    /\ create_eg_done' = [d \in Devices |-> IF d \in D THEN FALSE ELSE create_eg_done[d]]
    /\ UNCHANGED <<eg_id, mutex_eg, infer_sem, rtd_nn_used, rtd_eg_used>>

ThreadStep(t) ==
    \/ LoadRpc(t) \/ LoadInsert(t) \/ Infer(t) \/ PostLock(t) \/ PostSem(t)
    \/ Wait(t) \/ UnloadLocked(t) \/ UnloadRpc(t)

-----------------------------------------------------------------------------
(* Every device starts created, idle and empty; every thread starts at     *)
(* load on some device.                                                    *)
Init ==
    \E g \in [Devices -> EgIds] :
        /\ \A d1, d2 \in Devices : d1 # d2 => g[d1] # g[d2]
        /\ create_eg_done = [d \in Devices |-> TRUE]
        /\ eg_id = g
        /\ nn_id_set = [d \in Devices |-> {}]
        /\ running_nn_id = [d \in Devices |-> NoNN]
        /\ mutex_eg = [d \in Devices |-> NoThread]
        /\ infer_sem = [d \in Devices |-> SemCapacity]
        /\ rtd_egs = {g[d] : d \in Devices}
        /\ rtd_model_eg = [m \in NNIds |-> NoEg]
        /\ rtd_started = {}
        /\ rtd_nn_used = {}
        /\ rtd_eg_used = {g[d] : d \in Devices}
        /\ pc = [t \in Threads |-> "load"]
        /\ nn_id = [t \in Threads |-> NoNN]
        /\ ops = [t \in Threads |-> 0]
        /\ device \in [Threads -> Devices]

Next == \E t \in Threads : ThreadStep(t)

Spec == Init /\ [][Next]_vars /\ \A t \in Threads : WF_vars(ThreadStep(t))

-----------------------------------------------------------------------------
DeviceTypeOK ==
    /\ create_eg_done \in [Devices -> BOOLEAN]
    /\ eg_id \in [Devices -> EgIds \cup {NoEg}]
    /\ nn_id_set \in [Devices -> SUBSET NNIds]
    /\ running_nn_id \in [Devices -> NNIds \cup {NoNN}]
    /\ mutex_eg \in [Devices -> Threads \cup {NoThread}]
    /\ infer_sem \in [Devices -> 0..SemCapacity]
    /\ rtd_egs \subseteq EgIds
    /\ rtd_model_eg \in [NNIds -> EgIds \cup {NoEg}]
    /\ rtd_started \subseteq NNIds
    /\ nn_id \in [Threads -> NNIds \cup {NoNN}]
    /\ ops \in [Threads -> 0..MaxOps]

(* Models of the group a device holds, as the daemon sees them.            *)
StartedIn(d) == {m \in rtd_started : rtd_model_eg[m] = eg_id[d]}

(* Whenever a device's lock is free, running_nn_id_ is exactly what the    *)
(* daemon has started in that group: the model start_model, unload and     *)
(* clear believe is running is the one running, and no other model of the  *)
(* group is started (the one-running-model-per-group rule).                *)
RunningMatchesDaemon ==
    \A d \in Devices :
        (create_eg_done[d] /\ mutex_eg[d] = NoThread) =>
            StartedIn(d) = IF IsBusy(running_nn_id[d]) THEN {running_nn_id[d]} ELSE {}

(* At most one model is started in any group at the daemon: the           *)
(* one-running-model-per-group rule the device enforces by stopping the    *)
(* running model before it starts another.                                 *)
OneModelStartedPerGroup ==
    \A g \in rtd_egs : Cardinality({m \in rtd_started : rtd_model_eg[m] = g}) <= 1

(* Seen by its callers, every group behaves as NeuronCoreGroup says: the   *)
(* models the group holds are nn_id_set_, the models it runs are those the *)
(* daemon has started in eg_id_.  Every load, start_model, unload and their *)
(* failures is a step of the abstract group or leaves it unchanged; a start *)
(* that skips the stop of the other model, or an unload that leaves its    *)
(* model started, is not.                                                  *)
Group == INSTANCE NeuronCoreGroup
           WITH held <- nn_id_set, running <- [d \in Devices |-> StartedIn(d)],
                Models <- NNIds
GroupRefinement == Group!Spec

=============================================================================
