------------------------------- MODULE Sigint -------------------------------
(***************************************************************************)
(* sigint_handler (src/unnamed/part_000, NEURONTFSERV builds) over the     *)
(* pool of NeuronDeviceManager.                                            *)
(*                                                                         *)
(* apply_for_device installs the handler for SIGINT and SIGTERM after the  *)
(* first initialize that succeeds, and it stays installed.  The kernel     *)
(* runs it on one thread of the process, which is suspended wherever it    *)
(* was; the other threads keep running.  The handler calls the pool's      *)
(* clear() without global_mutex_: NeuronDevice::clear of each device       *)
(* under that device's mutex_eg_, then the reset of the pool; it then      *)
(* restores the default action and re-raises, ending the process.          *)
(***************************************************************************)
EXTENDS NeuronDeviceManager

VARIABLES
    sig,          \* "none", "clearing" (the handler runs), "exited"
    sig_thread,   \* the thread the handler interrupted
    sig_next      \* idx of the loop of NeuronDeviceManager::clear in the handler

sig_vars == <<sig, sig_thread, sig_next>>
svars == <<mvars, sig_vars>>

(* A successful initialize is the only way a group gets created.           *)
Installed == rtd_eg_used # {}

(* The signal arrives and the kernel picks a thread to run the handler.    *)
Deliver(t) ==
    /\ sig = "none"
    /\ Installed
    /\ sig' = "clearing"
    /\ sig_thread' = t
    /\ sig_next' = 0
    /\ UNCHANGED mvars

(* One iteration of the loop of NeuronDeviceManager::clear: it re-reads    *)
(* num_devices_, then device_array_[idx].clear() waits for that device's   *)
(* mutex_eg_.                                                              *)
HandlerClearDevice ==
    /\ sig = "clearing"
    /\ sig_next < num_devices
    /\ ClearDevices({sig_next})
    /\ sig_next' = sig_next + 1
    /\ UNCHANGED <<pc, nn_id, ops, device, pool_vars, sig, sig_thread>>

(* The end of clear() (num_devices_, device_index_ and ready_ reset), then  *)
(* std::signal(SIG_DFL) and std::raise: the process ends.                 *)
HandlerRaise ==
    /\ sig = "clearing"
    /\ sig_next >= num_devices
    /\ num_devices' = 0
    /\ device_index' = 0
    /\ ready' = FALSE
    /\ sig' = "exited"
    /\ UNCHANGED <<vars, eg_cores, handed, sig_thread, sig_next>>

Handler == HandlerClearDevice \/ HandlerRaise

(* A thread runs unless the handler has suspended it or the process ended. *)
SThreadStep(t) ==
    /\ sig # "exited"
    /\ ~(sig = "clearing" /\ sig_thread = t)
    /\ MThreadStep(t)
    /\ UNCHANGED sig_vars

SInit ==
    /\ MInit
    /\ sig = "none"
    /\ sig_thread = CHOOSE t \in Threads : TRUE
    /\ sig_next = 0

SNext == Handler \/ \E t \in Threads : Deliver(t) \/ SThreadStep(t)

\* The signal need never come; once the handler runs it is scheduled.
SSpec == SInit /\ [][SNext]_svars
         /\ \A t \in Threads : WF_svars(SThreadStep(t))
         /\ WF_svars(Handler)

(* The handler, once it runs, tears the whole pool down at the daemon and  *)
(* re-raises the signal: the spec's "signal hooks perform full pool        *)
(* teardown before re-raising".                                            *)
HandlerTearsDown == (sig = "clearing") ~> (sig = "exited" /\ rtd_egs = {})

=============================================================================
