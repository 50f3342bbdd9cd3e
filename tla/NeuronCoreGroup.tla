--------------------------- MODULE NeuronCoreGroup ---------------------------
(***************************************************************************)
(* What a NeuronCore Group promises the threads that use it, with no       *)
(* locks, RPCs or failures: the models callers hold on each group, and the *)
(* models started in it.  A caller may load a model, run one it holds     *)
(* (which replaces whatever runs in the group), stop the group, or unload *)
(* a model it holds (which stops it if it runs), or tear the group down.   *)
(* So at most one model runs in a group, and only a model some caller      *)
(* still holds.                                                            *)
(*                                                                         *)
(* NeuronDevice refines this module: see GroupRefinement there.           *)
(***************************************************************************)
CONSTANTS
    Devices,   \* the groups
    Models     \* model handles

VARIABLES
    held,      \* held[d]: models callers hold loaded on group d
    running    \* running[d]: models started in group d

vars == <<held, running>>

Init ==
    /\ held = [d \in Devices |-> {}]
    /\ running = [d \in Devices |-> {}]

Load(d, m) ==
    /\ held' = [held EXCEPT ![d] = @ \cup {m}]
    /\ UNCHANGED running

\* Running a model first stops the one the group runs.
Start(d, m) ==
    /\ m \in held[d]
    /\ running' = [running EXCEPT ![d] = {m}]
    /\ UNCHANGED held

Stop(d) ==
    /\ running' = [running EXCEPT ![d] = {}]
    /\ UNCHANGED held

Unload(d, m) ==
    /\ m \in held[d]
    /\ held' = [held EXCEPT ![d] = @ \ {m}]
    /\ running' = [running EXCEPT ![d] = @ \ {m}]

\* Tearing a group down unloads every model and stops the group.
Clear(d) ==
    /\ held' = [held EXCEPT ![d] = {}]
    /\ running' = [running EXCEPT ![d] = {}]

Next ==
    \E d \in Devices :
        \/ Stop(d) \/ Clear(d)
        \/ \E m \in Models : Load(d, m) \/ Start(d, m) \/ Unload(d, m)

Spec == Init /\ [][Next]_vars

=============================================================================
