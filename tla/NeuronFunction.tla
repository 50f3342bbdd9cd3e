---------------------------- MODULE NeuronFunction ----------------------------
(***************************************************************************)
(* The direct-runtime Neuron op (class NeuronFunction,                     *)
(* src/runtime/direct/function.cc) run by concurrent TensorFlow threads.   *)
(*                                                                         *)
(* Every call of Run first calls MaybeInit, which under mu_ creates the    *)
(* executable exe_, parses the NodeDef into info_ and adds one executable  *)
(* per NeuronCore range the placer returns, unless exe_ already exists.    *)
(* Run then checks and collects the inputs and outputs, applies the input  *)
(* shuffles (tensor_shuffle, src/runtime/tensor_util.cc) and executes.     *)
(* Only MaybeInit takes a lock: the rest of Run works on the thread's own  *)
(* tensors and reads info_ and exe_ without one.                           *)
(*                                                                         *)
(* info_ is abstracted to how far ParseFromNodeDef got: "none" (nothing    *)
(* parsed, or a key missing), "lists" (every attribute list assigned but a *)
(* later size or model_config check failed) or "full".  A tensor is a      *)
(* function from element index (0-based, as in the code) to a value.       *)
(***************************************************************************)
EXTENDS Naturals, Sequences, FiniteSets

CONSTANTS
    Threads,       \* threads calling Run (model values)
    NoThread,      \* mu_ not held
    Shuffles,      \* input_shuffles: one index list per input, <<>> for none
    NumElems,      \* elements of every input tensor
    Vals,          \* element values
    NumRanges,     \* core ranges GetParallelCoreRanges returns
    Junk,          \* what an element of a fresh allocate_temp holds
    FailingSteps   \* steps that may fail

ASSUME FailingSteps \subseteq
         {"placer_status", "parse_keys", "parse_checks", "core_ranges",
          "input_shape", "allocate_output", "shuffle"}

NumInputs == Len(Shuffles)
Elems == 0..(NumElems - 1)
Tensor == [Elems -> Vals \cup {Junk}]

\* Mutant: the temporary is allocated one element short.
FreshOneShort == [i \in 0..(NumElems - 2) |-> Junk]

(* A tensor just allocated by allocate_temp, of the source's shape. *)
Fresh == [i \in Elems |-> Junk]

Fails(step) == IF step \in FailingSteps THEN {TRUE, FALSE} ELSE {FALSE}

VARIABLES
    mu,        \* holder of mu_
    exe,       \* exe_ is not nullptr
    execs,     \* executables added to exe_
    info,      \* how much of info_ ParseFromNodeDef filled in
    pc,        \* where each thread is in Run
    ctx_in,    \* the input tensors the OpKernelContext of each thread holds
    inputs     \* the std::vector<Tensor> inputs of each thread's Run

vars == <<mu, exe, execs, info, pc, ctx_in, inputs>>

-----------------------------------------------------------------------------
(***************************************************************************)
(* NeuronFunction::MaybeInit, everything after the lock, as the set of     *)
(* outcomes [exe, execs, info, ok].  placer.GetStatus() fails before exe_  *)
(* is created; ParseFromNodeDef and GetParallelCoreRanges fail after it,   *)
(* and leave exe_ set.                                                     *)
(***************************************************************************)
PlacerFailed == [exe |-> FALSE, execs |-> 0, info |-> "none", ok |-> FALSE]

InitOutcomes ==
    LET parsed(keys, checks) == CASE keys   -> "none"
                                  [] checks -> "lists"
                                  [] OTHER  -> "full"
    IN
    { PlacerFailed : f \in Fails("placer_status") \ {FALSE} }
    \cup
    { LET i == parsed(keys, checks)
          r == i = "full" /\ ~ranges
      IN [exe |-> TRUE, execs |-> IF r THEN NumRanges ELSE 0, info |-> i, ok |-> r]
      : keys \in Fails("parse_keys"), checks \in Fails("parse_checks"),
        ranges \in Fails("core_ranges") }

(* Run, step 1: take mu_.                                                  *)
LockMu(t) ==
    /\ pc[t] = "init"
    /\ mu = NoThread
    /\ mu' = t
    /\ pc' = [pc EXCEPT ![t] = "init_locked"]
    /\ UNCHANGED <<exe, execs, info, ctx_in, inputs>>

(* MaybeInit under mu_: return at once if exe_ exists; otherwise take one  *)
(* of InitOutcomes.  mu_ is released on every return.                      *)
MaybeInit(t) ==
    /\ pc[t] = "init_locked"
    /\ IF exe
       THEN /\ pc' = [pc EXCEPT ![t] = "inputs"]
            /\ UNCHANGED <<exe, execs, info>>
            /\ mu' = NoThread
       ELSE \E o \in InitOutcomes :
              /\ exe' = o.exe /\ execs' = o.execs /\ info' = o.info
              /\ pc' = [pc EXCEPT ![t] = IF o.ok THEN "inputs" ELSE "error"]
              /\ mu' = NoThread
    /\ UNCHANGED <<ctx_in, inputs>>

(* NeuronFunction::SetupInputs: the context must hold as many inputs as    *)
(* info_.input_dtypes names, each of the shape info_ gives (else "Dynamic  *)
(* batch size unimplemented"); the inputs are then collected.  The         *)
(* context's tensors match the NodeDef, so only the count read from an     *)
(* unparsed info_ (zero) or a bad shape makes it fail.                     *)
SetupInputs(t) ==
    /\ pc[t] = "inputs"
    /\ \E badShape \in Fails("input_shape") :
         IF info = "none" \/ badShape
         THEN /\ pc' = [pc EXCEPT ![t] = "error"]
              /\ UNCHANGED inputs
         ELSE /\ inputs' = [inputs EXCEPT ![t] = ctx_in[t]]
              /\ pc' = [pc EXCEPT ![t] = "outputs"]
    /\ UNCHANGED <<mu, exe, execs, info, ctx_in>>

(* NeuronFunction::SetupOutputs: the output count must match               *)
(* info_.output_dtypes, then every output is allocated.                   *)
SetupOutputs(t) ==
    /\ pc[t] = "outputs"
    /\ \E allocFails \in Fails("allocate_output") :
         pc' = [pc EXCEPT ![t] = IF info = "none" \/ allocFails THEN "error" ELSE "shuffle"]
    /\ UNCHANGED <<mu, exe, execs, info, ctx_in, inputs>>

(* tensor_shuffle_impl: dst[idx] = src[shuffle.int64_val(idx)] for every   *)
(* element of src, into dst, a fresh allocate_temp.                       *)
\* Mutant: the loop starts at 1 and leaves element 0 as allocated.
tensor_shuffle_skip_first(dst, src, shuffle) ==
    [i \in Elems |-> IF i = 0 THEN dst[i] ELSE src[shuffle[i + 1]]]

tensor_shuffle(dst, src, shuffle) ==
    [i \in Elems |-> src[shuffle[i + 1]]]

(* NeuronFunction::MaybeShuffle: nothing without input_shuffles; else,    *)
(* for each input with a non-empty shuffle, allocate a temporary in its   *)
(* place and shuffle the old tensor into it.  An allocation failure       *)
(* returns at once, as does tensor_shuffle for a type outside the real    *)
(* numbers and bool (both are the failing step "shuffle").               *)
MaybeShuffle(t) ==
    /\ pc[t] = "shuffle"
    /\ \E fails \in Fails("shuffle") :
         LET shuffled == [k \in 1..NumInputs |->
                            IF Shuffles[k] = <<>> THEN inputs[t][k]
                            ELSE tensor_shuffle(Fresh, inputs[t][k], Shuffles[k])]
             needsTemp == \E k \in 1..NumInputs : Shuffles[k] # <<>>
         IN
         IF fails /\ needsTemp
         THEN /\ pc' = [pc EXCEPT ![t] = "error"]
              /\ UNCHANGED inputs
         ELSE /\ inputs' = [inputs EXCEPT ![t] = shuffled]
              /\ pc' = [pc EXCEPT ![t] = "execute"]
    /\ UNCHANGED <<mu, exe, execs, info, ctx_in>>

(* The rest of Run: host buffers, copies and exe_->RunOnHostMemory, which  *)
(* are outside this repository.                                            *)
Execute(t) ==
    /\ pc[t] = "execute"
    /\ pc' = [pc EXCEPT ![t] = "ok"]
    /\ UNCHANGED <<mu, exe, execs, info, ctx_in, inputs>>

ThreadStep(t) ==
    LockMu(t) \/ MaybeInit(t) \/ SetupInputs(t) \/ SetupOutputs(t)
    \/ MaybeShuffle(t) \/ Execute(t)

-----------------------------------------------------------------------------
(* A fresh NeuronFunction (exe_ = nullptr); every thread calls Run once   *)
(* with some input values.                                                *)
Init ==
    /\ mu = NoThread
    /\ exe = FALSE
    /\ execs = 0
    /\ info = "none"
    /\ pc = [t \in Threads |-> "init"]
    /\ ctx_in \in [Threads -> [1..NumInputs -> [Elems -> Vals]]]
    /\ inputs = [t \in Threads |-> [k \in 1..NumInputs |-> Fresh]]

Next == \E t \in Threads : ThreadStep(t)

Spec == Init /\ [][Next]_vars /\ \A t \in Threads : WF_vars(ThreadStep(t))

-----------------------------------------------------------------------------
TypeOK ==
    /\ mu \in Threads \cup {NoThread}
    /\ exe \in BOOLEAN /\ execs \in 0..NumRanges
    /\ info \in {"none", "lists", "full"}
    /\ pc \in [Threads -> {"init", "init_locked", "inputs", "outputs", "shuffle",
                           "execute", "ok", "error"}]
    /\ inputs \in [Threads -> [1..NumInputs -> Tensor]]

Past(t) == pc[t] \in {"inputs", "outputs", "shuffle", "execute", "ok"}

(* The comment in MaybeInit says exe_ != nullptr means "NeuronFunction is  *)
(* already initialized": every Run that got past MaybeInit uses a fully    *)
(* parsed info_ and an executable with every core range added.            *)
InitializedBeforeUse ==
    \A t \in Threads : Past(t) => info = "full" /\ execs = NumRanges

(* When Run executes, each input tensor holds exactly the elements of the  *)
(* tensor the caller passed, rearranged by its shuffle (none left as       *)
(* allocated, none duplicated), the ones without a shuffle unchanged.      *)
Count(x, f) == Cardinality({i \in Elems : f[i] = x})
InputsAreShuffledInputs ==
    \A t \in Threads : pc[t] \in {"execute", "ok"} =>
        \A k \in 1..NumInputs :
            \A x \in Vals \cup {Junk} : Count(x, inputs[t][k]) = Count(x, ctx_in[t][k])

=============================================================================
