------------------------ MODULE NeuronExecutableInfo ------------------------
(***************************************************************************)
(* NeuronExecutableInfo::ParseFromNodeDef and ParseModelConfig             *)
(* (src/unnamed/part_001): the attributes of a Neuron op, read once by     *)
(* NeuronFunction::MaybeInit.                                              *)
(*                                                                         *)
(* A NodeDef is abstracted to what the checks look at: whether every       *)
(* required key is present (which one is missing only changes the         *)
(* message), the size of each list attribute, the shuffle tensors, and    *)
(* the int64 entries of model_config.  An int64 is held as its two 32-bit  *)
(* words, value = hi * 2^32 + (lo mod 2^32), since TLC's integers are 32   *)
(* bits wide.                                                              *)
(***************************************************************************)
EXTENDS Integers, Sequences

CONSTANTS
    Counts,       \* sizes a list attribute can have
    HighWords,    \* high words of an int64 attribute
    Words,        \* low words of an int64 attribute, read as int32
    ShuffleLens   \* int64_val_size of a shuffle tensor

Dirs == {"input", "output"}
SizedLists == {"names", "shapes", "batch_axis"}

MAX_NUM_CORES == 1024
kModelConfigKeyBound == 3

Int64s == [hi : HighWords, lo : Words]

(* (int32_t) of an int64: its low word, two's complement.                  *)
Int32Cast(v) == v.lo

(* The int64 v lies in a..b, for 0 <= a <= b < 2^31: its high word is 0    *)
(* and its low word, which is then non-negative, lies in a..b.             *)
Int64In(v, a, b) == v.hi = 0 /\ v.lo \in a..b

(* A shuffle TensorProto: its int64_val_size, and whether the dtype and    *)
(* shape it carries describe its contents.                                 *)
ShuffleProtos == [len : ShuffleLens, header : BOOLEAN]

(* The input_shuffles attribute: absent, or present with a list of         *)
(* shuffle tensors (possibly none).                                        *)
ShuffleAttrs ==
    {[present |-> FALSE, list |-> <<>>]}
    \cup {[present |-> TRUE, list |-> l] :
            l \in UNION {[1..n -> ShuffleProtos] : n \in {0} \cup Counts}}

NodeDefs ==
    [keys     : BOOLEAN,
     dtypes   : [Dirs -> Counts],
     sizes    : [Dirs \X SizedLists -> Counts],
     shuffles : ShuffleAttrs,
     \* model_config: i_size() and entries i(kOptNumCores), i(kMaxNumDuplicates)
     config   : [size : {kModelConfigKeyBound - 1, kModelConfigKeyBound},
                 opt : Int64s, dup : Int64s]]

-----------------------------------------------------------------------------
(* The SIZE_CHECKs: every list of a direction has one entry per dtype.     *)
SizesMatch(nd) == \A d \in Dirs, l \in SizedLists : nd.sizes[<<d, l>>] = nd.dtypes[d]

(* Tensor::FromProto of a shuffle after the parse has set a non-empty one  *)
(* to DT_INT64 of shape [int64_val_size]: an empty one keeps its own.      *)
ShuffleProtoValid(p) == p.len > 0 \/ p.header

(* Only a present attribute is checked: one tensor per input, each of     *)
(* which converts.                                                         *)
ShufflesValid(nd) ==
    ~nd.shuffles.present
    \/ /\ Len(nd.shuffles.list) = nd.dtypes["input"]
       /\ \A i \in DOMAIN nd.shuffles.list : ShuffleProtoValid(nd.shuffles.list[i])

(* ParseModelConfig: each value is cast to int32, stored in the info, then *)
(* range-checked; a failed check returns with the value already stored.   *)
ParseModelConfig(cfg) ==
    LET opt == Int32Cast(cfg.opt)
        dup == Int32Cast(cfg.dup)
    IN CASE cfg.size < kModelConfigKeyBound
              -> [status |-> "invalid", opt |-> "unset", dup |-> "unset"]
         [] ~(0 <= opt /\ opt < MAX_NUM_CORES)
              -> [status |-> "invalid", opt |-> opt, dup |-> "unset"]
         [] ~(0 < dup /\ dup < MAX_NUM_CORES)
              -> [status |-> "invalid", opt |-> opt, dup |-> dup]
         [] OTHER
              -> [status |-> "ok", opt |-> opt, dup |-> dup]

(* ParseFromNodeDef: the key checks, the size checks, the shuffle checks,  *)
(* then ParseModelConfig, each returning at its first failure.             *)
ParseFromNodeDef(nd) ==
    IF ~nd.keys \/ ~SizesMatch(nd) \/ ~ShufflesValid(nd)
    THEN [status |-> "invalid", opt |-> "unset", dup |-> "unset"]
    ELSE ParseModelConfig(nd.config)

-----------------------------------------------------------------------------
VARIABLES
    node,   \* the NodeDef of the op
    info    \* what ParseFromNodeDef returns and stores

vars == <<node, info>>

Init ==
    /\ node \in NodeDefs
    /\ info = ParseFromNodeDef(node)

\* The parse runs once, in MaybeInit, under mu_.
Next == UNCHANGED vars

Spec == Init /\ [][Next]_vars

(* ParseModelConfig's checks say that an op is accepted only with         *)
(* 0 <= optimal_num_cores < 1024 and 0 < max_num_duplicates < 1024: a      *)
(* NodeDef that ParseFromNodeDef accepts has model_config entries in       *)
(* those ranges.                                                           *)
ModelConfigAsChecked ==
    info.status = "ok" =>
        /\ Int64In(node.config.opt, 0, MAX_NUM_CORES - 1)
        /\ Int64In(node.config.dup, 1, MAX_NUM_CORES - 1)

=============================================================================
