----------------------------- MODULE FastMemcpy -----------------------------
(***************************************************************************)
(* tensor_memcpy and fast_memcpy (src/runtime/tensor_util.cc): the copy of *)
(* a byte string into a tensor, done by a byte-wise copy for small sizes,  *)
(* by one word-wise copy plus a byte-wise tail for medium sizes or without *)
(* a thread pool, and by eight slices run on the thread pool otherwise.    *)
(*                                                                         *)
(* Bytes are not modelled one by one: a copy call is a record [off, len,   *)
(* fn] (offset into both buffers, length passed, copy routine), and what  *)
(* it writes is the interval of bytes its routine really copies.  Pointer  *)
(* addresses are abstracted to their value modulo 8.  The slices of the    *)
(* parallel path run in any order, as ParallelFor's shards do; the calls  *)
(* of the other paths run in program order.                                *)
(***************************************************************************)
EXTENDS Integers, Sequences, FiniteSetsExt

CONSTANTS
    ArgSizes,    \* memcpy_size values passed by callers (negative: whole tensor)
    BufSizes,    \* byte sizes of the source and of the destination tensor
    Misaligns,   \* addresses of the buffers modulo 8
    SmallLimit,  \* 1024: below it, std::copy_n
    SerialLimit  \* 1024 * 1024 * 4: up to it, a single-threaded copy

ASSUME /\ BufSizes \subseteq Nat /\ ArgSizes \subseteq Int
       /\ Misaligns \subseteq 0..7

NumParallel == 8

\* Bytes moved by one call of a routine given len: memcpy_uint64 and
\* memcpy_uint32 copy len / 8 and len / 4 whole words and drop the rest.
Width(fn) == CASE fn = "u64" -> 8 [] fn = "u32" -> 4 [] fn = "memcpy" -> 1
Written(op) == [lo |-> op.off, hi |-> op.off + (op.len \div Width(op.fn)) * Width(op.fn)]

Call(off, len, fn) == [off |-> off, len |-> len, fn |-> fn]

-----------------------------------------------------------------------------
(* The routine and granularity chosen from the alignment of both pointers. *)
Alignment(s, d) ==
    IF s % 8 = 0 /\ d % 8 = 0 THEN 8 ELSE IF s % 4 = 0 /\ d % 4 = 0 THEN 4 ELSE 1
RoutineOf(a) == CASE a = 8 -> "u64" [] a = 4 -> "u32" [] a = 1 -> "memcpy"

\* Mutant: copy_size rounded up to the next word instead of down.
SerialCopySizeUp(total, a) == (total \div a) * a + a

SerialCopySize(total, a) == (total \div a) * a

(* The single-threaded branch: one call with the chosen routine, then a   *)
(* std::memcpy of the tail copy_size leaves.                              *)
SerialPlan(total, a) ==
    LET cs == SerialCopySize(total, a) IN
    <<Call(0, cs, RoutineOf(a))>>
      \o (IF cs # total THEN <<Call(cs, total - cs, "memcpy")>> ELSE <<>>)

\* Mutant: the slice size is not rounded down to the alignment.
SliceSizeUnrounded(total, a) == total \div NumParallel

SliceSize(total, a) == LET s == total \div NumParallel IN s - (s % a)

\* Mutant: the last slice keeps the word routine whatever its size.
LastSliceRoutineKept(last, a) == RoutineOf(a)

LastSliceRoutine(last, a) == IF last % a # 0 THEN "memcpy" ELSE RoutineOf(a)

(* The parallel branch: NumParallel slices of slice_size bytes at offset   *)
(* idx * slice_size, the last one taking the remainder.                   *)
ParallelPlan(total, a) ==
    LET s    == SliceSize(total, a)
        last == total - s * (NumParallel - 1)
    IN [i \in 1..NumParallel |->
          IF i = NumParallel THEN Call((i - 1) * s, last, LastSliceRoutine(last, a))
          ELSE Call((i - 1) * s, s, RoutineOf(a))]

(* fast_memcpy: the calls it makes, and whether they run in parallel.     *)
fast_memcpy(pool, s, d, total) ==
    IF total < SmallLimit THEN [calls |-> <<Call(0, total, "memcpy")>>, parallel |-> FALSE]
    ELSE IF total <= SerialLimit \/ ~pool
    THEN [calls |-> SerialPlan(total, Alignment(s, d)), parallel |-> FALSE]
    ELSE [calls |-> ParallelPlan(total, Alignment(s, d)), parallel |-> TRUE]

(* tensor_memcpy's checks: a data type memcpy cannot handle is refused; a  *)
(* negative memcpy_size means the whole destination; a size larger than   *)
(* either buffer is refused.                                               *)
tensor_memcpy(dtypeOk, arg, srcSize, dstSize) ==
    LET n == IF arg < 0 THEN dstSize ELSE arg IN
    CASE ~dtypeOk                       -> [status |-> "Unimplemented", size |-> 0]
      [] n > srcSize \/ n > dstSize     -> [status |-> "OutOfRange", size |-> 0]
      [] OTHER                          -> [status |-> "copying", size |-> n]

-----------------------------------------------------------------------------
VARIABLES
    req,     \* the call: dtype, memcpy_size, buffer sizes, addresses, pool
    status,  \* "copying", "ok", or the error returned
    size,    \* the number of bytes being copied
    plan,    \* the calls fast_memcpy makes
    done     \* the calls that have run

vars == <<req, status, size, plan, done>>

Requests == [dtypeOk : BOOLEAN, arg : ArgSizes, srcSize : BufSizes, dstSize : BufSizes,
             srcMis : Misaligns, dstMis : Misaligns, pool : BOOLEAN]

Init ==
    \E r \in Requests :
        LET chk == tensor_memcpy(r.dtypeOk, r.arg, r.srcSize, r.dstSize)
            fm  == fast_memcpy(r.pool, r.srcMis, r.dstMis, chk.size)
        IN /\ req = r
           /\ status = chk.status
           /\ size = chk.size
           /\ plan = IF chk.status = "copying" THEN fm ELSE [calls |-> <<>>, parallel |-> FALSE]
           /\ done = {}

(* One call of the plan runs: any slice not yet run on the parallel path,  *)
(* the next call in program order otherwise.  The copy is over once every  *)
(* call has run.                                                           *)
RunCall(i) ==
    /\ status = "copying"
    /\ i \in DOMAIN plan.calls \ done
    /\ plan.parallel \/ \A j \in 1..(i - 1) : j \in done
    /\ done' = done \cup {i}
    /\ status' = IF done' = DOMAIN plan.calls THEN "ok" ELSE status
    /\ UNCHANGED <<req, size, plan>>

Next == \E i \in 1..NumParallel : RunCall(i)

Spec == Init /\ [][Next]_vars /\ WF_vars(Next)

-----------------------------------------------------------------------------
TypeOK ==
    /\ status \in {"copying", "ok", "Unimplemented", "OutOfRange"}
    /\ size \in Nat
    /\ \A i \in DOMAIN plan.calls :
         plan.calls[i].off \in Nat /\ plan.calls[i].len \in Nat
    /\ done \subseteq DOMAIN plan.calls

(* Every word-wise call that has run (memcpy_uint64, memcpy_uint32) reads  *)
(* and writes whole words at addresses aligned to the word: fast_memcpy    *)
(* picks the routine from the base addresses, and the slice offsets must  *)
(* keep that alignment.                                                    *)
CopiesAligned ==
    \A i \in done :
        LET c == plan.calls[i] IN
        c.fn # "memcpy" =>
            /\ (req.srcMis + c.off) % Width(c.fn) = 0
            /\ (req.dstMis + c.off) % Width(c.fn) = 0

(* No two calls that have run wrote the same byte (the slices run on       *)
(* different threads, so an overlap is a data race), and once tensor_memcpy *)
(* reports success every byte 0 .. size-1 was written exactly once, inside *)
(* both buffers.                                                           *)
CopyExact ==
    /\ \A i, j \in done : i # j =>
         LET a == Written(plan.calls[i])
             b == Written(plan.calls[j])
         IN a.hi <= b.lo \/ b.hi <= a.lo \/ a.lo = a.hi \/ b.lo = b.hi
    /\ status = "ok" =>
         /\ size <= req.srcSize /\ size <= req.dstSize
         /\ \A i \in done : 0 <= Written(plan.calls[i]).lo /\ Written(plan.calls[i]).hi <= size
         /\ MapThenSumSet(LAMBDA i : Written(plan.calls[i]).hi - Written(plan.calls[i]).lo, done)
              = size

=============================================================================
