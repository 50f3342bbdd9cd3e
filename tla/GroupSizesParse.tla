--------------------------- MODULE GroupSizesParse ---------------------------
(***************************************************************************)
(* The parse of NEURONCORE_GROUP_SIZES in NeuronDeviceManager::initialize  *)
(* (src/unnamed/part_000): strip "[" and "]" with remove_pattern, split    *)
(* the rest at ',' with std::getline, convert each non-empty piece with    *)
(* stoi_no_throw, and throw the whole list away if a piece is outside      *)
(* 0..64.  An empty result makes initialize fall back to                   *)
(* init_default_device.                                                    *)
(*                                                                         *)
(* A string is a sequence of characters.  remove_pattern passes its own    *)
(* uninitialized variable pos to std::string::find as the start of the     *)
(* search, so every search may start anywhere: the operators return the    *)
(* set of results the program can produce.                                 *)
(***************************************************************************)
EXTENDS Integers, SequencesExt, TLC

CONSTANTS
    Chars,         \* the characters strings are made of
    MaxLen,        \* the longest NEURONCORE_GROUP_SIZES value checked
    MaxNumCores    \* MAX_NUM_CORES: the most pieces the loop reads

Digits == "0" :> 0 @@ "1" :> 1 @@ "2" :> 2 @@ "3" :> 3 @@ "4" :> 4
          @@ "5" :> 5 @@ "6" :> 6 @@ "7" :> 7 @@ "8" :> 8 @@ "9" :> 9

IsDigit(c) == c \in DOMAIN Digits

(* std::string::find(c, start): the 0-based index of the first c at or     *)
(* after start, or -1 for npos.                                            *)
Find(s, c, start) == SelectInSubSeq(s, start + 1, Len(s), LAMBDA x : x = c) - 1

(* The values pos can hold when find reads it: anything, and a start past  *)
(* the end finds nothing, as start = Len(s) does.                          *)
PosValues(s) == 0..Len(s)

(* remove_pattern(data, c): at most as many rounds as data has characters; *)
(* each finds c from an unknown start and erases it, or stops.            *)
RECURSIVE RemoveRounds(_, _, _)
RemoveRounds(data, c, rounds) ==
    IF rounds = 0 THEN {data}
    ELSE UNION { IF p = -1 THEN {data} ELSE RemoveRounds(RemoveAt(data, p + 1), c, rounds - 1)
                 : p \in {Find(data, c, pos) : pos \in PosValues(data)} }

remove_pattern(data, c) == RemoveRounds(data, c, Len(data))

(* The pieces std::getline(stream, substr, ',') yields, in order, before   *)
(* the stream stops being good(): one more than there are commas.         *)
RECURSIVE Pieces(_)
Pieces(s) ==
    LET i == SelectInSeq(s, LAMBDA x : x = ",") IN
    IF i = 0 THEN <<s>> ELSE <<SubSeq(s, 1, i - 1)>> \o Pieces(SubSeq(s, i + 1, Len(s)))

(* stoi_no_throw: std::stoi reads the longest prefix of digits (after an   *)
(* optional sign, not among Chars) and throws invalid_argument without    *)
(* one, which stoi_no_throw turns into -1.                                 *)
stoi_no_throw(str) ==
    LET n == SelectInSeq(str, LAMBDA x : ~IsDigit(x))
        k == IF n = 0 THEN Len(str) ELSE n - 1
    IN IF k = 0 THEN -1
       ELSE FoldLeft(LAMBDA acc, x : 10 * acc + Digits[x], 0, SubSeq(str, 1, k))

(* The loop of initialize over the pieces: skip empty ones; a value      *)
(* outside 0..64 clears what was pushed and ends the loop.                 *)
CoreRequests(pieces) ==
    LET full == SelectSeq(pieces, LAMBDA p : p # <<>>)
        v    == [i \in 1..Len(full) |-> stoi_no_throw(full[i])]
    IN IF \E i \in 1..Len(v) : v[i] < 0 \/ v[i] > 64 THEN <<>> ELSE v

(* num_cores_req_vector for a value of NEURONCORE_GROUP_SIZES.             *)
GroupSizes(raw) ==
    { CoreRequests(SubSeq(Pieces(s), 1, Min({Len(Pieces(s)), MaxNumCores}))) :
        s \in UNION {remove_pattern(r, "]") : r \in remove_pattern(raw, "[")} }

-----------------------------------------------------------------------------
(* The format the configuration documents: an optional pair of brackets   *)
(* around comma-separated decimal numbers, each in 0..64.                 *)
Numeral(s) == s # <<>> /\ \A i \in 1..Len(s) : IsDigit(s[i])
NumeralValue(s) == FoldLeft(LAMBDA acc, x : 10 * acc + Digits[x], 0, s)

ListBody(s) ==
    s # <<>> /\ \A p \in ToSet(Pieces(s)) : Numeral(p) /\ NumeralValue(p) <= 64

Unbracketed(s) ==
    IF Len(s) >= 2 /\ s[1] = "[" /\ s[Len(s)] = "]" THEN SubSeq(s, 2, Len(s) - 1) ELSE s

WellFormed(s) == ListBody(Unbracketed(s))

Listed(s) == [i \in 1..Len(Pieces(Unbracketed(s))) |-> NumeralValue(Pieces(Unbracketed(s))[i])]

-----------------------------------------------------------------------------
VARIABLES
    raw,      \* the value of NEURONCORE_GROUP_SIZES
    sizes     \* the num_cores_req_vector initialize builds from it

vars == <<raw, sizes>>

Init ==
    /\ raw \in BoundedSeq(Chars, MaxLen) \ {<<>>}
    /\ sizes \in GroupSizes(raw)

\* The parse is done once, when the pool is initialized.
Next == UNCHANGED vars

Spec == Init /\ [][Next]_vars

(* A documented value is parsed into exactly the group sizes it lists, in *)
(* order, so initialize creates the groups the user asked for rather than *)
(* falling back to the default group.                                     *)
GroupSizesAsWritten == WellFormed(raw) => sizes = Listed(raw)

=============================================================================
