-------------------------------- MODULE Stats --------------------------------
(***************************************************************************)
(* StorageBackendStats of src/storage/src/storage_backend.rs: three usize *)
(* byte counters with field-wise +, -, Sum and total_as_bytes, and the    *)
(* stats of one entry.  usize arithmetic is taken modulo 2^Width, as a    *)
(* release build computes it (a debug build panics where the exact sum or *)
(* difference leaves 0..2^Width-1).  The operators are checked against    *)
(* the exact integer arithmetic they stand for.                           *)
(***************************************************************************)
EXTENDS Integers, Sequences, SequencesExt

CONSTANTS
    Width,       \* bits of usize in the check
    HashSize,    \* mem::size_of::<EntryHash>()
    VecSize,     \* mem::size_of::<Vec<u8>>()
    Capacities   \* Vec / HashSet capacities the inputs are built from

Fields == {"key_bytes", "value_bytes", "reused_keys_bytes"}
Modulus == 2^Width
Usize == 0..(Modulus - 1)
Wrap(n) == ((n % Modulus) + Modulus) % Modulus

\* Default::default()
Zero == [f \in Fields |-> 0]

\* size_of_vec(v): the Vec header plus its capacity in bytes.
SizeOfVec(cap) == Wrap(VecSize + cap)

\* From<(&EntryHash, &ContextValue)>: stats of one stored entry.
FromEntry(cap) ==
    [key_bytes |-> HashSize, value_bytes |-> SizeOfVec(cap), reused_keys_bytes |-> 0]

\* update_reused_keys: sets (does not add to) reused_keys_bytes.
UpdateReusedKeys(s, cap) == [s EXCEPT !.reused_keys_bytes = Wrap(cap * HashSize)]

StatsAdd(a, b) == [f \in Fields |-> Wrap(a[f] + b[f])]

\* Variant subtracting the value bytes from the key bytes.
StatsSubCrossed(a, b) ==
    [f \in Fields |-> Wrap(a[f] - b[IF f = "key_bytes" THEN "value_bytes" ELSE f])]

StatsSub(a, b) == [f \in Fields |-> Wrap(a[f] - b[f])]

\* Variant folding all but the last element.
StatsSumButLast(list) ==
    IF list = <<>> THEN Zero ELSE FoldLeft(StatsAdd, Zero, Front(list))

\* Sum: iter.fold(StorageBackendStats::default(), |acc, cur| acc + cur)
StatsSum(list) == FoldLeft(StatsAdd, Zero, list)

TotalAsBytes(s) == Wrap(Wrap(s.key_bytes + s.value_bytes) + s.reused_keys_bytes)

\* Reference: exact integer sums.
RECURSIVE RefSum(_)
RefSum(list) ==
    IF list = <<>> THEN Zero
    ELSE [f \in Fields |-> Head(list)[f] + RefSum(Tail(list))[f]]

RefTotal(s) == s.key_bytes + s.value_bytes + s.reused_keys_bytes

Fits(s) == \A f \in Fields : s[f] \in Usize

-----------------------------------------------------------------------------
(* Inputs: stats of an entry with its reused-key bytes updated, as the    *)
(* backends build them.                                                    *)

Inputs == { UpdateReusedKeys(FromEntry(v), r) : v \in Capacities, r \in Capacities }

VARIABLES a, b, list
vars == <<a, b, list>>

Init ==
    /\ a \in Inputs /\ b \in Inputs
    /\ list \in UNION { [1..n -> Inputs] : n \in 0..2 }

Next == UNCHANGED vars
Spec == Init /\ [][Next]_vars

\* Inputs and every result are usize triples.
TypeOK ==
    /\ {a, b, StatsAdd(a, b), StatsSub(a, b), StatsSum(list)} \subseteq [Fields -> Usize]
    /\ list \in Seq([Fields -> Usize]) /\ TotalAsBytes(a) \in Usize

\* (a + b) - b == a (spec, testable properties): subtracting what was added
\* restores every field, whenever the addition did not overflow.
SubInvertsAdd ==
    Fits(RefSum(<<a, b>>)) => StatsSub(StatsAdd(a, b), b) = a

\* Sum over a list of stats and total_as_bytes agree with exact arithmetic
\* whenever the exact totals fit in a usize.
SumMatchesReference ==
    Fits(RefSum(list)) /\ RefTotal(RefSum(list)) < Modulus
        => /\ StatsSum(list) = RefSum(list)
           /\ TotalAsBytes(StatsSum(list)) = RefTotal(RefSum(list))
=============================================================================
