-------------------------------- MODULE QSort --------------------------------
(***************************************************************************)
(* qsort_r of src/stdlib.c, one step for every call of compare_fn.  The    *)
(* function compare_fn may be an order, or it may answer anything.         *)
(***************************************************************************)
EXTENDS Integers, Sequences, FiniteSets

CONSTANTS
    Inputs,                   \* the arrays sorted, each a sequence of numbers
    MaxUnordered,             \* how long they are if compare_fn is no order
    QSORT_INSERTION_CUTOFF,
    SIZE_MAX                  \* where a size_t wraps around

QSortAssumption ==
    /\ QSORT_INSERTION_CUTOFF \in Nat \ {0}
    /\ \A s \in Inputs : Len(s) < SIZE_MAX

VARIABLES
    input, ordered,   \* the array, and whether compare_fn is an order
    base,             \* base[i], i from 0
    pc,
    calls,            \* the calls of qsort_recursive still to be made, the next first
    cur,              \* the one under way: [left, right, depth]
    index,            \* outer_index, scan_index
    at                \* inner_index, store_index

vars == <<input, ordered, base, pc, calls, cur, index, at>>

count == Len(input)

Range(l, r, d) == [left |-> l, right |-> r, depth |-> d]

Init ==
    /\ input \in Inputs /\ ordered \in BOOLEAN
    /\ count > MaxUnordered => ordered
    /\ base = [i \in 0..(count - 1) |-> input[i + 1]]
    /\ pc = IF count <= 1 THEN "done" ELSE "next"
    /\ calls = IF count <= 1 THEN <<>> ELSE <<Range(0, count - 1, 1)>>
    /\ cur = Range(0, 0, 0) /\ index = 0 /\ at = 0

(* What compare_fn(base[i], base[j]) > 0 may be. *)
Greater(i, j) == IF ordered THEN {base[i] > base[j]} ELSE BOOLEAN

Swap(b, i, j) == [b EXCEPT ![i] = b[j], ![j] = b[i]]

mid == cur.left + (cur.right - cur.left) \div 2

------------------------------------------------------------------------------
(* qsort_recursive is entered. *)
qsort_recursive ==
    /\ pc = "next" /\ calls # <<>>
    /\ LET c == Head(calls) IN
       /\ cur' = c /\ calls' = Tail(calls)
       /\ pc' = IF c.left >= c.right THEN "next"
                ELSE IF c.right - c.left + 1 <= QSORT_INSERTION_CUTOFF THEN "insert"
                ELSE "left mid"
       /\ index' = c.left + 1 /\ at' = c.left + 1
    /\ UNCHANGED <<input, ordered, base>>

(* Whether the element sinks; compare_fn is not asked at the left end. *)
SinksButFirst == IF at > cur.left + 1 THEN Greater(at - 1, at) ELSE {FALSE}

Sinks == IF at > cur.left THEN Greater(at - 1, at) ELSE {FALSE}

(* An element sinks, or stays and the next one is taken. *)
qsort_insertion_sort ==
    /\ pc = "insert" /\ index <= cur.right
    /\ \E gt \in Sinks :
          IF gt THEN base' = Swap(base, at - 1, at) /\ at' = at - 1 /\ UNCHANGED index
          ELSE index' = index + 1 /\ at' = index + 1 /\ UNCHANGED base
    /\ UNCHANGED <<input, ordered, pc, calls, cur>>

InsertionEnds ==
    /\ pc = "insert" /\ index > cur.right
    /\ pc' = "next"
    /\ UNCHANGED <<input, ordered, base, calls, cur, index, at>>

------------------------------------------------------------------------------
(* The first, the middle and the last element are put in order, ... *)
Exchange(i, j, from, to) ==
    /\ pc = from
    /\ \E gt \in Greater(i, j) : base' = IF gt THEN Swap(base, i, j) ELSE base
    /\ pc' = to
    /\ UNCHANGED <<input, ordered, calls, cur, index, at>>

MedianOfThree ==
    \/ Exchange(cur.left, mid, "left mid", "left right")
    \/ Exchange(cur.left, cur.right, "left right", "mid right")
    \/ Exchange(mid, cur.right, "mid right", "pivot")

(* ... and the middle one becomes the pivot, at the right end. *)
MedianLast ==
    /\ pc = "pivot"
    /\ base' = Swap(base, mid, cur.right)
    /\ pc' = "scan" /\ index' = cur.left /\ at' = cur.left
    /\ UNCHANGED <<input, ordered, calls, cur>>

qsort_lomuto_partition ==
    /\ pc = "scan" /\ index < cur.right
    /\ \E gt \in Greater(index, cur.right) :
          IF gt THEN UNCHANGED <<base, at>>
          ELSE base' = Swap(base, at, index) /\ at' = at + 1
    /\ index' = index + 1
    /\ UNCHANGED <<input, ordered, pc, calls, cur>>

(* The calls for the two parts. *)
LeftUnguarded(p) == <<Range(cur.left, (p - 1) % SIZE_MAX, cur.depth + 1)>>

Left(p) == IF p > cur.left THEN <<Range(cur.left, p - 1, cur.depth + 1)>> ELSE <<>>

Right(p) == IF p < cur.right THEN <<Range(p + 1, cur.right, cur.depth + 1)>> ELSE <<>>

(* The pivot goes to its place; the left part is sorted, then the right.   *)
Partitioned ==
    /\ pc = "scan" /\ index = cur.right
    /\ base' = Swap(base, at, cur.right)
    /\ calls' = Left(at) \o Right(at) \o calls
    /\ pc' = "next"
    /\ UNCHANGED <<input, ordered, cur, index, at>>

Return ==
    /\ pc = "next" /\ calls = <<>>
    /\ pc' = "done"
    /\ UNCHANGED <<input, ordered, base, calls, cur, index, at>>

Next ==
    \/ qsort_recursive \/ qsort_insertion_sort \/ InsertionEnds
    \/ MedianOfThree \/ MedianLast \/ qsort_lomuto_partition \/ Partitioned
    \/ Return
    \/ pc = "done" /\ UNCHANGED vars

Spec == Init /\ [][Next]_vars

------------------------------------------------------------------------------
(* stdlib.c:282 - no call goes outside the array, and no two calls are     *)
(* about the same element: what compare_fn answers does not matter, and no *)
(* size_t wraps around at the left end.                                    *)
InBounds ==
    /\ \A i \in DOMAIN calls : calls[i].left >= 0 /\ calls[i].right < count
    /\ \A i, j \in DOMAIN calls : i < j => calls[i].right < calls[j].left
    /\ pc \in {"insert", "scan"} => at >= cur.left /\ at <= cur.right + 1

(* stdlib.c:351 - at every moment the array holds the elements it was      *)
(* given, each as often, even if compare_fn contradicts itself; and in the *)
(* end they are sorted if compare_fn is an order.                          *)
Sorts ==
    /\ \A v \in {input[i] : i \in 1..count} :
          Cardinality({i \in DOMAIN base : base[i] = v})
            = Cardinality({i \in 1..count : input[i] = v})
    /\ pc = "done" /\ ordered =>
          \A i \in 1..(count - 1) : base[i - 1] <= base[i]

Monotone(s) ==
    \/ \A i \in 1..(Len(s) - 1) : s[i] < s[i + 1]
    \/ \A i \in 1..(Len(s) - 1) : s[i] > s[i + 1]

(* stdlib.c:312 - the median of three "avoids worst-case ... behaviour on  *)
(* sorted or reverse-sorted input": the calls do not nest deeper than      *)
(* twice the logarithm of the number of elements.                          *)
Shallow == ordered /\ Monotone(input) => 2 ^ cur.depth <= 2 + count * count
==============================================================================
