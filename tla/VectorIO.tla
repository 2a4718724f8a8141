------------------------------ MODULE VectorIO -------------------------------
(***************************************************************************)
(* preadv and pwritev of src/stdio.c, which call pread or pwrite for one   *)
(* element of the vector after the other.  The two differ in that preadv   *)
(* tests for the end of the file by itself; for pwritev a transfer of      *)
(* nothing is a short one.                                                 *)
(***************************************************************************)
EXTENDS Integers, Sequences, FiniteSets

CONSTANTS
    MaxCount,     \* how many elements a vector may have
    MaxLen,       \* how long each
    Offset        \* the offset in the file

VectorAssumption == MaxCount \in Nat /\ MaxLen \in Nat /\ Offset \in Nat

VARIABLES
    iov,                \* iov[i]: iov_len
    vector_index, offset, total_bytes,
    moved,              \* the bytes moved: <<element, place in it, place in the file>>
    pc, ret

vars == <<iov, vector_index, offset, total_bytes, moved, pc, ret>>

Init ==
    /\ iov \in UNION {[1..k -> 0..MaxLen] : k \in 0..MaxCount}
    /\ vector_index = 1 /\ offset = Offset /\ total_bytes = 0
    /\ moved = {} /\ pc = "loop" /\ ret = 0

Returns(r) == pc' = "done" /\ ret' = r

(* pread or pwrite moves k bytes of the element. *)
Transfer(k) == moved \cup {<<vector_index, i, offset + i>> : i \in 1..k}

MovesOn(k) ==
    /\ moved' = Transfer(k)
    /\ total_bytes' = total_bytes + k /\ offset' = offset + k
    /\ vector_index' = vector_index + 1

Skip ==
    /\ pc = "loop" /\ vector_index <= Len(iov) /\ iov[vector_index] = 0
    /\ vector_index' = vector_index + 1
    /\ UNCHANGED <<iov, offset, total_bytes, moved, pc, ret>>

MoveOnAlways(k) ==
    /\ pc = "loop" /\ vector_index <= Len(iov) /\ k \in 1..iov[vector_index]
    /\ MovesOn(k)
    /\ UNCHANGED <<iov, pc, ret>>

(* A short transfer, one of nothing among them, ends the call. *)
Move(k) ==
    /\ pc = "loop" /\ vector_index <= Len(iov) /\ iov[vector_index] > 0
    /\ k \in 0..iov[vector_index]
    /\ MovesOn(k)
    /\ IF k < iov[vector_index] THEN Returns(total_bytes') ELSE UNCHANGED <<pc, ret>>
    /\ UNCHANGED iov

(* An error is reported if nothing has been moved. *)
Fail ==
    /\ pc = "loop" /\ vector_index <= Len(iov) /\ iov[vector_index] > 0
    /\ Returns(IF total_bytes > 0 THEN total_bytes ELSE -1)
    /\ UNCHANGED <<iov, vector_index, offset, total_bytes, moved>>

Finish ==
    /\ pc = "loop" /\ vector_index > Len(iov)
    /\ Returns(total_bytes)
    /\ UNCHANGED <<iov, vector_index, offset, total_bytes, moved>>

Next ==
    \/ Skip \/ (\E k \in 0..MaxLen : Move(k)) \/ Fail \/ Finish
    \/ pc = "done" /\ UNCHANGED vars

Spec == Init /\ [][Next]_vars

------------------------------------------------------------------------------
(* The bytes of the elements before m[1], and m's place in its own. *)
Rank(m) == Cardinality({<<e, i>> \in (1..Len(iov)) \X (1..MaxLen) :
                           i <= iov[e] /\ (e < m[1] \/ (e = m[1] /\ i <= m[2]))})

(* stdio.c:163, 193 - the bytes moved are the first ones of the vector, in *)
(* order and without a gap, at consecutive places of the file: a short     *)
(* transfer is never followed by another, and no byte is moved twice.      *)
Contiguous ==
    /\ \A m \in moved : m[3] = Offset + Rank(m) /\ Rank(m) <= total_bytes
    /\ Cardinality(moved) = total_bytes

(* stdio.c:178, 208 - the result is the number of bytes moved, even when   *)
(* an error ended the call, and -1 only when there are none.               *)
CountsMoved ==
    pc = "done" => ret = Cardinality(moved) \/ (ret = -1 /\ moved = {})
==============================================================================
