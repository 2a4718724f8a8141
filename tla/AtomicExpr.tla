------------------------------ MODULE AtomicExpr ------------------------------
(***************************************************************************)
(* The expressions src/atomic_ops.c passes for the macro parameter EXPR of *)
(* SST_FETCH_OP, SST_SYNC_FETCH_OP, SST_SYNC_OP_AND_FETCH and              *)
(* SST_ATOMIC_ADD: unsigned arithmetic of the object's width.              *)
(***************************************************************************)
EXTENDS Integers, Sequences, Bitwise

CONSTANT WordBits   \* width of a machine word (32 on SPARC)

WordSize == 2 ^ WordBits

(* SPARC is big-endian: the first word of an 8-byte object is the high one. *)
ToInt(v) == IF Len(v) = 1 THEN v[1] ELSE v[1] * WordSize + v[2]

FromInt(n, i) ==
    IF n = 1 THEN <<i % WordSize>> ELSE <<(i \div WordSize) % WordSize, i % WordSize>>

Expr(op, old, val) ==
    LET n == Len(old)
        width == WordSize ^ n
        x == ToInt(old)
        y == ToInt(val)
    IN FromInt(n,
         CASE op = "add"  -> (x + y) % width
           [] op = "sub"  -> (x - y) % width
           [] op = "and"  -> x & y
           [] op = "or"   -> x | y
           [] op = "xor"  -> x ^^ y
           [] op = "nand" -> (width - 1) - (x & y))
==============================================================================
