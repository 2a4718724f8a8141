----------------------------- MODULE AtomicCalls -----------------------------
(***************************************************************************)
(* The data of the atomic primitives of src/atomic_ops.c: objects, their   *)
(* values, and what each family of primitives computes.  An object is      *)
(* named by its byte address and is accessed with one size only.  An       *)
(* 8-byte object is two 4-byte words; a smaller one behaves like one word. *)
(***************************************************************************)
EXTENDS Naturals

CONSTANTS
    Obj,            \* byte addresses of the shared objects
    Size,           \* Size[a]: size of the object at a, 4 or 8 bytes
    Word,           \* the values one machine word can hold
    OpCode,         \* the operations that instantiate the EXPR macros
    EXPR(_, _, _),  \* EXPR(op, old, val): the macro parameter EXPR
    Calls           \* the calls the program makes

Words(a) == 1 .. (Size[a] \div 4)

Value(a) == [Words(a) -> Word]

Values == UNION {Value(a) : a \in Obj}

(* Families whose body runs under the stripe lock, and the two that do not. *)
LockedFn == {"compare_exchange", "fetch_op", "op_and_fetch", "exchange",
             "load_8", "store_8"}

PlainFn == {"load_4", "store_4"}

Call == [fn : LockedFn \cup PlainFn, obj : Obj, op : OpCode,
         val : Values, exp : Values]

ASSUME ObjAssumption ==
    /\ Obj \subseteq Nat
    /\ Size \in [Obj -> {4, 8}]
    /\ Word # {}

ASSUME ExprAssumption ==
    \A a \in Obj, op \in OpCode : \A old, val \in Value(a) :
        EXPR(op, old, val) \in Value(a)

(* A call passes values of its object's type, and the plain accesses exist *)
(* for 4-byte objects only.                                                *)
ASSUME CallsAssumption ==
    /\ Calls \subseteq Call /\ Calls # {}
    /\ \A c \in Calls : /\ c.val \in Value(c.obj)
                        /\ c.exp \in Value(c.obj)
                        /\ c.fn \in PlainFn => Size[c.obj] = 4

(* What a thread that executes no primitive has for the locals of one. *)
NoCall == CHOOSE c \in Calls : TRUE

(* store_8, and __sync_lock_release_4 with it, never reads its target. *)
ReadsTarget(c) == c.fn \notin {"store_8", "store_4"}

(* Whether the call writes, given the value it found. *)
Stores(c, old) ==
    \/ c.fn \in {"fetch_op", "op_and_fetch", "exchange", "store_8", "store_4"}
    \/ c.fn = "compare_exchange" /\ old = c.exp

NewValue(c, old) ==
    IF c.fn \in {"fetch_op", "op_and_fetch"} THEN EXPR(c.op, old, c.val) ELSE c.val

(* The value a call returns.  A compare-exchange's boolean and the value   *)
(* it leaves in *expected are functions of the value it found.             *)
Result(c, old) ==
    IF c.fn = "op_and_fetch" THEN NewValue(c, old) ELSE old

(* The program uses the unlocked store on an object only if it otherwise   *)
(* accesses that object by plain loads and stores.                         *)
StoreDiscipline ==
    \A c, d \in Calls :
        c.fn = "store_4" /\ d.obj = c.obj => d.fn \in PlainFn
==============================================================================
