----------------------------- MODULE MCAtomicOps -----------------------------
(* An instance of AtomicOps: a 4-byte and an 8-byte object on one stripe,  *)
(* and a 4-byte flag on another that is only loaded and stored.            *)
EXTENDS AtomicOps, AtomicExpr, TLC

MCWord == 0 .. (WordSize - 1)

MCObj == {0, 8, 16}

MixedObj == {0}

MCSize == [a \in Obj |-> IF a = 8 THEN 8 ELSE 4]

MCOpCode == {"add", "sub", "and", "or", "xor", "nand"}

Mk(fn, a, op, val, exp) == [fn |-> fn, obj |-> a, op |-> op, val |-> val, exp |-> exp]

MCCalls ==
    {Mk("fetch_op", 0, "add", <<1>>, <<0>>),
     Mk("op_and_fetch", 0, "nand", <<1>>, <<0>>),
     Mk("compare_exchange", 0, "add", <<1>>, <<0>>),
     Mk("load_4", 0, "add", <<0>>, <<0>>),
     Mk("fetch_op", 8, "add", <<0, 1>>, <<0, 0>>),
     Mk("load_8", 8, "add", <<0, 0>>, <<0, 0>>),
     Mk("store_8", 8, "add", <<1, 1>>, <<0, 0>>),
     Mk("store_4", 16, "add", <<1>>, <<0>>),
     Mk("exchange", 8, "add", <<0, 0>>, <<0, 0>>)}

(* An object that is both stored plainly and updated under its lock.  No   *)
(* "| 1" yields the 2 that is stored, so a lost store cannot go unnoticed. *)
MixedCalls ==
    {Mk("fetch_op", 0, "or", <<1>>, <<0>>),
     Mk("store_4", 0, "or", <<2>>, <<0>>)}
==============================================================================
