----------------------------- MODULE MCMemStream -----------------------------
(* Instances of MemStream for TLC. *)
EXTENDS MemStream, TLC

Symmetry == Permutations(Thread) \cup Permutations(Buf)
==============================================================================
