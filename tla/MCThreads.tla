------------------------------ MODULE MCThreads ------------------------------
(* An instance of Threads: the atomics of MCAtomicOps, and timed waits for *)
(* a moment that has passed and for one that is to come.                   *)
EXTENDS Threads, MCAtomicOps

MCDeadlines == {0, 1}
==============================================================================
