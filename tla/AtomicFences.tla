---------------------------- MODULE AtomicFences -----------------------------
(***************************************************************************)
(* The barriers of src/atomic_ops.c on a multiprocessor with store         *)
(* buffers.  Each thread publishes a datum and a flag with __atomic_store_4,*)
(* fences with __sync_synchronize, reads the other threads' flag and datum *)
(* with __atomic_load_4, and then increments a shared counter with a       *)
(* primitive that takes a stripe lock.                                     *)
(***************************************************************************)
EXTENDS Naturals, Sequences, FiniteSets

CONSTANT Thread

FenceAssumption == IsFiniteSet(Thread)

Loc == ({"data", "flag"} \X Thread) \cup {<<"counter">>, <<"byte">>}

BARRIER == [barrier |-> TRUE]

VARIABLES
    build,     \* "v7" or "v9": the #if branch the library is compiled with
    ordering,  \* "TSO" or "PSO": the memory model of the machine
    mem,    \* mem[l]: what memory holds at l
    buf,    \* buf[t]: t's stores on their way to memory, with the barriers
    pc,     \* pc[t]: the next thing t does
    other,  \* other[t]: the thread whose publication t reads
    got     \* got[t]: the values t has read: flag, data and counter

machine == <<build, ordering>>
vars == <<machine, mem, buf, pc, other, got>>

Init ==
    /\ build \in {"v7", "v9"} /\ ordering \in {"TSO", "PSO"}
    /\ mem = [l \in Loc |-> 0]
    /\ buf = [t \in Thread |-> <<>>]
    /\ pc = [t \in Thread |-> "data"]
    /\ other \in [Thread -> Thread] /\ \A t \in Thread : other[t] # t
    /\ got = [t \in Thread |-> [flag |-> 0, data |-> 0, counter |-> 0]]

Goto(t, l) == pc' = [pc EXCEPT ![t] = l]

(* The machine: a load sees the thread's own latest buffered store. *)
Stores(b, l) == {i \in DOMAIN b : b[i] # BARRIER /\ b[i].loc = l}

Load(t, l) ==
    LET own == Stores(buf[t], l) IN
    IF own = {} THEN mem[l]
    ELSE buf[t][CHOOSE i \in own : \A j \in own : j <= i].val

(* A buffered store that may reach memory now. *)
Ready(b, i) ==
    /\ b[i] # BARRIER
    /\ \A j \in 1 .. (i - 1) :
         ordering = "PSO" /\ b[j] # BARRIER /\ b[j].loc # b[i].loc

Without(b, i) ==
    LET rest == SubSeq(b, 1, i - 1) \o SubSeq(b, i + 1, Len(b)) IN
    IF rest # <<>> /\ rest[1] = BARRIER THEN Tail(rest) ELSE rest

Drain(t) ==
    \E i \in DOMAIN buf[t] :
        /\ Ready(buf[t], i)
        /\ mem' = [mem EXCEPT ![buf[t][i].loc] = buf[t][i].val]
        /\ buf' = [buf EXCEPT ![t] = Without(@, i)]
        /\ UNCHANGED <<machine, pc, other, got>>

------------------------------------------------------------------------------
(* stbar on v7 and v8, membar #StoreStore on v9. *)
sst_store_barrier(b) == IF b = <<>> \/ b[Len(b)] = BARRIER THEN b ELSE Append(b, BARRIER)

Put(b, l, v) == Append(b, [loc |-> l, val |-> v])

Store4Unordered(t, from, to) ==
    /\ pc[t] = from
    /\ buf' = [buf EXCEPT ![t] = Put(@, <<from, t>>, 1)]
    /\ Goto(t, to)
    /\ UNCHANGED <<machine, mem, other, got>>

(* __atomic_store_4: barrier, store. *)
atomic_store_4(t, from, to) ==
    /\ pc[t] = from
    /\ buf' = [buf EXCEPT ![t] = Put(sst_store_barrier(@), <<from, t>>, 1)]
    /\ Goto(t, to)
    /\ UNCHANGED <<machine, mem, other, got>>

sync_stbar_only(t) ==
    /\ pc[t] = "sync"
    /\ buf' = [buf EXCEPT ![t] = sst_store_barrier(@)]
    /\ Goto(t, "load_flag")
    /\ UNCHANGED <<machine, mem, other, got>>

(* sst_full_barrier: membar #StoreLoad waits for the buffer, stbar does not. *)
sync_synchronize(t) ==
    /\ pc[t] = "sync"
    /\ \/ build = "v9" /\ buf[t] = <<>> /\ UNCHANGED buf
       \/ build = "v7" /\ buf' = [buf EXCEPT ![t] = sst_store_barrier(@)]
    /\ Goto(t, "load_flag")
    /\ UNCHANGED <<machine, mem, other, got>>

(* __atomic_load_4; sst_load_barrier keeps the loads in program order. *)
atomic_load_4(t) ==
    \/ /\ pc[t] = "load_flag"
       /\ got' = [got EXCEPT ![t].flag = Load(t, <<"flag", other[t]>>)]
       /\ Goto(t, "load_data")
       /\ UNCHANGED <<machine, mem, buf, other>>
    \/ /\ pc[t] = "load_data"
       /\ got' = [got EXCEPT ![t].data = Load(t, <<"data", other[t]>>)]
       /\ Goto(t, "lock")
       /\ UNCHANGED <<machine, mem, buf, other>>

(* sst_stripe_lock: ldstub acts on memory; under TSO after the stores that *)
(* precede it, under PSO after those to the same byte.                     *)
sst_stripe_lock(t) ==
    /\ pc[t] = "lock"
    /\ IF ordering = "TSO" THEN buf[t] = <<>> ELSE Stores(buf[t], <<"byte">>) = {}
    /\ mem[<<"byte">>] = 0
    /\ mem' = [mem EXCEPT ![<<"byte">>] = 255]
    /\ Goto(t, "fetch")
    /\ UNCHANGED <<machine, buf, other, got>>

(* The body of the primitive: load, then store. *)
fetch(t) ==
    /\ pc[t] = "fetch"
    /\ got' = [got EXCEPT ![t].counter = Load(t, <<"counter">>)]
    /\ Goto(t, "add")
    /\ UNCHANGED <<machine, mem, buf, other>>

add(t) ==
    /\ pc[t] = "add"
    /\ buf' = [buf EXCEPT ![t] = Put(@, <<"counter">>, got[t].counter + 1)]
    /\ Goto(t, "unlock")
    /\ UNCHANGED <<machine, mem, other, got>>

UnlockUnordered(t) ==
    /\ pc[t] = "unlock"
    /\ buf' = [buf EXCEPT ![t] = Put(@, <<"byte">>, 0)]
    /\ Goto(t, "done")
    /\ UNCHANGED <<machine, mem, other, got>>

(* sst_stripe_unlock: barrier, store. *)
sst_stripe_unlock(t) ==
    /\ pc[t] = "unlock"
    /\ buf' = [buf EXCEPT ![t] = Put(sst_store_barrier(@), <<"byte">>, 0)]
    /\ Goto(t, "done")
    /\ UNCHANGED <<machine, mem, other, got>>

Next ==
    \E t \in Thread :
        \/ Drain(t)
        \/ atomic_store_4(t, "data", "flag") \/ atomic_store_4(t, "flag", "sync")
        \/ sync_synchronize(t) \/ atomic_load_4(t)
        \/ sst_stripe_lock(t) \/ fetch(t) \/ add(t) \/ sst_stripe_unlock(t)
        \/ (\A u \in Thread : pc[u] = "done" /\ buf[u] = <<>>) /\ UNCHANGED vars

Spec == Init /\ [][Next]_vars

------------------------------------------------------------------------------
LoadedFlag(t) == pc[t] \notin {"data", "flag", "sync", "load_flag"}

LoadedData(t) == LoadedFlag(t) /\ pc[t] # "load_data"

(* The v9 build's __sync_synchronize, a "full memory fence": of two        *)
(* threads that store their own flag, fence and load the other's, at least *)
(* one sees the other.                                                     *)
FullFence ==
    build = "v9" => \A t, u \in Thread :
        LoadedFlag(t) /\ LoadedFlag(u) /\ other[t] = u /\ other[u] = t =>
            got[t].flag = 1 \/ got[u].flag = 1

(* __atomic_store_4 orders the stores before it: who sees the flag sees    *)
(* the datum stored before the flag.                                       *)
Publication ==
    \A t \in Thread : LoadedData(t) /\ got[t].flag = 1 => got[t].data = 1

(* sst_stripe_unlock orders the protected store before the release of the  *)
(* byte: a primitive reads the result of every primitive that was unlocked *)
(* before it, store buffers notwithstanding.                               *)
LockedTotal ==
    \A t \in Thread :
        pc[t] = "add" => got[t].counter = Cardinality({u \in Thread : pc[u] = "done"})
==============================================================================
