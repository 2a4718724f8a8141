------------------------------ MODULE AtomicOps ------------------------------
(***************************************************************************)
(* src/atomic_ops.c: the Solaris atomic_* and cas* primitives and GCC's    *)
(* __atomic_* and __sync_* functions, all built on test-and-set stripe     *)
(* locks, as threads executing them word by word on a shared memory.       *)
(***************************************************************************)
EXTENDS AtomicCalls

CONSTANTS
    Thread,
    SST_STRIPE_COUNT

ASSUME StripeAssumption == SST_STRIPE_COUNT \in Nat \ {0}

VARIABLES
    mem,     \* mem[a][i]: word i of the object at a
    stripe,  \* stripe[s]: the lock byte of stripe s
    pc,      \* pc[t]: where t is in the primitive it is executing
    call,    \* call[t]: the call t is executing
    old,     \* old[t]: the local "old_value", filled word by word
    word     \* word[t]: the word t loads or stores next

vars == <<mem, stripe, pc, call, old, word>>

Stripe == 0 .. (SST_STRIPE_COUNT - 1)

sst_stripe_for(a) == (a \div 16) % SST_STRIPE_COUNT

StripeOf(t) == sst_stripe_for(call[t].obj)

LastWord(t) == Size[call[t].obj] \div 4

Holding == {"load", "store", "unlock"}

Init ==
    /\ mem \in [Obj -> Values] /\ \A a \in Obj : mem[a] \in Value(a)
    /\ stripe = [s \in Stripe |-> 0]
    /\ pc = [t \in Thread |-> "idle"]
    /\ call = [t \in Thread |-> NoCall]
    /\ old = [t \in Thread |-> NoCall.val]
    /\ word = [t \in Thread |-> 1]

(* The primitive returns Result(call[t], old[t]) and its locals are gone. *)
Returns(t) ==
    /\ pc' = [pc EXCEPT ![t] = "idle"]
    /\ call' = [call EXCEPT ![t] = NoCall]
    /\ old' = [old EXCEPT ![t] = NoCall.val]
    /\ word' = [word EXCEPT ![t] = 1]

(* A primitive is called.  "old" is uninitialised until it is loaded; the  *)
(* model gives it the operand.                                             *)
Invoke(t, c) ==
    /\ pc[t] = "idle"
    /\ pc' = [pc EXCEPT ![t] = IF c.fn \in PlainFn THEN "plain" ELSE "lock"]
    /\ call' = [call EXCEPT ![t] = c]
    /\ old' = [old EXCEPT ![t] = c.val]
    /\ word' = [word EXCEPT ![t] = 1]
    /\ UNCHANGED <<mem, stripe>>

(* sst_stripe_lock's test: ldstub sets the byte whatever it held. *)
sst_ldstub(t) ==
    /\ pc[t] = "lock"
    /\ stripe' = [stripe EXCEPT ![StripeOf(t)] = 255]
    /\ pc' = [pc EXCEPT ![t] =
                IF stripe[StripeOf(t)] # 0 THEN "spin"
                ELSE IF ReadsTarget(call[t]) THEN "load" ELSE "store"]
    /\ UNCHANGED <<mem, call, old, word>>

SpinThenEnter(t) ==
    /\ pc[t] = "spin"
    /\ stripe[StripeOf(t)] = 0
    /\ pc' = [pc EXCEPT ![t] = "load"]
    /\ UNCHANGED <<mem, stripe, call, old, word>>

(* sst_stripe_lock's inner loop of plain loads, left when the byte is 0. *)
Spin(t) ==
    /\ pc[t] = "spin"
    /\ stripe[StripeOf(t)] = 0
    /\ pc' = [pc EXCEPT ![t] = "lock"]
    /\ UNCHANGED <<mem, stripe, call, old, word>>

LoadWordEarlyReturn(t) ==
    LET a == call[t].obj
        seen == [old[t] EXCEPT ![word[t]] = mem[a][word[t]]] IN
    /\ pc[t] = "load"
    /\ old' = [old EXCEPT ![t] = seen]
    /\ word' = [word EXCEPT ![t] = IF @ = LastWord(t) THEN 1 ELSE @ + 1]
    /\ pc' = [pc EXCEPT ![t] = IF word[t] # LastWord(t) THEN "load"
                               ELSE IF Stores(call[t], seen) THEN "store" ELSE "idle"]
    /\ UNCHANGED <<mem, stripe, call>>

(* One word of "old = *ptr"; after the last one the value decides whether  *)
(* the primitive stores.                                                   *)
LoadWord(t) ==
    LET a == call[t].obj
        seen == [old[t] EXCEPT ![word[t]] = mem[a][word[t]]] IN
    /\ pc[t] = "load"
    /\ old' = [old EXCEPT ![t] = seen]
    /\ word' = [word EXCEPT ![t] = IF @ = LastWord(t) THEN 1 ELSE @ + 1]
    /\ pc' = [pc EXCEPT ![t] = IF word[t] # LastWord(t) THEN "load"
                               ELSE IF Stores(call[t], seen) THEN "store" ELSE "unlock"]
    /\ UNCHANGED <<mem, stripe, call>>

(* One word of "*ptr = ...". *)
StoreWord(t) ==
    LET a == call[t].obj IN
    /\ pc[t] = "store"
    /\ mem' = [mem EXCEPT ![a] =
                 [@ EXCEPT ![word[t]] = NewValue(call[t], old[t])[word[t]]]]
    /\ word' = [word EXCEPT ![t] = IF @ = LastWord(t) THEN 1 ELSE @ + 1]
    /\ pc' = [pc EXCEPT ![t] = IF word[t] # LastWord(t) THEN "store" ELSE "unlock"]
    /\ UNCHANGED <<stripe, call, old>>

(* sst_stripe_unlock, and the return of the primitive. *)
sst_stripe_unlock(t) ==
    /\ pc[t] = "unlock"
    /\ stripe' = [stripe EXCEPT ![StripeOf(t)] = 0]
    /\ Returns(t)
    /\ UNCHANGED mem

(* __atomic_load_4: one aligned load, no lock. *)
PlainLoad(t) ==
    /\ pc[t] = "plain" /\ call[t].fn = "load_4"
    /\ old' = [old EXCEPT ![t] = mem[call[t].obj]]
    /\ pc' = [pc EXCEPT ![t] = "return"]
    /\ UNCHANGED <<mem, stripe, call, word>>

(* __atomic_store_4: one aligned store, no lock. *)
PlainStore(t) ==
    /\ pc[t] = "plain" /\ call[t].fn = "store_4"
    /\ mem' = [mem EXCEPT ![call[t].obj] = call[t].val]
    /\ pc' = [pc EXCEPT ![t] = "return"]
    /\ UNCHANGED <<stripe, call, old, word>>

PlainReturn(t) ==
    /\ pc[t] = "return"
    /\ Returns(t)
    /\ UNCHANGED <<mem, stripe>>

Step(t) ==
    \/ sst_ldstub(t) \/ Spin(t) \/ LoadWord(t) \/ StoreWord(t)
    \/ sst_stripe_unlock(t)
    \/ PlainLoad(t) \/ PlainStore(t) \/ PlainReturn(t)

Next == \E t \in Thread : (\E c \in Calls : Invoke(t, c)) \/ Step(t)

Spec == Init /\ [][Next]_vars

(* Every running thread keeps executing; nobody is obliged to call. *)
FairSpec == Spec /\ \A t \in Thread : WF_vars(Step(t))

------------------------------------------------------------------------------
(* Types: the lock bytes are 0 or 255, a thread's locals have the type of  *)
(* the object it accesses.                                                 *)
TypeOK ==
    /\ mem \in [Obj -> Values] /\ \A a \in Obj : mem[a] \in Value(a)
    /\ stripe \in [Stripe -> {0, 255}]
    /\ pc \in [Thread -> {"idle", "lock", "spin", "load", "store", "unlock",
                          "plain", "return"}]
    /\ call \in [Thread -> Calls]
    /\ old \in [Thread -> Values] /\ \A t \in Thread : old[t] \in Value(call[t].obj)
    /\ word \in [Thread -> {1, 2}] /\ \A t \in Thread : word[t] <= LastWord(t)

(* sst_stripe_lock/unlock: no two threads are between lock and unlock of   *)
(* the same stripe, and the byte of a held stripe is not 0.                *)
StripeMutex ==
    \A t, u \in Thread :
        pc[t] \in Holding =>
            /\ stripe[StripeOf(t)] # 0
            /\ pc[u] \in Holding /\ StripeOf(u) = StripeOf(t) => u = t

(* What a primitive loaded under its stripe lock is still what memory      *)
(* holds when it stores, and what it has stored stays until it unlocks.    *)
LocalsCurrent ==
    \A t \in Thread :
        LET c == call[t]
            a == call[t].obj IN
        /\ c.fn \in (CASE pc[t] \in {"plain", "return"} -> PlainFn
                       [] pc[t] = "idle" -> LockedFn \cup PlainFn
                       [] OTHER -> LockedFn)
        /\ pc[t] \in {"lock", "spin", "plain"} => word[t] = 1 /\ old[t] = c.val
        /\ pc[t] = "load" =>
             ReadsTarget(c) /\ (word[t] = 2 => old[t][1] = mem[a][1])
        /\ pc[t] = "store" =>
             /\ Stores(c, old[t])
             /\ word[t] = 1 => old[t] = IF ReadsTarget(c) THEN mem[a] ELSE c.val
             /\ word[t] = 2 => mem[a][1] = NewValue(c, old[t])[1]

(* A locked call has its effect at its first store, or at its last load if *)
(* it stores nothing; a plain call at its only access.                     *)
Effective(t) ==
    \/ pc[t] \in {"unlock", "return"}
    \/ pc[t] = "store" /\ word[t] > 1

(* The memory as the abstract level sees it: an object whose store has     *)
(* begun has its whole new value.                                          *)
Storing(t, a) == pc[t] = "store" /\ word[t] > 1 /\ call[t].obj = a

Pending(a) == {NewValue(call[t], old[t]) : t \in {u \in Thread : Storing(u, a)}}

Overlay(vs, v) == IF vs = {} THEN v ELSE CHOOSE w \in vs : TRUE

absMem == [a \in Obj |-> Overlay(Pending(a), mem[a])]

absPhase ==
    [t \in Thread |-> IF pc[t] = "idle" THEN "idle"
                      ELSE IF Effective(t) THEN "done" ELSE "pending"]

absRet ==
    [t \in Thread |-> IF Effective(t) THEN Result(call[t], old[t]) ELSE NoCall.val]

AM == INSTANCE AtomicMemory WITH mem <- absMem, phase <- absPhase, ret <- absRet

(* The primitives are atomic: a behaviour of the threads is a behaviour of *)
(* the memory on which each call takes effect in one step.                 *)
Linearizable == AM!Spec

(* No stripe stays locked: whoever takes it gives it back, on every path   *)
(* through the primitives, the failed compare-exchange included.           *)
StripeReleased == \A s \in Stripe : stripe[s] # 0 ~> stripe[s] = 0
==============================================================================
