----------------------------- MODULE AtomicMemory ----------------------------
(***************************************************************************)
(* What the primitives of src/atomic_ops.c promise: every call takes       *)
(* effect on its object in one indivisible step between its invocation and *)
(* its return, and returns the value that step determined.                 *)
(***************************************************************************)
EXTENDS AtomicCalls

CONSTANT Thread

VARIABLES
    mem,     \* mem[a]: the value of the object at a
    phase,   \* phase[t]: has t's call been made, has it taken effect
    call,    \* call[t]: the call t is executing
    ret      \* ret[t]: what that call returns, once it has taken effect

vars == <<mem, phase, call, ret>>

Init ==
    /\ mem \in [Obj -> Values] /\ \A a \in Obj : mem[a] \in Value(a)
    /\ phase = [t \in Thread |-> "idle"]
    /\ call = [t \in Thread |-> NoCall]
    /\ ret = [t \in Thread |-> NoCall.val]

Invoke(t, c) ==
    /\ phase[t] = "idle"
    /\ phase' = [phase EXCEPT ![t] = "pending"]
    /\ call' = [call EXCEPT ![t] = c]
    /\ UNCHANGED <<mem, ret>>

Perform(t) ==
    LET c == call[t]
        old == IF ReadsTarget(c) THEN mem[c.obj] ELSE c.val IN
    /\ phase[t] = "pending"
    /\ phase' = [phase EXCEPT ![t] = "done"]
    /\ mem' = IF Stores(c, old) THEN [mem EXCEPT ![c.obj] = NewValue(c, old)] ELSE mem
    /\ ret' = [ret EXCEPT ![t] = Result(c, old)]
    /\ UNCHANGED call

Respond(t) ==
    /\ phase[t] = "done"
    /\ phase' = [phase EXCEPT ![t] = "idle"]
    /\ call' = [call EXCEPT ![t] = NoCall]
    /\ ret' = [ret EXCEPT ![t] = NoCall.val]
    /\ UNCHANGED mem

Next ==
    \E t \in Thread :
        (\E c \in Calls : Invoke(t, c)) \/ Perform(t) \/ Respond(t)

Spec == Init /\ [][Next]_vars
==============================================================================
