------------------------------ MODULE MCAtFuncs ------------------------------
(* Instances of AtFuncs: which calls the threads make. *)
EXTENDS AtFuncs

Mk(fn, old, new) ==
    [fn |-> fn, path |-> [s \in Slot |-> IF s = "old" THEN old ELSE new],
     fdcwd |-> ~(\E p \in {old, new} : p \in Dir), omit |-> FALSE]

(* What at_mutex protects. *)
LockedCalls ==
    {Mk("at", ABS, p) : p \in Path}
    \cup {Mk("linkat", p, q) : p, q \in Path}
    \cup {[Mk("renameat", p, q) EXCEPT !.fdcwd = FALSE] :
            p \in Path, q \in Dir \cup {ABS}}

(* What does without it. *)
UnlockedCalls ==
    {[Mk("utimensat", ABS, p) EXCEPT !.omit = b] : p \in Path, b \in BOOLEAN}
    \cup {Mk("fdopendir", ABS, d) : d \in Dir}
    \cup {Mk("renameat", p, q) : p, q \in {AT_FDCWD, ABS}}

AllCalls == LockedCalls \cup UnlockedCalls

RenameCalls ==
    {Mk("at", ABS, d) : d \in Dir} \cup {Mk("renameat", AT_FDCWD, AT_FDCWD)}

(* A program that calls what does without at_mutex only while none of its  *)
(* other threads is in one of these functions.                             *)
Alone ==
    \A t, u \in Thread :
        t # u /\ pc[t] # "idle" /\ pc[u] # "idle" => Locked(call[t])

CarefulSpec == Init /\ [][Next /\ Alone']_vars /\ \A t \in Thread : WF_vars(Step(t))
==============================================================================
