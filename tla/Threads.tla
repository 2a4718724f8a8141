------------------------------- MODULE Threads -------------------------------
(***************************************************************************)
(* Threads that wait for each other, spinning or polling: AtomicOps and    *)
(* TimedWait.  They share no variable, so a behaviour exercises one of     *)
(* them, which it settles at the start.                                    *)
(***************************************************************************)
EXTENDS AtomicOps, FiniteSets

CONSTANTS
    NONE,          \* no thread
    Initial, MaxPosts, MaxTime, Deadlines, SetBacks

VARIABLES
    part,     \* which of them
    value, posts, held, had, readers, writer, now, set, wait_pc, op, abs_timeout, free

waitVars == <<value, posts, held, had, readers, writer, now, set, wait_pc, op, abs_timeout, free>>

W == INSTANCE TimedWait WITH pc <- wait_pc

ASSUME WaitAssumption == W!TimedWaitAssumption

threadsVars == <<part, vars, waitVars>>

ThreadsInit ==
    /\ part \in {"atomics", "wait"}
    /\ Init /\ (part # "atomics" => \A a \in Obj : \A i \in DOMAIN mem[a] : mem[a][i] = 0)
    /\ W!Init

ThreadsNext ==
    \/ part = "atomics" /\ Next /\ UNCHANGED <<part, waitVars>>
    \/ part = "wait" /\ W!Next /\ UNCHANGED <<part, vars>>

Waits(A) == part = "wait" /\ A

(* The fairness of AtomicOps and of TimedWait. *)
ThreadsSpec ==
    /\ ThreadsInit /\ [][ThreadsNext]_threadsVars
    /\ \A t \in Thread : WF_vars(Step(t)) /\ WF_waitVars(Waits(W!Steps(t)))
    /\ WF_waitVars(Waits(W!Tick))

------------------------------------------------------------------------------
(* stubs.c:155, process.c:581 - a timed wait has taken its object exactly  *)
(* when it returns 0, and does not time out while the object is there.     *)
WaitResult == part = "wait" => W!TypeOK /\ W!ResultTells /\ W!NotMissed

(* stubs.c:163, process.c:586 - a timed wait ends, though nobody posts or  *)
(* unlocks and though the clock is set back on the way.                    *)
WaitReturns == W!Returns
==============================================================================
