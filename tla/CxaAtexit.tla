------------------------------ MODULE CxaAtexit ------------------------------
(***************************************************************************)
(* src/cxa_atexit.c: destructors that threads register with __cxa_atexit   *)
(* and that __cxa_finalize runs, for one shared object or for all.  A      *)
(* destructor is user code: it may register others and may itself call     *)
(* __cxa_finalize, so a thread has a stack of __cxa_finalize calls.        *)
(*                                                                         *)
(* A registered destructor is known by its place in cxa_atexit_table,      *)
(* counted from 1.                                                         *)
(***************************************************************************)
EXTENDS Naturals, Sequences

CONSTANTS
    Thread,
    Dso,             \* the shared objects' handles
    NULL,            \* no handle, no thread
    CXA_ATEXIT_MAX

ASSUME CxaAssumption ==
    /\ NULL \notin Thread /\ NULL \notin Dso
    /\ CXA_ATEXIT_MAX \in Nat

Handle == Dso \cup {NULL}

Entry == 1..CXA_ATEXIT_MAX

(* cxa_atexit_cleanup is in libc's atexit list, atexit() did not take it,  *)
(* or exit() has taken it off the list again; cxa_finalize_registered is   *)
(* set in all three.                                                       *)
Cleanup == {"none", "listed", "refused", "run"}

(* A call: dso_handle, entry_index + 1, and cxa_atexit_count at its start. *)
Frame == [dso : Handle, index : 0..CXA_ATEXIT_MAX, from : 0..CXA_ATEXIT_MAX]

VARIABLES
    table,    \* cxa_atexit_table: the dso_handle of each entry
    count,    \* cxa_atexit_count
    in_use,   \* the entries whose in_use is set
    lock,     \* cxa_atexit_lock: its owner or NULL
    cleanup,  \* what became of cxa_atexit_cleanup; "none" before the first call
    pc,       \* pc[t]: in "user" code, "walk"ing the table, about to "call"
    cur,      \* cur[t]: the call of __cxa_finalize t is executing
    stack,    \* stack[t]: the calls whose destructor t is in, innermost last
    called,   \* called[i]: how often the destructor of entry i was called
    exiter,   \* the thread that called exit(), or NULL
    before    \* cxa_atexit_count when it did

vars == <<table, count, in_use, lock, cleanup, pc, cur, stack, called, exiter, before>>

Idle == [dso |-> NULL, index |-> 0, from |-> 0]

Matches(dso, i) == dso = NULL \/ table[i] = dso

Init ==
    /\ table = [i \in Entry |-> NULL]
    /\ count = 0
    /\ in_use = {}
    /\ lock = NULL
    /\ cleanup = "none"
    /\ pc = [t \in Thread |-> "user"]
    /\ cur = [t \in Thread |-> Idle]
    /\ stack = [t \in Thread |-> <<>>]
    /\ called = [i \in Entry |-> 0]
    /\ exiter = NULL
    /\ before = 0

------------------------------------------------------------------------------
cxa_atexit_list_last(t, dso) ==
    /\ pc[t] = "user" /\ lock = NULL
    /\ cleanup' \in IF cleanup = "none" /\ count > 0 THEN {"listed", "refused"} ELSE {cleanup}
    /\ IF count < CXA_ATEXIT_MAX
       THEN /\ table' = [table EXCEPT ![count + 1] = dso]
            /\ in_use' = in_use \cup {count + 1}
            /\ count' = count + 1
       ELSE UNCHANGED <<table, count, in_use>>
    /\ UNCHANGED <<lock, pc, cur, stack, called, exiter, before>>

(* __cxa_atexit, all of it under the lock.  Whether atexit() could take    *)
(* cxa_atexit_cleanup is not looked at.                                    *)
cxa_atexit(t, dso) ==
    /\ pc[t] = "user" /\ lock = NULL
    /\ cleanup' \in IF cleanup = "none" THEN {"listed", "refused"} ELSE {cleanup}
    /\ IF count < CXA_ATEXIT_MAX
       THEN /\ table' = [table EXCEPT ![count + 1] = dso]
            /\ in_use' = in_use \cup {count + 1}
            /\ count' = count + 1
       ELSE UNCHANGED <<table, count, in_use>>                     \* returns -1
    /\ UNCHANGED <<lock, pc, cur, stack, called, exiter, before>>

(* __cxa_finalize takes the lock and starts at the last entry. *)
Enter(t, dso) ==
    /\ pc[t] = "user" /\ lock = NULL
    /\ lock' = t
    /\ pc' = [pc EXCEPT ![t] = "walk"]
    /\ cur' = [cur EXCEPT ![t] = [dso |-> dso, index |-> count, from |-> count]]
    /\ UNCHANGED <<table, count, in_use, stack, called>>

cxa_finalize(t, dso) ==
    /\ Enter(t, dso)
    /\ UNCHANGED <<cleanup, exiter, before>>

(* exit(), which is called once and from no destructor, takes              *)
(* cxa_atexit_cleanup off its list and calls it.                           *)
Exit(t) ==
    /\ exiter = NULL /\ cleanup = "listed" /\ stack[t] = <<>>
    /\ Enter(t, NULL)
    /\ exiter' = t /\ before' = count /\ cleanup' = "run"

Skip(t) ==
    LET f == cur[t] IN
    /\ pc[t] = "walk" /\ f.index > 0
    /\ f.index \notin in_use \/ ~Matches(f.dso, f.index)
    /\ cur' = [cur EXCEPT ![t].index = f.index - 1]
    /\ UNCHANGED <<table, count, in_use, lock, cleanup, pc, stack, called, exiter, before>>

TakeMarkingNothing(t) ==
    LET f == cur[t] IN
    /\ pc[t] = "walk"
    /\ f.index \in in_use /\ Matches(f.dso, f.index)
    /\ lock' = NULL
    /\ pc' = [pc EXCEPT ![t] = "call"]
    /\ UNCHANGED <<table, count, in_use, cleanup, cur, stack, called, exiter, before>>

(* The entry is marked as consumed and the lock released ... *)
Take(t) ==
    LET f == cur[t] IN
    /\ pc[t] = "walk"
    /\ f.index \in in_use /\ Matches(f.dso, f.index)
    /\ in_use' = in_use \ {f.index}
    /\ lock' = NULL
    /\ pc' = [pc EXCEPT ![t] = "call"]
    /\ UNCHANGED <<table, count, cleanup, cur, stack, called, exiter, before>>

(* ... before the destructor is called: from here t is in user code. *)
Call(t) ==
    /\ pc[t] = "call"
    /\ called' = [called EXCEPT ![cur[t].index] = @ + 1]
    /\ pc' = [pc EXCEPT ![t] = "user"]
    /\ stack' = [stack EXCEPT ![t] = Append(@, cur[t])]
    /\ cur' = [cur EXCEPT ![t] = Idle]
    /\ UNCHANGED <<table, count, in_use, lock, cleanup, exiter, before>>

(* The call whose destructor returns goes on at the entry below it. *)
Resume(t, step) ==
    /\ pc[t] = "user" /\ stack[t] # <<>> /\ lock = NULL
    /\ lock' = t
    /\ pc' = [pc EXCEPT ![t] = "walk"]
    /\ cur' = [cur EXCEPT ![t] = LET f == stack[t][Len(stack[t])] IN
                                 [f EXCEPT !.index = f.index - step]]
    /\ stack' = [stack EXCEPT ![t] = SubSeq(@, 1, Len(@) - 1)]
    /\ UNCHANGED <<table, count, in_use, cleanup, called, exiter, before>>

ReturnSkippingOne(t) ==
    \/ Resume(t, 1) /\ stack[t][Len(stack[t])].index = 1
    \/ Resume(t, 2) /\ stack[t][Len(stack[t])].index > 1

Return(t) == Resume(t, 1)

LeaveLocked(t) ==
    /\ pc[t] = "walk" /\ cur[t].index = 0
    /\ pc' = [pc EXCEPT ![t] = "user"]
    /\ cur' = [cur EXCEPT ![t] = Idle]
    /\ UNCHANGED <<table, count, in_use, lock, cleanup, stack, called, exiter, before>>

(* __cxa_finalize returns. *)
Leave(t) ==
    /\ pc[t] = "walk" /\ cur[t].index = 0
    /\ lock' = NULL
    /\ pc' = [pc EXCEPT ![t] = "user"]
    /\ cur' = [cur EXCEPT ![t] = Idle]
    /\ UNCHANGED <<table, count, in_use, cleanup, stack, called, exiter, before>>

(* cxa_atexit_cleanup has returned to exit(), and the process is gone. *)
Exited == exiter # NULL /\ pc[exiter] = "user" /\ stack[exiter] = <<>>

Inside(t) == Skip(t) \/ Take(t) \/ Leave(t) \/ Call(t)

Next ==
    \/ /\ ~Exited
       /\ \E t \in Thread :
            \/ \E dso \in Handle : cxa_atexit(t, dso) \/ cxa_finalize(t, dso)
            \/ Exit(t) \/ Return(t) \/ Inside(t)
    \/ Exited /\ UNCHANGED vars

Spec == Init /\ [][Next]_vars

(* A thread inside __cxa_finalize goes on; user code need do nothing. *)
FairSpec == Spec /\ \A t \in Thread : WF_vars(~Exited /\ Inside(t))

------------------------------------------------------------------------------
(* Types. *)
TypeOK ==
    /\ table \in [Entry -> Handle] /\ count \in 0..CXA_ATEXIT_MAX
    /\ in_use \subseteq 1..count
    /\ lock \in Thread \cup {NULL}
    /\ cleanup \in Cleanup
    /\ pc \in [Thread -> {"user", "walk", "call"}]
    /\ cur \in [Thread -> Frame]
    /\ stack \in [Thread -> Seq(Frame)]
    /\ called \in [Entry -> Nat]
    /\ exiter \in Thread \cup {NULL}
    /\ before \in 0..CXA_ATEXIT_MAX

(* cxa_atexit.c:105 - whichever threads finalize, and whatever destructors *)
(* do, none is called twice.                                               *)
AtMostOnce == \A i \in Entry : called[i] <= 1

(* cxa_atexit.c:108 - the lock is held while the table is walked and at no *)
(* other time: a destructor, which may call __cxa_atexit, runs without it. *)
LockedWhileWalking == \A t \in Thread : lock = t <=> pc[t] = "walk"

Consumed(f) == \A i \in (f.index + 1)..f.from : Matches(f.dso, i) => i \notin in_use

(* cxa_atexit.c:94 - when a call of __cxa_finalize has come down to an     *)
(* entry, every later one that was there when it began and that it is to   *)
(* run has been consumed, by this call or another.                         *)
Drained ==
    \A t \in Thread :
        /\ Consumed(cur[t])
        /\ \A n \in 1..Len(stack[t]) : Consumed(stack[t][n])

(* Entry i has been called, or a thread other than t is about to call it. *)
CalledBut(t, i) ==
    called[i] > 0 \/ \E u \in Thread \ {t} : pc[u] = "call" /\ cur[u].index = i

(* cxa_atexit.c:85 - a destructor is called only after those of the later  *)
(* entries that the same call is to run; one of them may still be with     *)
(* another thread that has taken it.                                       *)
ReverseOrder ==
    \A t \in Thread : pc[t] = "call" =>
        \A i \in (cur[t].index + 1)..cur[t].from :
            Matches(cur[t].dso, i) => CalledBut(t, i)

(* cxa_atexit.c:14, 62 - while exit() has not begun, it is going to run    *)
(* whatever is registered, unless atexit() has refused (line 64 does not   *)
(* look); and at the end of a process that exit() ends through             *)
(* cxa_atexit_cleanup every destructor registered before exit() has been   *)
(* called, but for one that a thread was about to call when it went.       *)
ExitRanAll ==
    /\ exiter = NULL /\ in_use # {} => cleanup \in {"listed", "refused"}
    /\ Exited => \A i \in 1..before : CalledBut(exiter, i)

(* cxa_atexit.c:14 - "If dso_handle is NULL, run ALL registered            *)
(* destructors", the ones registered by other destructors included.        *)
ExitRanEvery == Exited => in_use = {}

(* cxa_atexit.c:114 - __cxa_finalize gives the lock back, on every path. *)
LockReleased == lock # NULL ~> lock = NULL
==============================================================================
