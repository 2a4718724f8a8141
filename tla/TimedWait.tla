------------------------------ MODULE TimedWait ------------------------------
(***************************************************************************)
(* sem_timedwait of src/stubs.c and pthread_rwlock_timedrdlock and         *)
(* _timedwrlock of src/process.c: the same loop of a try, a look at the    *)
(* clock and a poll of 10 ms, over a semaphore and a read-write lock that  *)
(* other threads use as well.                                              *)
(***************************************************************************)
EXTENDS Integers, FiniteSets

CONSTANTS
    Thread,
    NONE,          \* no thread
    Initial,       \* the semaphore's initial value
    MaxPosts,      \* how often a thread that has no token may post
    MaxTime,       \* the last moment of the wall clock
    Deadlines,     \* the abs_timeouts asked for
    SetBacks       \* how often the wall clock may be set

TimedWaitAssumption ==
    /\ NONE \notin Thread /\ IsFiniteSet(Thread)
    /\ Initial \in Nat /\ MaxPosts \in Nat
    /\ MaxTime \in Nat /\ Deadlines \subseteq 0..MaxTime
    /\ SetBacks \in Nat

(* What a thread waits for. *)
Object == {"sem", "rd", "wr"}

VARIABLES
    value,        \* the semaphore
    posts,        \* how many tokens have been added to it
    held, had,    \* the tokens each thread has, and had at its last call
    readers,      \* the lock
    writer,
    now,          \* the wall clock
    set,          \* how often it has been set
    pc,           \* "user", "try", "late?", "poll", "ok", "ETIMEDOUT", "error"
    op,           \* op[t]: the object t waits for
    abs_timeout,
    free          \* free[t]: the object was there to be had at every moment
                  \* since t called or last woke up

vars == <<value, posts, held, had, readers, writer, now, set, pc, op, abs_timeout, free>>

Init ==
    /\ value = Initial /\ posts = 0
    /\ held = [t \in Thread |-> 0] /\ had = held
    /\ readers = {} /\ writer = NONE
    /\ now = 0 /\ set = 0
    /\ pc = [t \in Thread |-> "user"]
    /\ op = [t \in Thread |-> "sem"]
    /\ abs_timeout = [t \in Thread |-> 0]
    /\ free = [t \in Thread |-> FALSE]

------------------------------------------------------------------------------
(* Whether sem_trywait, pthread_rwlock_tryrdlock, _trywrlock would succeed. *)
Available(o) ==
    CASE o = "sem" -> value > 0
      [] o = "rd"  -> writer = NONE
      [] o = "wr"  -> writer = NONE /\ readers = {}

Waiting == {"try", "late?", "poll"}

(* Every step keeps the record of what has been free all along. *)
Watch == free' = [t \in Thread |-> free[t] /\ Available(op[t])']

Goto(t, label) == pc' = [pc EXCEPT ![t] = label]

CallChecksFirst(t, o, d) ==
    /\ pc[t] = "user"
    /\ o = "sem" \/ (t \notin readers /\ writer # t)
    /\ Goto(t, "late?")
    /\ op' = [op EXCEPT ![t] = o]
    /\ had' = [had EXCEPT ![t] = held[t]]
    /\ abs_timeout' = [abs_timeout EXCEPT ![t] = d]
    /\ free' = [free EXCEPT ![t] = Available(o)]
    /\ UNCHANGED <<value, posts, held, readers, writer, now, set>>

Call(t, o, d) ==
    /\ pc[t] = "user"
    /\ o = "sem" \/ (t \notin readers /\ writer # t)
    /\ Goto(t, "try")
    /\ op' = [op EXCEPT ![t] = o]
    /\ had' = [had EXCEPT ![t] = held[t]]
    /\ abs_timeout' = [abs_timeout EXCEPT ![t] = d]
    /\ free' = [free EXCEPT ![t] = Available(o)]
    /\ UNCHANGED <<value, posts, held, readers, writer, now, set>>

(* What the three tries take when they succeed. *)
Take(t) ==
    CASE op[t] = "sem" -> /\ value' = value - 1
                          /\ held' = [held EXCEPT ![t] = @ + 1]
                          /\ UNCHANGED <<readers, writer>>
      [] op[t] = "rd"  -> /\ readers' = readers \cup {t}
                          /\ UNCHANGED <<value, held, writer>>
      [] op[t] = "wr"  -> /\ writer' = t
                          /\ UNCHANGED <<value, held, readers>>

TryThenLookLate(t) ==
    /\ pc[t] = "try"
    /\ \/ Available(op[t]) /\ Take(t) /\ Goto(t, IF now > abs_timeout[t] THEN "ETIMEDOUT" ELSE "ok")
       \/ ~Available(op[t]) /\ Goto(t, "late?") /\ UNCHANGED <<value, held, readers, writer>>
       \/ Goto(t, "error") /\ UNCHANGED <<value, held, readers, writer>>
    /\ UNCHANGED <<posts, had, now, set, op, abs_timeout>>
    /\ Watch

TryWithoutTesting(t) ==
    /\ pc[t] = "try"
    /\ Take(t) /\ Goto(t, "ok")
    /\ UNCHANGED <<posts, had, now, set, op, abs_timeout>>
    /\ Watch

(* A try that fails for another reason than EAGAIN or EBUSY ends the wait. *)
Try(t) ==
    /\ pc[t] = "try"
    /\ \/ Available(op[t]) /\ Take(t) /\ Goto(t, "ok")
       \/ ~Available(op[t]) /\ Goto(t, "late?") /\ UNCHANGED <<value, held, readers, writer>>
       \/ Goto(t, "error") /\ UNCHANGED <<value, held, readers, writer>>
    /\ UNCHANGED <<posts, had, now, set, op, abs_timeout>>
    /\ Watch

LookExactly(t) ==
    /\ pc[t] = "late?"
    /\ Goto(t, IF now = abs_timeout[t] THEN "ETIMEDOUT" ELSE "poll")
    /\ UNCHANGED <<value, posts, held, had, readers, writer, now, set, op, abs_timeout, free>>

Look(t) ==
    /\ pc[t] = "late?"
    /\ Goto(t, IF now >= abs_timeout[t] THEN "ETIMEDOUT" ELSE "poll")
    /\ UNCHANGED <<value, posts, held, had, readers, writer, now, set, op, abs_timeout, free>>

(* The poll of 10 ms ends, or a signal ends it. *)
Wake(t) ==
    /\ pc[t] = "poll"
    /\ Goto(t, "try")
    /\ free' = [free EXCEPT ![t] = Available(op[t])]
    /\ UNCHANGED <<value, posts, held, had, readers, writer, now, set, op, abs_timeout>>

Return(t) ==
    /\ pc[t] \in {"ok", "ETIMEDOUT", "error"}
    /\ Goto(t, "user")
    /\ free' = [free EXCEPT ![t] = FALSE]
    /\ abs_timeout' = [abs_timeout EXCEPT ![t] = 0]
    /\ op' = [op EXCEPT ![t] = "sem"]
    /\ UNCHANGED <<value, posts, held, had, readers, writer, now, set>>

------------------------------------------------------------------------------
(* The other uses of the two objects: sem_post by a thread that has a      *)
(* token or by one that makes a new one, and unlock.                       *)
Post(t) ==
    /\ pc[t] = "user"
    /\ value' = value + 1
    /\ \/ held[t] > 0 /\ held' = [held EXCEPT ![t] = @ - 1] /\ UNCHANGED posts
       \/ posts < MaxPosts /\ posts' = posts + 1 /\ UNCHANGED held
    /\ UNCHANGED <<had, readers, writer, now, set, pc, op, abs_timeout>>
    /\ Watch

Unlock(t) ==
    /\ pc[t] = "user" /\ (t \in readers \/ writer = t)
    /\ readers' = readers \ {t}
    /\ writer' = IF writer = t THEN NONE ELSE writer
    /\ UNCHANGED <<value, posts, held, had, now, set, pc, op, abs_timeout>>
    /\ Watch

Tick ==
    /\ now < MaxTime
    /\ now' = now + 1
    /\ UNCHANGED <<value, posts, held, had, readers, writer, set, pc, op, abs_timeout, free>>

(* The wall clock is set. *)
SetClock(n) ==
    /\ set < SetBacks
    /\ now' = n /\ set' = set + 1
    /\ UNCHANGED <<value, posts, held, had, readers, writer, pc, op, abs_timeout, free>>

Steps(t) == Try(t) \/ Look(t) \/ Wake(t)

Next ==
    \/ \E t \in Thread :
         \/ \E o \in Object, d \in Deadlines : Call(t, o, d)
         \/ Steps(t) \/ Return(t) \/ Post(t) \/ Unlock(t)
    \/ Tick \/ (\E n \in 0..MaxTime : SetClock(n))

Spec == Init /\ [][Next]_vars

(* Threads run and the clock goes on; nobody has to post or to unlock. *)
FairSpec == Spec /\ WF_vars(Tick) /\ \A t \in Thread : WF_vars(Steps(t))

------------------------------------------------------------------------------
(* Types. *)
TypeOK ==
    /\ value \in Nat /\ posts \in 0..MaxPosts
    /\ held \in [Thread -> Nat] /\ had \in [Thread -> Nat]
    /\ readers \subseteq Thread /\ writer \in Thread \cup {NONE}
    /\ now \in 0..MaxTime /\ set \in 0..SetBacks
    /\ pc \in [Thread -> Waiting \cup {"user", "ok", "ETIMEDOUT", "error"}]
    /\ op \in [Thread -> Object]
    /\ abs_timeout \in [Thread -> 0..MaxTime]
    /\ free \in [Thread -> BOOLEAN]

(* stubs.c:155, process.c:581 - a call takes what it waits for exactly     *)
(* when it returns 0; one that times out or fails has taken nothing, even  *)
(* when its object became free just before.                                *)
ResultTells ==
    \A t \in Thread :
        /\ pc[t] # "user" => held[t] = had[t] + IF pc[t] = "ok" /\ op[t] = "sem" THEN 1 ELSE 0
        /\ pc[t] # "user" /\ op[t] = "rd" => (t \in readers <=> pc[t] = "ok")
        /\ pc[t] # "user" /\ op[t] = "wr" => (writer = t <=> pc[t] = "ok")

(* stubs.c:153-173, process.c:580-596 - the try comes before the look at   *)
(* the clock, the first time and after every poll: a call does not time    *)
(* out, however late it is, when its object was there all the time since   *)
(* it was made or last woke up.                                            *)
NotMissed == \A t \in Thread : pc[t] = "ETIMEDOUT" => ~free[t]

(* stubs.c:163, process.c:586 - a timed wait ends, though nobody posts or  *)
(* unlocks and though the clock is set back on the way.                    *)
Returns == \A t \in Thread : pc[t] \in Waiting ~> pc[t] \notin Waiting
==============================================================================
