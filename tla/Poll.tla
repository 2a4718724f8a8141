-------------------------------- MODULE Poll ---------------------------------
(***************************************************************************)
(* src/poll.c: ppoll and pselect, a change of the signal mask, a wait, and *)
(* the old mask again, three system calls between which signals arrive.    *)
(* Time is in ticks, of which there are Unit in the unit of the wait       *)
(* (poll's millisecond, select's microsecond) and Unit * PerSec in a       *)
(* second; poll's timeout is an int.                                       *)
(***************************************************************************)
EXTENDS Integers

CONSTANTS
    Signal,
    Unit, PerSec,
    INT_MAX,
    MaxAsked,     \* the longest timeout asked for, in ticks
    MaxClock,     \* the moment the clock stops
    NULL

PollAssumption == {Unit, PerSec, INT_MAX} \subseteq Nat \ {0} /\ {MaxAsked, MaxClock} \subseteq Nat

VARIABLES
    clock,            \* time since the call was made
    mask, pending,    \* the thread's signals
    callers,          \* the mask of the caller
    pc, call,
    caught,           \* the signals whose handlers have run in the call
    ret

vars == <<clock, mask, pending, callers, pc, call, caught, ret>>

NoCall == [fn |-> "ppoll", asked |-> NULL, timeout |-> NULL, sigmask |-> NULL,
           origmask |-> {}, due |-> 0]

Init ==
    /\ clock = 0 /\ pending = {}
    /\ callers \in SUBSET Signal /\ mask = callers
    /\ pc = "user" /\ call = NoCall /\ caught = {} /\ ret = 0

int(n) == ((n + INT_MAX + 1) % (2 * INT_MAX + 2)) - INT_MAX - 1

(* The time given to poll or select, in its unit; NULL waits for ever. *)
timeout(f, t) ==
    LET sec == t \div (Unit * PerSec)
        n == sec * PerSec + (t % (Unit * PerSec)) \div Unit
    IN  IF f = "pselect" THEN n ELSE IF int(n) < 0 THEN 0 ELSE int(n)

(* The thread runs only when no signal is to be handled. *)
Goto(from, to) == pc = from /\ pc' = to /\ pending \subseteq mask

Call(f, t, m) ==
    /\ Goto("user", "mask")
    /\ call' = [NoCall EXCEPT !.fn = f, !.asked = t, !.sigmask = m,
                              !.timeout = IF t = NULL THEN NULL ELSE timeout(f, t)]
    /\ clock' = 0
    /\ UNCHANGED <<mask, pending, callers, caught, ret>>

SetMask ==
    /\ Goto("mask", "enter")
    /\ mask' = IF call.sigmask = NULL THEN mask ELSE call.sigmask
    /\ call' = [call EXCEPT !.origmask = mask]
    /\ UNCHANGED <<clock, pending, callers, caught, ret>>

Enter ==
    /\ Goto("enter", "wait")
    /\ call' = [call EXCEPT !.due = IF call.timeout = NULL THEN 0 ELSE clock + Unit * call.timeout]
    /\ UNCHANGED <<clock, mask, pending, callers, caught, ret>>

(* A descriptor is ready, or the time is over. *)
Wake ==
    /\ Goto("wait", "restore")
    /\ ret' = 1 \/ (call.timeout # NULL /\ clock >= call.due /\ ret' = 0)
    /\ UNCHANGED <<clock, mask, pending, callers, call, caught>>

RestoreUnlessInterrupted ==
    /\ Goto("restore", "user")
    /\ mask' = IF call.sigmask = NULL \/ ret = -1 THEN mask ELSE call.origmask
    /\ clock' = 0 /\ call' = NoCall /\ caught' = {} /\ ret' = 0
    /\ UNCHANGED <<pending, callers>>

Restore ==
    /\ Goto("restore", "user")
    /\ mask' = IF call.sigmask = NULL THEN mask ELSE call.origmask
    /\ clock' = 0 /\ call' = NoCall /\ caught' = {} /\ ret' = 0
    /\ UNCHANGED <<pending, callers>>

(* A handler runs; it ends the wait (EINTR) if that has begun. *)
Handle(s) ==
    /\ s \in pending \ mask
    /\ pending' = pending \ {s}
    /\ caught' = IF pc = "user" THEN {} ELSE caught \cup {s}
    /\ IF pc = "wait" THEN pc' = "restore" /\ ret' = -1 ELSE UNCHANGED <<pc, ret>>
    /\ UNCHANGED <<clock, mask, callers, call>>

Send(s) ==
    /\ s \notin pending /\ pending' = pending \cup {s}
    /\ UNCHANGED <<clock, mask, callers, pc, call, caught, ret>>

Tick ==
    /\ pc # "user" /\ clock < MaxClock /\ clock' = clock + 1
    /\ UNCHANGED <<mask, pending, callers, pc, call, caught, ret>>

Next ==
    \/ \E f \in {"ppoll", "pselect"}, t \in 0..MaxAsked \cup {NULL}, m \in SUBSET Signal \cup {NULL} :
          Call(f, t, m)
    \/ SetMask \/ Enter \/ Wake \/ Restore
    \/ (\E s \in Signal : Handle(s) \/ Send(s)) \/ Tick

Spec == Init /\ [][Next]_vars

------------------------------------------------------------------------------
(* poll.c:42, 70 - however the wait ends, the caller has its own mask      *)
(* again, and no handler has run in the call for a signal that neither     *)
(* mask lets through.                                                      *)
MaskBack ==
    /\ pc \in {"user", "mask"} => mask = callers
    /\ pc # "user" /\ call.sigmask # NULL => caught \cap callers \cap call.sigmask = {}
    /\ pc # "user" /\ call.sigmask = NULL => caught \cap callers = {}

(* poll.c:32, 59 - a wait that times out has lasted as long as was asked   *)
(* but for less than one unit of it, if that many units are an int.        *)
TimesOut ==
    pc = "restore" /\ ret = 0 =>
        \/ clock > call.asked - Unit
        \/ call.fn = "ppoll" /\ call.asked \div Unit > INT_MAX
==============================================================================
