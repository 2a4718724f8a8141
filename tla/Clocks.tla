------------------------------- MODULE Clocks -------------------------------
(***************************************************************************)
(* src/clock.c and the timed wait of src/stubs.c: clock_gettime over       *)
(* gettimeofday and gethrtime, clock_nanosleep over select, and            *)
(* solcompat_pthread_cond_timedwait_monotonic over pthread_cond_timedwait. *)
(*                                                                         *)
(* One caller, two clocks that run together, and an operator who may set   *)
(* the wall clock.  Time is in nanoseconds, of which there are NS in a     *)
(* microsecond and NS * US in a second; it may pass between any two steps. *)
(***************************************************************************)
EXTENDS Integers

CONSTANTS
    NS, US,      \* nanoseconds in a microsecond, microseconds in a second
    MaxTime,     \* the moment the clock stops
    MaxSleep,    \* the longest sleep and the latest deadline asked for
    Jump         \* by how much the wall clock may be set, once

ClocksAssumption ==
    /\ NS \in Nat \ {0} /\ US \in Nat \ {0}
    /\ MaxTime \in Nat /\ MaxSleep \in Nat
    /\ Jump \subseteq Int

SEC == NS * US

(* struct timespec and struct timeval, and the time they stand for. *)
Timespec(s, n) == [tv_sec |-> s, tv_nsec |-> n]

Nanoseconds(ts) == ts.tv_sec * SEC + ts.tv_nsec

Normal(n) == Timespec(n \div SEC, n % SEC)

REALTIME == "realtime"
MONOTONIC == "monotonic"

VARIABLES
    real, mono,  \* the clocks of the machine
    pc,
    call,        \* the call under way
    jumped       \* by how much real has been set

vars == <<real, mono, pc, call, jumped>>

Zero == Timespec(0, 0)

(* The locals of a call, and what the properties are about:                *)
(*   clk, abstime   clock_nanosleep's clk_id and TIMER_ABSTIME             *)
(*   request        the caller's timespec                                  *)
(*   req            clock_nanosleep's req; the condition's now_realtime    *)
(*   tv_start       in microseconds                                        *)
(*   due            when select (by mono) or the condition (by real) ends  *)
(*   remain         the caller's *remain                                   *)
(*   entered        when the call was made, by mono                        *)
(*   gap            how long the translation of the deadline took          *)
(*   set            whether the wall clock has been set since it was read  *)
NoCall == [clk |-> MONOTONIC, abstime |-> FALSE, request |-> Zero, req |-> Zero,
           tv_start |-> 0, due |-> 0, remain |-> Zero, entered |-> 0, gap |-> 0, set |-> FALSE]

Init ==
    /\ real \in {0, 1} /\ mono = 0
    /\ pc = "user" /\ call = NoCall /\ jumped = 0

------------------------------------------------------------------------------
(* gettimeofday, in microseconds. *)
gettimeofday == real \div NS

clock_gettime(id) ==
    IF id = REALTIME
    THEN Timespec(gettimeofday \div US, (gettimeofday % US) * NS)
    ELSE Timespec(mono \div SEC, mono % SEC)

SubUnnormalised(a, b) == Timespec(a.tv_sec - b.tv_sec, a.tv_nsec - b.tv_nsec)

(* a - b, with tv_nsec brought back into range. *)
Sub(a, b) ==
    LET s == a.tv_sec - b.tv_sec
        n == a.tv_nsec - b.tv_nsec IN
    IF n < 0 THEN Timespec(s - 1, n + SEC) ELSE Timespec(s, n)

AddWithoutCarry(a, d) ==
    LET n == a.tv_nsec + d.tv_nsec IN
    IF n >= SEC THEN Timespec(a.tv_sec + d.tv_sec, n - SEC)
    ELSE Timespec(a.tv_sec + d.tv_sec, n)

Add(a, d) ==
    LET n == a.tv_nsec + d.tv_nsec IN
    IF n >= SEC THEN Timespec(a.tv_sec + d.tv_sec + 1, n - SEC)
    ELSE Timespec(a.tv_sec + d.tv_sec, n)

Goto(from, to) ==
    /\ pc = from /\ pc' = to
    /\ UNCHANGED <<real, mono, jumped>>

clock_nanosleep(id, abs, r) ==
    /\ Goto("user", IF abs THEN "now" ELSE "start")
    /\ call' = [NoCall EXCEPT !.clk = id, !.abstime = abs, !.request = r, !.entered = mono,
                              !.req = IF abs THEN Zero ELSE r]

(* TIMER_ABSTIME: the time that is left, or a return of 0. *)
Relative ==
    LET req == Sub(call.request, clock_gettime(call.clk)) IN
    /\ Goto("now", IF req.tv_sec < 0 THEN "slept" ELSE "start")
    /\ call' = [call EXCEPT !.req = req]

Start ==
    /\ Goto("start", "select")
    /\ call' = [call EXCEPT !.tv_start = gettimeofday]

tv_req_truncated(req) == req.tv_sec * US + req.tv_nsec \div NS

(* The timeval given to select: the last microsecond of a second is not    *)
(* rounded up.                                                             *)
tv_req(req) ==
    LET usec == req.tv_nsec \div NS
        up == req.tv_nsec % NS # 0 /\ usec < US - 1 IN
    req.tv_sec * US + usec + (IF up THEN 1 ELSE 0)

Select ==
    /\ Goto("select", "asleep")
    /\ call' = [call EXCEPT !.due = mono + tv_req(call.req) * NS]

TimeOut ==
    /\ mono >= call.due
    /\ Goto("asleep", "slept")
    /\ call' = [call EXCEPT !.remain = Zero]

(* What is left of the request, by the wall clock. *)
remain_us(req, tv_start) ==
    LET left == req.tv_sec * US + req.tv_nsec \div NS - (gettimeofday - tv_start) IN
    IF left < 0 THEN Zero ELSE Timespec(left \div US, (left % US) * NS)

(* EINTR, and the computation of *remain after it. *)
Interrupt == Goto("asleep", "eintr") /\ UNCHANGED call

Remaining ==
    /\ Goto("eintr", "interrupted")
    /\ call' = [call EXCEPT !.remain = remain_us(call.req, call.tv_start)]

------------------------------------------------------------------------------
(* solcompat_pthread_cond_timedwait_monotonic reads the wall clock, ... *)
cond_timedwait_monotonic(r) ==
    /\ Goto("user", "snap")
    /\ call' = [NoCall EXCEPT !.request = r, !.entered = mono, !.req = clock_gettime(REALTIME)]

(* ... then the monotonic one, and waits until the translated time. *)
Translate ==
    /\ Goto("snap", "wait")
    /\ call' = [call EXCEPT
          !.due = Nanoseconds(Add(call.req, Sub(call.request, clock_gettime(MONOTONIC)))),
          !.gap = mono - call.entered]

(* pthread_cond_timedwait goes by the wall clock. *)
CondTimeOut ==
    /\ real >= call.due
    /\ Goto("wait", "timedout") /\ UNCHANGED call

(* The call is over, for the condition also because it was signalled. *)
Return ==
    /\ pc \in {"slept", "interrupted", "timedout", "wait"}
    /\ pc' = "user" /\ call' = NoCall
    /\ UNCHANGED <<real, mono, jumped>>

------------------------------------------------------------------------------
Tick ==
    /\ mono < MaxTime
    /\ mono' = mono + 1 /\ real' = real + 1
    /\ UNCHANGED <<pc, call, jumped>>

HasReadClock == pc \notin {"user", "now"} /\ (pc = "start" => call.abstime)

(* settimeofday, at any moment of a call *)
SetClock(j) ==
    /\ jumped = 0
    /\ real + j >= 0
    /\ real' = real + j /\ jumped' = j
    /\ call' = [call EXCEPT !.set = HasReadClock]
    /\ UNCHANGED <<mono, pc>>

Next ==
    \/ \E n \in 0..MaxSleep :
         \/ \E id \in {REALTIME, MONOTONIC}, abs \in BOOLEAN : clock_nanosleep(id, abs, Normal(n))
         \/ cond_timedwait_monotonic(Normal(n))
    \/ Relative \/ Start \/ Select \/ TimeOut \/ Interrupt \/ Remaining
    \/ Translate \/ CondTimeOut
    \/ Return
    \/ Tick \/ (\E j \in Jump : SetClock(j))

Spec == Init /\ [][Next]_vars

------------------------------------------------------------------------------
InRange(ts) == ts.tv_sec \in Int /\ ts.tv_nsec \in 0..SEC - 1

(* Types; every timespec the code makes is in range. *)
TypeOK ==
    /\ real \in Nat /\ mono \in 0..MaxTime /\ jumped \in Jump \cup {0}
    /\ pc \in {"user", "now", "start", "select", "asleep", "eintr", "slept", "interrupted",
               "snap", "wait", "timedout"}
    /\ InRange(call.request) /\ InRange(call.req) /\ InRange(call.remain)
    /\ call.clk \in {REALTIME, MONOTONIC} /\ call.abstime \in BOOLEAN
    /\ call.tv_start \in Nat /\ call.due \in Int
    /\ call.entered \in Nat /\ call.gap \in Nat /\ call.set \in BOOLEAN

(* When the time asked for is over, on the monotonic clock. *)
Asked ==
    IF ~call.abstime THEN call.entered + Nanoseconds(call.request)
    ELSE Nanoseconds(call.request) + IF call.clk = MONOTONIC THEN 0 ELSE mono - real

(* clock.c:162-184 - a sleep that is not interrupted does not end before   *)
(* the time asked for unless its microseconds are the last of a second,    *)
(* whatever the remainders.  A caller that sleeps again for the *remain of *)
(* an interrupted one has then slept as long but for two microseconds      *)
(* (line 158, "microsecond precision is sufficient"), and *remain is never *)
(* more than was asked for.  Setting the wall clock meanwhile matters only *)
(* for *remain and for a sleep until a time of that clock.                 *)
SleepsEnough ==
    /\ pc = "slept" /\ (call.abstime /\ call.clk = REALTIME => ~call.set) =>
          (mono < Asked => call.req.tv_nsec \div NS = US - 1)
    /\ pc = "interrupted" /\ ~call.set =>
          /\ mono + Nanoseconds(call.remain) > Asked - 2 * NS
          /\ Nanoseconds(call.remain) <= Nanoseconds(call.req)

(* clock.c:164 - "Round up sub-microsecond remainder so we never           *)
(* under-sleep.": a sleep for a time, which select lets end, lasts it.     *)
NeverUnderSleeps == pc = "slept" /\ ~call.abstime => mono >= Asked

(* stubs.c:288, 313 - a wait on the condition does not time out before its *)
(* monotonic deadline by more than the time between the readings of the    *)
(* two clocks and the resolution of the wall clock; the wall clock's being *)
(* set after it was read "distorts the timeout by the size of the jump"    *)
(* and no more.                                                            *)
CondDeadline ==
    pc = "timedout" =>
        mono + call.gap + NS + (IF call.set /\ jumped > 0 THEN jumped ELSE 0)
            > Nanoseconds(call.request)
==============================================================================
