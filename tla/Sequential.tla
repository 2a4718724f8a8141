------------------------------ MODULE Sequential ------------------------------
(***************************************************************************)
(* Functions that one caller runs to their end, whatever signals and other *)
(* users of the clock and of libc's buffers do on the way: GetDelim,       *)
(* NetDB, Poll, Clocks and Fenv.  A behaviour exercises one of them, which *)
(* it settles at the start.                                                *)
(***************************************************************************)
EXTENDS Integers, Sequences

CONSTANTS
    NULL,                                                                 \* no value
    Byte, Delim, NUL, Junk, MaxFile, Given, GETDELIM_INITIAL_SIZE,        \* GetDelim
    Address, MaxAddrs,                                                    \* NetDB
    Signal, Unit, PerSec, INT_MAX, MaxAsked, MaxClock,                    \* Poll
    NS, US, MaxTime, MaxSleep, Jump,                                      \* Clocks
    Exception, Rounding, MaxNest                                          \* Fenv

VARIABLES
    part,     \* which of them
    stream, block, size_n, line_pc, bufsize, pos, read, line_ret,
    req, net_pc, net_ret, host, he, list, udp, net_live, twice, sock, net_starved,
    clock, mask, signals, callers, poll_pc, poll, caught, poll_ret,
    real, mono, sleep_pc, sleep, jumped,
    fsr, envs, flagp, raised

lineVars == <<stream, block, size_n, line_pc, bufsize, pos, read, line_ret>>
netVars == <<req, net_pc, net_ret, host, he, list, udp, net_live, twice, sock, net_starved>>
pollVars == <<clock, mask, signals, callers, poll_pc, poll, caught, poll_ret>>
clockVars == <<real, mono, sleep_pc, sleep, jumped>>
fenvVars == <<fsr, envs, flagp, raised>>
partsVars == <<part, lineVars, netVars, pollVars, clockVars, fenvVars>>

G == INSTANCE GetDelim WITH n <- size_n, pc <- line_pc, ret <- line_ret

N == INSTANCE NetDB
       WITH pc <- net_pc, ret <- net_ret, live <- net_live, starved <- net_starved

W == INSTANCE Poll WITH pending <- signals, pc <- poll_pc, call <- poll, ret <- poll_ret

C == INSTANCE Clocks WITH pc <- sleep_pc, call <- sleep

E == INSTANCE Fenv

ASSUME PartsAssumption ==
    /\ G!GetDelimAssumption /\ N!NetDBAssumption /\ W!PollAssumption
    /\ C!ClocksAssumption /\ E!FenvAssumption

(* The parts a behaviour does not exercise stay in one state. *)
NoLine ==
    /\ stream = <<>> /\ block = <<>> /\ size_n = 0 /\ line_pc = "user"
    /\ bufsize = 0 /\ pos = 0 /\ read = <<>> /\ line_ret = 0

NoPoll ==
    /\ clock = 0 /\ mask = {} /\ signals = {} /\ callers = {} /\ poll_pc = "user"
    /\ poll = 0 /\ caught = {} /\ poll_ret = 0

NoSection == fsr = E!Default /\ envs = <<>> /\ flagp = [is |-> {}, mask |-> {}] /\ raised = <<{}>>

PartsInit ==
    /\ IF part = "getdelim" THEN G!Init ELSE NoLine
    /\ IF part = "netdb" THEN N!Init ELSE N!Idle /\ req = NULL
    /\ IF part = "poll" THEN W!Init ELSE NoPoll
    /\ C!Init /\ (part # "clocks" => real = 0)
    /\ IF part = "fenv" THEN E!Init ELSE NoSection

PartsNext ==
    \/ part = "getdelim" /\ G!Next /\ UNCHANGED <<part, netVars, pollVars, clockVars, fenvVars>>
    \/ part = "netdb" /\ N!Next /\ UNCHANGED <<part, lineVars, pollVars, clockVars, fenvVars>>
    \/ part = "poll" /\ W!Next /\ UNCHANGED <<part, lineVars, netVars, clockVars, fenvVars>>
    \/ part = "clocks" /\ C!Next /\ UNCHANGED <<part, lineVars, netVars, pollVars, fenvVars>>
    \/ part = "fenv" /\ E!Next /\ UNCHANGED <<part, lineVars, netVars, pollVars, clockVars>>

PartsSpec == PartsInit /\ [][PartsNext]_partsVars

------------------------------------------------------------------------------
(* stdio.c:131 - getdelim's block is as large as *n says, with room for    *)
(* the NUL; line 141 - the line it returns is what was read.               *)
Lines == part = "getdelim" => G!BlockSound /\ G!WholeLine

(* network.c:168, 218 - getaddrinfo's list is the host's addresses for     *)
(* each type; lines 171, 555 - no block and no socket is lost, and none is *)
(* freed twice, whichever allocation fails.                                *)
Answers == part = "netdb" => N!Answers /\ N!NoBlockLost

(* poll.c:42, 70 - however the wait ends, the caller has its own mask      *)
(* again; lines 32, 59 - a wait that times out was long enough.            *)
MaskBack == part = "poll" => W!MaskBack /\ W!TimesOut

(* clock.c:162 - a sleep is as long as was asked unless its microseconds   *)
(* are the last of a second, and one continued for *remain but for two     *)
(* microseconds.  stubs.c:288, 313 - a condition does not time out before  *)
(* its monotonic deadline, but for the time the translation took and for   *)
(* what the wall clock was set forward by meanwhile.  Every timespec on    *)
(* the way is in range.                                                    *)
Deadlines == part = "clocks" => C!TypeOK /\ C!SleepsEnough /\ C!CondDeadline

(* fenv.c:100, 183 - the flags are what was raised since the innermost     *)
(* feholdexcept, ended sections among it; line 169 - nothing traps in one; *)
(* line 181 - feupdateenv restores what its feholdexcept saved.            *)
FloatingPoint == E!Restores /\ [](E!FlagsExact /\ E!HeldWithoutTraps)
==============================================================================
