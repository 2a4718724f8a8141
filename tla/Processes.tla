------------------------------ MODULE Processes ------------------------------
(***************************************************************************)
(* The functions that threads or processes contend in: Random, Locale,     *)
(* Environ, TempDir, Terminal, Spawn and AtomicFences.  They share no      *)
(* variable, so a behaviour exercises one of them, which it settles at the *)
(* start.                                                                  *)
(***************************************************************************)
EXTENDS Random, TLC

CONSTANTS
    NULL, GLOBAL, NONE,                           \* no value, LC_GLOBAL_LOCALE, no suffix
    LocaleName, C, Known, LocaleObj, MaxDepth,      \* of Locale
    EnvName, TZ, EnvValue, UTC, MaxVars,            \* of Environ
    TempProcess, Suffix, MaxAttempts,               \* of TempDir
    OPEN_MAX,                                       \* of Terminal and Spawn
    Cpu                                             \* the threads of AtomicFences

VARIABLES
    part,     \* which of them
    heap, current, process, scopes, bad, undone,
    environ, zone, timegm_pc, saved_tz, before, used, refused,
    entries, owner, mkdtemp_pc, suffix, attempt,
    fds, tty_pc, call, flags, master, name, fd, tmpfd, stdio, others, failed,
    open, cloexec, status, spawn_pc, make, todo, attr, actions, spawn, forked, program,
    build, ordering, mem, buf, cpu_pc, other, got

localeVars == <<heap, current, process, scopes, bad, undone>>
environVars == <<environ, zone, timegm_pc, saved_tz, before, used, refused>>
tempVars == <<entries, owner, mkdtemp_pc, suffix, attempt>>
ttyVars == <<fds, tty_pc, call, flags, master, name, fd, tmpfd, stdio, others, failed>>
spawnVars == <<open, cloexec, status, spawn_pc, make, todo, attr, actions, spawn, forked, program>>
fenceVars == <<build, ordering, mem, buf, cpu_pc, other, got>>

L == INSTANCE Locale
       WITH Name <- LocaleName, Obj <- LocaleObj

E == INSTANCE Environ
       WITH Name <- EnvName, Value <- EnvValue, pc <- timegm_pc

D == INSTANCE TempDir WITH Process <- TempProcess, pc <- mkdtemp_pc

T == INSTANCE Terminal WITH pc <- tty_pc

P == INSTANCE Spawn WITH pc <- spawn_pc

B == INSTANCE AtomicFences WITH Thread <- Cpu, pc <- cpu_pc

ASSUME ProcessesAssumption ==
    /\ RandomAssumption /\ L!LocaleAssumption /\ E!EnvironAssumption /\ D!TempDirAssumption
    /\ T!TerminalAssumption /\ P!SpawnAssumption /\ B!FenceAssumption

Symmetry == Permutations(Thread) \cup Permutations(Cpu)

NoFences ==
    build = "v9" /\ ordering = "TSO" /\ mem = <<>> /\ buf = <<>> /\ cpu_pc = <<>> /\ other = <<>> /\ got = <<>>

(* The parts a behaviour does not exercise start in one state only. *)
ProcessInit ==
    /\ part \in {"random", "locale", "environ", "tempdir", "terminal", "spawn", "fences"}
    /\ Init /\ (part # "random" => ~allow_weak)
    /\ L!Init /\ (part # "locale" => process = C)
    /\ E!Init /\ (part # "environ" => environ = <<>>)
    /\ D!Init /\ (part # "tempdir" => entries = {})
    /\ T!Init /\ (part # "terminal" => \A d \in 0..2 : fds["parent"][d] = "std")
    /\ P!Init
    /\ IF part = "fences" THEN B!Init ELSE NoFences

ProcessNext ==
    \/ /\ part = "random" /\ Next
       /\ UNCHANGED <<part, localeVars, environVars, tempVars, ttyVars, spawnVars, fenceVars>>
    \/ /\ part = "locale" /\ L!Next
       /\ UNCHANGED <<part, vars, environVars, tempVars, ttyVars, spawnVars, fenceVars>>
    \/ /\ part = "environ" /\ E!Next
       /\ UNCHANGED <<part, vars, localeVars, tempVars, ttyVars, spawnVars, fenceVars>>
    \/ /\ part = "tempdir" /\ D!Next
       /\ UNCHANGED <<part, vars, localeVars, environVars, ttyVars, spawnVars, fenceVars>>
    \/ /\ part = "terminal" /\ T!Next
       /\ UNCHANGED <<part, vars, localeVars, environVars, tempVars, spawnVars, fenceVars>>
    \/ /\ part = "spawn" /\ P!Next
       /\ UNCHANGED <<part, vars, localeVars, environVars, tempVars, ttyVars, fenceVars>>
    \/ /\ part = "fences" /\ B!Next
       /\ UNCHANGED <<part, vars, localeVars, environVars, tempVars, ttyVars, spawnVars>>

processVars ==
    <<part, vars, localeVars, environVars, tempVars, ttyVars, spawnVars, fenceVars>>

ProcessSpec == ProcessInit /\ [][ProcessNext]_processVars

------------------------------------------------------------------------------
(* The types of the parts. *)
Types ==
    CASE part = "random" -> TypeOK
      [] part = "locale" -> L!TypeOK
      [] part = "environ" -> E!TypeOK
      [] part = "tempdir" -> D!TypeOK
      [] part = "terminal" -> T!TypeOK
      [] OTHER -> TRUE

(* stubs.c:44, 108 - inside a switch that is for good, after old =         *)
(* uselocale(l) ... uselocale(old) the process has the locale it had       *)
(* before if the system knows it, and no freed locale_t was used.          *)
SwitchedBack == part = "locale" => L!SwitchedBack

(* stdlib.c:85 - unsetenv leaves no string of a name and keeps the others  *)
(* in order; setenv without overwrite changes nothing that is there.       *)
(* clock.c:196 - timegm goes by UTC and leaves TZ as it found it.          *)
Environment == E!EnvironSteps /\ []E!UtcAndBack

(* stdlib.c:163 - mkdtemp gives no directory to two callers.               *)
OneOwner == part = "tempdir" => D!OneOwner

(* Every descriptor is accounted for: random.c:102, 178 - the socket is    *)
(* closed on every way out and the device opened once by a thread at most; *)
(* pty.c:38 - a call that fails has closed what it opened; pty.c:99 - one  *)
(* that succeeds leaves each process the descriptors it is to have and no  *)
(* others; pty.c:123 - none closes a descriptor of another thread.         *)
Descriptors ==
    /\ part = "random" => SocketClosed /\ OpenedOnce
    /\ part = "terminal" => T!NothingLeft /\ T!OthersKept /\ T!Terminals

(* process.c:150, 455 - a spawned program has the environment given and    *)
(* every descriptor not to be closed, and of the others only those whose   *)
(* flag was yet to be set when it was forked; a call that has returned has *)
(* set the flags asked for on all it made.                                 *)
Inherits == part = "spawn" => P!Inherits /\ P!FlagsSet

(* atomic_ops.c:57 - of two threads that store, fence and load on v9 one  *)
(* sees the other; lines 454, 142 - who sees a flag stored or a stripe     *)
(* released sees what was stored before it.                                *)
Fences == part = "fences" => B!FullFence /\ B!Publication /\ B!LockedTotal
==============================================================================
