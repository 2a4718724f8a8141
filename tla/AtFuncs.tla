------------------------------- MODULE AtFuncs -------------------------------
(***************************************************************************)
(* src/at_funcs.c, and the functions of src/filesystem.c that move the     *)
(* working directory as it does: threads of one process that emulate the   *)
(* *at() calls by changing the process's working directory and back.       *)
(*                                                                         *)
(* A path is what decides where it is looked up: a directory (relative, to *)
(* that dirfd), AT_FDCWD (relative, to the working directory) or ABS.  A   *)
(* single-path function has it in path["new"].                             *)
(***************************************************************************)
CONSTANTS
    Thread,
    Dir,            \* directories
    AT_FDCWD,
    ABS,            \* an absolute path
    NONE,           \* no thread, no descriptor
    Calls,          \* the calls the threads make
    RestoreFails    \* whether fchdir(saved_fd) may fail

Path == Dir \cup {AT_FDCWD, ABS}

Slot == {"old", "new"}

(* at: openat, mkdirat, unlinkat, fstatat, fchownat, fchmodat, readlinkat, *)
(* symlinkat and faccessat.  c.fdcwd: every dirfd is AT_FDCWD, which a     *)
(* dirfd that comes with an absolute path may or may not be.  c.omit: a    *)
(* time given to utimensat is UTIME_OMIT.                                  *)
Call == [fn : {"at", "renameat", "linkat", "utimensat", "fdopendir"},
         path : [Slot -> Path], fdcwd : BOOLEAN, omit : BOOLEAN]

ASSUME AtAssumption ==
    /\ Dir # {}
    /\ AT_FDCWD \notin Dir /\ ABS \notin Dir /\ AT_FDCWD # ABS
    /\ NONE \notin Thread /\ NONE \notin Dir
    /\ RestoreFails \in BOOLEAN

ASSUME CallsAssumption ==
    /\ Calls \subseteq Call /\ Calls # {}
    /\ \A c \in Calls :
        /\ c.fdcwd => \A s \in Slot : c.path[s] \notin Dir
        /\ (\A s \in Slot : c.path[s] = AT_FDCWD) => c.fdcwd
        /\ c.fn = "fdopendir" => c.path["new"] \in Dir

VARIABLES
    cwd,    \* the kernel's working directory of the process
    home,   \* the working directory the application chose
    mutex,  \* at_mutex: its owner or NONE
    pc,     \* pc[t]: where t is in the function it is executing
    call,   \* call[t]: its arguments
    saved,  \* saved[t]: the directory of t's saved_fd, or NONE
    todo,   \* todo[t]: the paths resolve_dirfd_path has still to resolve
    full,   \* full[t]: old_full and new_full
    hit     \* hit[t]: the lookups t's call made: <<path asked, where>>

vars == <<cwd, home, mutex, pc, call, saved, todo, full, hit>>

NoCall == CHOOSE c \in Calls : TRUE

(* renameat's "simple case" takes no lock, and neither does filesystem.c. *)
Locked(c) == c.fn \in {"at", "linkat"} \/ (c.fn = "renameat" /\ ~c.fdcwd)

Slots(c) == IF c.fn \in {"renameat", "linkat"} THEN Slot ELSE {"new"}

(* The paths that are resolved to full ones before the operation. *)
Relative(c) == IF c.fn = "at" THEN {} ELSE {s \in Slots(c) : c.path[s] \in Dir}

(* Where the kernel looks a path up, and where the caller asked it to be. *)
Lookup(p) == IF p = AT_FDCWD THEN cwd ELSE p

Want(p) == IF p = AT_FDCWD THEN home ELSE p

Init ==
    /\ home \in Dir /\ cwd = home
    /\ mutex = NONE
    /\ pc = [t \in Thread |-> "idle"]
    /\ call = [t \in Thread |-> NoCall]
    /\ saved = [t \in Thread |-> NONE]
    /\ todo = [t \in Thread |-> {}]
    /\ full = [t \in Thread |-> NoCall.path]
    /\ hit = [t \in Thread |-> {}]

Goto(t, l) == pc' = [pc EXCEPT ![t] = l]

Returns(t) ==
    /\ Goto(t, "idle")
    /\ call' = [call EXCEPT ![t] = NoCall]
    /\ todo' = [todo EXCEPT ![t] = {}]
    /\ full' = [full EXCEPT ![t] = NoCall.path]
    /\ hit' = [hit EXCEPT ![t] = {}]

(* What a function does next when the paths in q are still to be resolved. *)
Continue(c, q) ==
    IF q # {} THEN "r_open"
    ELSE IF c.fn = "at" THEN "open"
    ELSE IF c.fn = "utimensat" /\ c.omit THEN "stat" ELSE "op"

Invoke(t, c) ==
    /\ pc[t] = "idle"
    /\ call' = [call EXCEPT ![t] = c]
    /\ full' = [full EXCEPT ![t] = c.path]
    /\ todo' = [todo EXCEPT ![t] = Relative(c)]
    /\ Goto(t, IF Locked(c) THEN "lock" ELSE Continue(c, Relative(c)))
    /\ UNCHANGED <<cwd, home, mutex, saved, hit>>

LockRegardless(t) ==
    /\ pc[t] = "lock"
    /\ mutex' = t
    /\ Goto(t, Continue(call[t], todo[t]))
    /\ UNCHANGED <<cwd, home, call, saved, todo, full, hit>>

(* pthread_mutex_lock(&at_mutex) in at_enter, renameat and linkat. *)
Lock(t) ==
    /\ pc[t] = "lock" /\ mutex = NONE
    /\ mutex' = t
    /\ Goto(t, Continue(call[t], todo[t]))
    /\ UNCHANGED <<cwd, home, call, saved, todo, full, hit>>

------------------------------------------------------------------------------
(* at_enter: save the working directory ... *)
at_enter_open(t) ==
    /\ pc[t] = "open"
    /\ \/ /\ saved' = [saved EXCEPT ![t] = cwd]
          /\ Goto(t, IF call[t].path["new"] \in Dir THEN "chdir" ELSE "op")
       \/ Goto(t, "unlock") /\ UNCHANGED saved          \* open(".") fails
    /\ UNCHANGED <<cwd, home, mutex, call, todo, full, hit>>

at_enter_chdir_no_unlock(t) ==
    /\ pc[t] = "chdir"
    /\ \/ cwd' = call[t].path["new"] /\ Goto(t, "op") /\ UNCHANGED saved
       \/ saved' = [saved EXCEPT ![t] = NONE] /\ Goto(t, "return") /\ UNCHANGED cwd
    /\ UNCHANGED <<home, mutex, call, todo, full, hit>>

at_enter_chdir_no_close(t) ==
    /\ pc[t] = "chdir"
    /\ \/ cwd' = call[t].path["new"] /\ Goto(t, "op") /\ UNCHANGED saved
       \/ Goto(t, "unlock") /\ UNCHANGED <<cwd, saved>>
    /\ UNCHANGED <<home, mutex, call, todo, full, hit>>

(* ... and enter dirfd; if that fails, close the saved descriptor. *)
at_enter_chdir(t) ==
    /\ pc[t] = "chdir"
    /\ \/ cwd' = call[t].path["new"] /\ Goto(t, "op") /\ UNCHANGED saved
       \/ saved' = [saved EXCEPT ![t] = NONE] /\ Goto(t, "unlock") /\ UNCHANGED cwd
    /\ UNCHANGED <<home, mutex, call, todo, full, hit>>

(* fchdir(saved_fd), whose result is ignored, and close(saved_fd). *)
Restore(t) ==
    /\ cwd' = saved[t] \/ (RestoreFails /\ UNCHANGED cwd)
    /\ saved' = [saved EXCEPT ![t] = NONE]

at_leave(t) ==
    /\ pc[t] = "leave"
    /\ Restore(t)
    /\ Goto(t, "unlock")
    /\ UNCHANGED <<home, mutex, call, todo, full, hit>>

------------------------------------------------------------------------------
(* resolve_dirfd_path, and the same steps in utimensat and fdopendir. *)
slot(t) == IF "old" \in todo[t] THEN "old" ELSE "new"

Fail(t) == Goto(t, IF Locked(call[t]) THEN "unlock" ELSE "return")

resolve_open(t) ==
    /\ pc[t] = "r_open"
    /\ \/ saved' = [saved EXCEPT ![t] = cwd] /\ Goto(t, "r_chdir")
       \/ Fail(t) /\ UNCHANGED saved
    /\ UNCHANGED <<cwd, home, mutex, call, todo, full, hit>>

resolve_chdir(t) ==
    /\ pc[t] = "r_chdir"
    /\ \/ cwd' = call[t].path[slot(t)] /\ Goto(t, "r_getcwd") /\ UNCHANGED saved
       \/ Fail(t) /\ saved' = [saved EXCEPT ![t] = NONE] /\ UNCHANGED cwd
    /\ UNCHANGED <<home, mutex, call, todo, full, hit>>

resolve_getcwd(t) ==
    /\ pc[t] = "r_getcwd"
    /\ \/ full' = [full EXCEPT ![t] = [@ EXCEPT ![slot(t)] = cwd]] /\ Goto(t, "r_back")
       \/ Goto(t, "r_backfail") /\ UNCHANGED full
    /\ UNCHANGED <<cwd, home, mutex, call, saved, todo, hit>>

resolve_back_close_only(t) ==
    /\ pc[t] \in {"r_back", "r_backfail"}
    /\ IF pc[t] = "r_back"
       THEN /\ Restore(t)
            /\ todo' = [todo EXCEPT ![t] = @ \ {slot(t)}]
            /\ Goto(t, Continue(call[t], todo[t] \ {slot(t)}))
       ELSE saved' = [saved EXCEPT ![t] = NONE] /\ Fail(t) /\ UNCHANGED <<cwd, todo>>
    /\ UNCHANGED <<home, mutex, call, full, hit>>

(* The way back is the same whether getcwd succeeded or not. *)
resolve_back(t) ==
    /\ pc[t] \in {"r_back", "r_backfail"}
    /\ Restore(t)
    /\ \/ /\ pc[t] = "r_back"
          /\ todo' = [todo EXCEPT ![t] = @ \ {slot(t)}]
          /\ Goto(t, Continue(call[t], todo[t] \ {slot(t)}))
       \/ pc[t] = "r_backfail" /\ Fail(t) /\ UNCHANGED todo
    /\ UNCHANGED <<home, mutex, call, full, hit>>

------------------------------------------------------------------------------
(* The system call on the path or paths: what was asked and where it went. *)
(* at_enter passes the path as it is; the others pass the full paths.      *)
Hits(t) ==
    LET c == call[t] IN
    IF c.fn = "at"
    THEN {<<c.path["new"], IF c.path["new"] = ABS THEN ABS ELSE cwd>>}
    ELSE {<<c.path[s], Lookup(full[t][s])>> : s \in Slots(c)}

Op(t) ==
    /\ pc[t] = "op"
    /\ hit' = [hit EXCEPT ![t] = @ \cup Hits(t)]
    /\ Goto(t, IF call[t].fn = "at" THEN "leave"
               ELSE IF Locked(call[t]) THEN "unlock" ELSE "return")
    /\ UNCHANGED <<cwd, home, mutex, call, saved, todo, full>>

(* utimensat reads the time it has to keep, before utime(). *)
Stat(t) ==
    /\ pc[t] = "stat"
    /\ hit' = [hit EXCEPT ![t] = @ \cup Hits(t)]
    /\ Goto(t, "op") \/ Goto(t, "return")
    /\ UNCHANGED <<cwd, home, mutex, call, saved, todo, full>>

Unlock(t) ==
    /\ pc[t] = "unlock"
    /\ mutex' = NONE
    /\ Returns(t)
    /\ UNCHANGED <<cwd, home, saved>>

Return(t) ==
    /\ pc[t] = "return"
    /\ Returns(t)
    /\ UNCHANGED <<cwd, home, mutex, saved>>

(* The application changes directory while no thread is in these functions. *)
Chdir(d) ==
    /\ \A t \in Thread : pc[t] = "idle"
    /\ cwd' = d /\ home' = d
    /\ UNCHANGED <<mutex, pc, call, saved, todo, full, hit>>

Step(t) ==
    \/ Lock(t) \/ Unlock(t) \/ Return(t)
    \/ at_enter_open(t) \/ at_enter_chdir(t) \/ at_leave(t)
    \/ resolve_open(t) \/ resolve_chdir(t) \/ resolve_getcwd(t) \/ resolve_back(t)
    \/ Op(t) \/ Stat(t)

Next ==
    \/ \E t \in Thread : (\E c \in Calls : Invoke(t, c)) \/ Step(t)
    \/ \E d \in Dir : Chdir(d)

Spec == Init /\ [][Next]_vars

(* A thread inside one of the functions goes on; nobody has to call one. *)
FairSpec == Spec /\ \A t \in Thread : WF_vars(Step(t))

------------------------------------------------------------------------------
(* Types. *)
TypeOK ==
    /\ cwd \in Dir /\ home \in Dir
    /\ mutex \in Thread \cup {NONE}
    /\ pc \in [Thread -> {"idle", "lock", "open", "chdir", "op", "leave", "unlock",
                          "r_open", "r_chdir", "r_getcwd", "r_back", "r_backfail",
                          "stat", "return"}]
    /\ call \in [Thread -> Calls]
    /\ saved \in [Thread -> Dir \cup {NONE}]
    /\ todo \in [Thread -> SUBSET Slot]
    /\ full \in [Thread -> [Slot -> Path]]
    /\ hit \in [Thread -> SUBSET (Path \X Path)]

(* at_funcs.c:13 - a path is looked up in the directory its dirfd names,   *)
(* or in the application's working directory for AT_FDCWD, whatever the    *)
(* other threads are doing to the working directory.                       *)
RightDirectory ==
    \A t \in Thread : \A h \in hit[t] : h[2] = Want(h[1])

(* at_leave, resolve_dirfd_path: once nobody holds at_mutex or a saved     *)
(* directory, the process is back where the application put it.            *)
CwdRestored ==
    mutex = NONE /\ (\A t \in Thread : saved[t] = NONE) => cwd = home

(* Every way out of at_enter, at_leave and resolve_dirfd_path has closed   *)
(* the descriptor of the saved directory.                                  *)
NoDescriptorLeak ==
    \A t \in Thread :
        pc[t] \in {"idle", "lock", "unlock", "return"} => saved[t] = NONE

Inside == {"open", "chdir", "op", "leave", "unlock",
           "r_open", "r_chdir", "r_getcwd", "r_back", "r_backfail"}

(* at_mutex is held by exactly the thread that is between at_enter and     *)
(* at_leave, or between lock and unlock of renameat or linkat: no failing  *)
(* path unlocks early, returns with the mutex or unlocks for another.      *)
MutexOwner ==
    \A t \in Thread : mutex = t <=> Locked(call[t]) /\ pc[t] \in Inside

(* Every call the program makes is one that takes at_mutex. *)
LockedOnly == \A c \in Calls : Locked(c)

Tracked(t) ==
    LET c == call[t] IN
    /\ full[t] = c.path
    /\ pc[t] \in {"idle", "lock"} => hit[t] = {}
    /\ pc[t] \in {"chdir", "leave", "r_chdir", "r_getcwd", "r_back", "r_backfail"}
         \/ (pc[t] = "op" /\ c.fn = "at") => saved[t] = home
    /\ pc[t] \in {"open", "chdir", "unlock", "r_open", "r_chdir"} => cwd = home
    /\ pc[t] = "op" =>
         cwd = IF c.fn = "at" /\ c.path["new"] \in Dir THEN c.path["new"] ELSE home
    /\ pc[t] = "r_getcwd" => cwd = c.path[slot(t)]

(* Where the process is at each point of a function that holds at_mutex,   *)
(* and what the function knows: its saved directory is the application's,  *)
(* and the full paths it has built name the directories it was given.      *)
CwdTracked == (mutex = NONE => cwd = home) /\ \A t \in Thread : Tracked(t)

(* at_mutex is released on every path, the failing ones included. *)
MutexReleased == mutex # NONE ~> mutex = NONE
==============================================================================
