-------------------------------- MODULE Spawn --------------------------------
(***************************************************************************)
(* src/process.c: one thread makes a descriptor with pipe2, dup3 or        *)
(* mkostemp, which set its flags after it exists, while another thread     *)
(* prepares and makes a posix_spawn or posix_spawnp, whose child has a     *)
(* copy of the descriptors as they are at the fork.                        *)
(***************************************************************************)
EXTENDS Integers, FiniteSets

CONSTANTS
    OPEN_MAX,     \* how many descriptors a process may have
    NULL          \* no program, no environment, no value

SpawnAssumption == OPEN_MAX \in Nat \ 0..3 /\ NULL # "environ"

Fd == 0..(OPEN_MAX - 1)
Flag == {"cloexec", "status"}     \* O_CLOEXEC; O_NONBLOCK or O_APPEND
Maker == {"pipe2", "dup3", "mkostemp"}

VARIABLES
    open,         \* open[p]: the descriptors of process p, "parent" or "child"
    cloexec,      \* cloexec[p]: those that exec closes
    status,       \* the descriptors of the new file that have the status flag
    pc,           \* where the maker, the spawner and the child are
    make,         \* what the maker was asked: [fn, flags, fds]
    todo,         \* the fcntl calls it has yet to make: <<flag, descriptor>>
    attr,         \* *attrp
    actions,      \* what the caller has asked of *file_actions
    spawn,        \* what the spawner was asked: [fn, envp]
    forked,       \* where the maker was at the fork
    program       \* what the new program found

parent == <<open, cloexec, status>>
vars == <<parent, pc, make, todo, attr, actions, spawn, forked, program>>

Zero == [flags |-> {}, pgroup |-> NULL]

Init ==
    /\ open = [p \in {"parent", "child"} |-> IF p = "parent" THEN 0..1 ELSE {}]
    /\ cloexec = [p \in {"parent", "child"} |-> {}] /\ status = {}
    /\ pc = [maker |-> "user", spawner |-> "user", child |-> "unborn"]
    /\ make = [fn |-> NULL, flags |-> {}, fds |-> {}] /\ todo = {}
    /\ attr = Zero /\ actions = {} /\ spawn = [fn |-> NULL, envp |-> NULL]
    /\ forked = NULL /\ program = NULL

Lowest(k) == CHOOSE s \in SUBSET (Fd \ open["parent"]) :
    /\ Cardinality(s) = k
    /\ \A d \in Fd \ (open["parent"] \cup s), e \in s : d > e

------------------------------------------------------------------------------
(* pipe and mkstemp take the lowest descriptors; dup2 the one it is given, *)
(* another than oldfd (0 here), and closes what was there.                 *)
NewFds(fn) ==
    CASE fn = "pipe2" -> {Lowest(2)}
      [] fn = "mkostemp" -> {Lowest(1)}
      [] fn = "dup3" -> {{d} : d \in Fd \ {0}}

(* The fcntl calls that follow. *)
FcntlsFirstOnly(flags, fds) == flags \X {d \in fds : \A e \in fds : d <= e}

Fcntls(flags, fds) == flags \X fds

Make(fn, flags) ==
    /\ pc["maker"] = "user"
    /\ IF fn = "dup3" THEN "status" \notin flags ELSE Cardinality(Fd \ open["parent"]) >= 2
    /\ \E fds \in NewFds(fn) :
          /\ make' = [fn |-> fn, flags |-> flags, fds |-> fds]
          /\ open' = [open EXCEPT !["parent"] = @ \cup fds]
          /\ cloexec' = [cloexec EXCEPT !["parent"] = @ \ fds]
          /\ todo' = Fcntls(flags, fds)
    /\ pc' = [pc EXCEPT !["maker"] = IF todo' = {} THEN "returned" ELSE "fcntl"]
    /\ UNCHANGED <<status, attr, actions, spawn, forked, program>>

(* dup3 of a descriptor onto itself is EINVAL; pipe, dup2 or mkstemp fails. *)
MakeFails ==
    /\ pc["maker"] = "user"
    /\ pc' = [pc EXCEPT !["maker"] = "failed"]
    /\ UNCHANGED <<parent, make, todo, attr, actions, spawn, forked, program>>

(* pipe2 sets the status flags first, mkostemp last. *)
fcntl(f, d) ==
    /\ pc["maker"] = "fcntl" /\ <<f, d>> \in todo
    /\ \A x \in todo : x[1] # f => f = IF make.fn = "pipe2" THEN "status" ELSE "cloexec"
    /\ IF f = "cloexec" THEN cloexec' = [cloexec EXCEPT !["parent"] = @ \cup {d}] /\ UNCHANGED status
       ELSE status' = status \cup {d} /\ UNCHANGED cloexec
    /\ todo' = todo \ {<<f, d>>}
    /\ pc' = [pc EXCEPT !["maker"] = IF todo' = {} THEN "returned" ELSE @]
    /\ UNCHANGED <<open, make, attr, actions, spawn, forked, program>>

------------------------------------------------------------------------------
(* posix_spawnattr_init and the setters keep what they are given, and the  *)
(* getters return it.                                                      *)
posix_spawnattr_set(field, value) ==
    /\ pc["spawner"] = "user"
    /\ attr' = [attr EXCEPT ![field] = value]
    /\ UNCHANGED <<parent, pc, make, todo, actions, spawn, forked, program>>

(* addopen, addclose and adddup2 return 0 and keep nothing. *)
posix_spawn_file_actions_add(action) ==
    /\ pc["spawner"] = "user"
    /\ actions' = actions \cup {action}
    /\ UNCHANGED <<parent, pc, make, todo, attr, spawn, forked, program>>

(* posix_spawn and posix_spawnp: the fork. *)
fork(fn, envp) ==
    /\ pc["spawner"] = "user"
    /\ spawn' = [fn |-> fn, envp |-> envp]
    /\ open' = [open EXCEPT !["child"] = open["parent"]]
    /\ cloexec' = [cloexec EXCEPT !["child"] = cloexec["parent"]]
    /\ pc' = [pc EXCEPT !["spawner"] = "returned", !["child"] = "exec"]
    /\ forked' = pc["maker"]
    /\ UNCHANGED <<status, make, todo, attr, actions, program>>

fork_fails ==
    /\ pc["spawner"] = "user"
    /\ pc' = [pc EXCEPT !["spawner"] = "failed"]
    /\ UNCHANGED <<parent, make, todo, attr, actions, spawn, forked, program>>

(* The new program's environment: execve is given envp; for execvp the     *)
(* child sets environ, if there is an envp.                                *)
Environ == IF spawn.fn = "posix_spawnp" /\ spawn.envp = NULL THEN "environ" ELSE spawn.envp

(* The child: execve or execvp. *)
exec ==
    /\ pc["child"] = "exec"
    /\ program' = [fds |-> open["child"] \ cloexec["child"], pgroup |-> NULL, environ |-> Environ]
    /\ pc' = [pc EXCEPT !["child"] = "running"]
    /\ UNCHANGED <<parent, make, todo, attr, actions, spawn, forked>>

exec_fails ==
    /\ pc["child"] = "exec"
    /\ pc' = [pc EXCEPT !["child"] = "exit 127"]
    /\ UNCHANGED <<parent, make, todo, attr, actions, spawn, forked, program>>

Next ==
    \/ \E fn \in Maker, flags \in SUBSET Flag : Make(fn, flags)
    \/ MakeFails \/ (\E f \in Flag, d \in Fd : fcntl(f, d))
    \/ posix_spawnattr_set("flags", {"SETPGROUP"}) \/ posix_spawnattr_set("pgroup", 0)
    \/ (\E d \in 0..1 : posix_spawn_file_actions_add(<<"close", d>>))
    \/ \E fn \in {"posix_spawn", "posix_spawnp"}, envp \in {NULL, "envp"} : fork(fn, envp)
    \/ fork_fails \/ exec \/ exec_fails
    \/ /\ pc["maker"] \in {"returned", "failed"} /\ pc["spawner"] \in {"returned", "failed"}
       /\ pc["child"] # "exec" /\ UNCHANGED vars

Spec == Init /\ [][Next]_vars

------------------------------------------------------------------------------
(* process.c:150, 172, 185 - a new program has every descriptor but those  *)
(* that were asked to be closed, and of those only ones whose fork fell    *)
(* between their making and their flags.  process.c:455 - its environment  *)
(* is the one given, and with posix_spawnp and none given the caller's.    *)
(* (Nothing is said of the descriptors that the caller's file actions are  *)
(* about: posix_spawn does not do them.)                                   *)
Inherits ==
    program # NULL =>
        LET marked == IF "cloexec" \in make.flags /\ forked # "user" THEN make.fds ELSE {}
            acted == {d \in Fd : <<"close", d>> \in actions} IN
        /\ open["child"] \ (marked \cup acted) \subseteq program.fds
        /\ forked # "fcntl" => program.fds \cap marked = {}
        /\ program.environ = "environ" <=> spawn.fn = "posix_spawnp" /\ spawn.envp = NULL

(* process.c:146, 172, 187 - a call that has returned has left the         *)
(* descriptors it made with the flags asked for, and no other with them.   *)
FlagsSet ==
    pc["maker"] = "returned" =>
        /\ cloexec["parent"] = IF "cloexec" \in make.flags THEN make.fds ELSE {}
        /\ status = IF "status" \in make.flags THEN make.fds ELSE {}
==============================================================================
