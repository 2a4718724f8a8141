------------------------------ MODULE Terminal -------------------------------
(***************************************************************************)
(* The descriptors that openpty, login_tty and forkpty of src/pty.c,       *)
(* daemon of src/process.c and accept4 of src/network.c open and close, in *)
(* a process whose other threads open and close descriptors meanwhile, and *)
(* in the child that forkpty and daemon make.  The pseudo terminal's       *)
(* settings are left out.                                                  *)
(***************************************************************************)
EXTENDS Integers

CONSTANT OPEN_MAX     \* how many descriptors a process may have

TerminalAssumption == OPEN_MAX \in Nat \ 0..3

Fd == 0..(OPEN_MAX - 1)
Stdio == 0..2
File == {"none", "std", "other", "master", "slave", "theirs", "null", "socket"}
Process == {"parent", "child"}
Function == {"openpty", "forkpty", "login_tty", "daemon", "accept4"}

VARIABLES
    fds,        \* fds[p][d]: what descriptor d of process p is for
    pc,         \* where each process is
    call,       \* the function called, "none" before
    flags,      \* daemon: "close" for ~noclose; accept4: "cloexec", "nonblock"
    master,     \* openpty's master
    name,       \* the terminal named in ptsname's static buffer
    fd,         \* its slave; login_tty's and daemon's fd; accepted_fd
    tmpfd,      \* login_tty's tmpfd
    stdio,      \* the next descriptor that dup2 redirects
    others,     \* the descriptors that other threads of the parent hold
    failed      \* whether a dup2 has failed

asked == <<call, flags>>
locals == <<master, name, fd, tmpfd, stdio>>
vars == <<fds, pc, asked, locals, others, failed>>

Free(p) == {d \in Fd : fds[p][d] = "none"}
Holding(p, file) == {d \in Fd : fds[p][d] = file}

(* open, accept and the like take the lowest free descriptor; d is it.     *)
Opened(p, d, file) ==
    /\ d \in Free(p) /\ \A e \in Free(p) : d <= e
    /\ fds' = [fds EXCEPT ![p][d] = file]

Closed(p, ds) == fds' = [fds EXCEPT ![p] = [d \in Fd |-> IF d \in ds THEN "none" ELSE @[d]]]

Goto(p, l) == pc' = [pc EXCEPT ![p] = l]

(* -1.  In forkpty's child that is _exit(1) (line 131).                    *)
Failed(p) == Goto(p, IF p = "child" /\ call = "forkpty" THEN "exited" ELSE "failed")

(* A process is started with any of its standard descriptors open. *)
Init ==
    /\ \E open \in SUBSET Stdio :
          fds = [p \in Process |-> [d \in Fd |-> IF p = "parent" /\ d \in open THEN "std" ELSE "none"]]
    /\ pc = [p \in Process |-> IF p = "parent" THEN "user" ELSE "unborn"]
    /\ call = "none" /\ flags = {} /\ others = {} /\ failed = FALSE
    /\ master = -1 /\ name = "none" /\ fd = -1 /\ tmpfd = -1 /\ stdio = 0

(* The caller of login_tty has opened the terminal. *)
Call(f, fl) ==
    /\ pc["parent"] = "user"
    /\ call' = f /\ flags' = fl
    /\ IF f = "login_tty" THEN \E d \in Fd : Opened("parent", d, "slave") /\ fd' = d
       ELSE UNCHANGED <<fds, fd>>
    /\ Goto("parent", CASE f \in {"openpty", "forkpty"} -> "openpt"
                        [] f = "login_tty" -> "setsid"
                        [] f = "daemon" -> "fork"
                        [] f = "accept4" -> "accept")
    /\ UNCHANGED <<master, name, tmpfd, stdio, others, failed>>

(* The other threads of the process. *)
OtherOpens(d) ==
    /\ pc["parent"] \notin {"exited", "returned", "failed"}
    /\ Opened("parent", d, "other")
    /\ others' = others \cup {d}
    /\ UNCHANGED <<pc, asked, locals, failed>>

OtherCloses(d) ==
    /\ pc["parent"] \notin {"exited", "returned", "failed"}
    /\ d \in others
    /\ Closed("parent", {d})
    /\ others' = others \ {d}
    /\ UNCHANGED <<pc, asked, locals, failed>>
------------------------------------------------------------------------------
(* openpty: posix_openpt, then grantpt, unlockpt and ptsname, then the     *)
(* slave.  The master is closed when one of them fails.                    *)
posix_openpt(d) ==
    /\ pc["parent"] = "openpt"
    /\ Opened("parent", d, "master")
    /\ master' = d /\ Goto("parent", "grantpt")
    /\ UNCHANGED <<asked, name, fd, tmpfd, stdio, others, failed>>

ptsname ==
    /\ pc["parent"] = "grantpt"
    /\ name' = "slave" /\ Goto("parent", "open")
    /\ UNCHANGED <<fds, asked, master, fd, tmpfd, stdio, others, failed>>

(* Another thread's openpty calls ptsname: the buffer is shared. *)
OtherPtsname ==
    /\ pc["parent"] = "open" /\ name = "slave"
    /\ name' = "theirs"
    /\ UNCHANGED <<fds, pc, asked, master, fd, tmpfd, stdio, others, failed>>

OpenSlave(d) ==
    /\ pc["parent"] = "open"
    /\ Opened("parent", d, name)
    /\ fd' = d /\ Goto("parent", IF call = "forkpty" THEN "fork" ELSE "returned")
    /\ UNCHANGED <<asked, master, name, tmpfd, stdio, others, failed>>

openpty_fails ==
    /\ \/ pc["parent"] = "openpt" /\ UNCHANGED fds
       \/ pc["parent"] \in {"grantpt", "open"} /\ Closed("parent", {master})
    /\ Failed("parent")
    /\ UNCHANGED <<asked, locals, others, failed>>

(* The child of forkpty or daemon has a copy of every descriptor.  The     *)
(* parent returns from forkpty when it has closed the slave, and never     *)
(* from daemon.                                                            *)
fork ==
    /\ pc["parent"] = "fork"
    /\ fds' = [fds EXCEPT !["child"] = fds["parent"]]
    /\ pc' = IF call = "forkpty" THEN [parent |-> "close", child |-> "close"]
             ELSE [parent |-> "exited", child |-> "setsid"]
    /\ UNCHANGED <<asked, locals, others, failed>>

fork_fails_keeping_slave ==
    /\ pc["parent"] = "fork"
    /\ IF call = "forkpty" THEN Closed("parent", {master}) ELSE UNCHANGED fds
    /\ Failed("parent")
    /\ UNCHANGED <<asked, locals, others, failed>>

fork_fails ==
    /\ pc["parent"] = "fork"
    /\ IF call = "forkpty" THEN Closed("parent", {master, fd}) ELSE UNCHANGED fds
    /\ Failed("parent")
    /\ UNCHANGED <<asked, locals, others, failed>>

forkpty(p) ==
    /\ pc[p] = "close"
    /\ Closed(p, IF p = "child" THEN {master} ELSE {fd})
    /\ Goto(p, IF p = "child" THEN "setsid" ELSE "returned")
    /\ UNCHANGED <<asked, locals, others, failed>>

------------------------------------------------------------------------------
(* login_tty and daemon: a new session.  setsid fails for the leader of a  *)
(* process group, which a new child is not.                                *)
setsid(p) ==
    /\ pc[p] = "setsid"
    /\ Goto(p, IF call # "daemon" THEN "ttyname" ELSE IF "close" \in flags THEN "null" ELSE "returned")
    /\ UNCHANGED <<fds, asked, locals, others, failed>>

setsid_fails ==
    /\ pc["parent"] = "setsid"
    /\ Failed("parent")
    /\ UNCHANGED <<fds, asked, locals, others, failed>>

(* login_tty opens the terminal once more, if it can, to make it the       *)
(* controlling one.                                                        *)
Reopen(p, d) ==
    /\ pc[p] = "ttyname"
    /\ Opened(p, d, fds[p][fd])
    /\ tmpfd' = d /\ Goto(p, "close tmpfd")
    /\ UNCHANGED <<asked, master, name, fd, stdio, others, failed>>

CloseTmpfd(p) ==
    /\ pc[p] = "close tmpfd"
    /\ Closed(p, {tmpfd}) /\ Goto(p, "dup2")
    /\ UNCHANGED <<asked, locals, others, failed>>

ReopenFails(p) ==
    /\ pc[p] = "ttyname"
    /\ Goto(p, "dup2")
    /\ UNCHANGED <<fds, asked, locals, others, failed>>

(* daemon opens /dev/null, and leaves everything as it is if it cannot.    *)
OpenNull(d) ==
    /\ pc["child"] = "null"
    /\ Opened("child", d, "null")
    /\ fd' = d /\ Goto("child", "dup2")
    /\ UNCHANGED <<asked, master, name, tmpfd, stdio, others, failed>>

OpenNullFails ==
    /\ pc["child"] = "null"
    /\ Goto("child", "returned")
    /\ UNCHANGED <<fds, asked, locals, others, failed>>

(* What another thread had under the number is redirected as well. *)
dup2(p) ==
    /\ pc[p] = "dup2" /\ stdio \in Stdio
    /\ fds' = [fds EXCEPT ![p][stdio] = fds[p][fd]]
    /\ stdio' = stdio + 1
    /\ others' = IF p = "parent" THEN others \ {stdio} ELSE others
    /\ UNCHANGED <<pc, asked, master, name, fd, tmpfd, failed>>

(* login_tty gives up; daemon does not look. *)
dup2_fails(p) ==
    /\ pc[p] = "dup2" /\ stdio \in Stdio
    /\ failed' = TRUE
    /\ IF call = "daemon" THEN stdio' = stdio + 1 /\ UNCHANGED pc
       ELSE Failed(p) /\ UNCHANGED stdio
    /\ UNCHANGED <<fds, asked, master, name, fd, tmpfd, others>>

CloseFd(p) ==
    /\ pc[p] = "dup2" /\ stdio \notin Stdio
    /\ IF fd > 2 THEN Closed(p, {fd}) ELSE UNCHANGED fds
    /\ Goto(p, "returned")
    /\ UNCHANGED <<asked, locals, others, failed>>

------------------------------------------------------------------------------
(* accept4: accept, then the flags that were asked for. *)
accept(d) ==
    /\ pc["parent"] = "accept"
    /\ Opened("parent", d, "socket")
    /\ fd' = d /\ Goto("parent", "cloexec")
    /\ UNCHANGED <<asked, master, name, tmpfd, stdio, others, failed>>

accept_fails ==
    /\ pc["parent"] = "accept"
    /\ Failed("parent")
    /\ UNCHANGED <<fds, asked, locals, others, failed>>

fcntl ==
    /\ pc["parent"] \in {"cloexec", "nonblock"}
    /\ Goto("parent", IF pc["parent"] = "cloexec" THEN "nonblock" ELSE "returned")
    /\ UNCHANGED <<fds, asked, locals, others, failed>>

fcntl_fails ==
    /\ pc["parent"] \in {"cloexec", "nonblock"} \cap flags
    /\ Closed("parent", {fd}) /\ Failed("parent")
    /\ UNCHANGED <<asked, locals, others, failed>>

------------------------------------------------------------------------------
Ended == pc["parent"] \in {"returned", "failed", "exited"} /\
         pc["child"] \in {"unborn", "returned", "failed", "exited"}

Next ==
    \/ \E f \in Function :
          \/ f = "daemon" /\ \E fl \in SUBSET {"close"} : Call(f, fl)
          \/ f = "accept4" /\ \E fl \in SUBSET {"cloexec", "nonblock"} : Call(f, fl)
          \/ f \notin {"daemon", "accept4"} /\ Call(f, {})
    \/ \E d \in Fd :
          \/ OtherOpens(d) \/ OtherCloses(d)
          \/ posix_openpt(d) \/ OpenSlave(d) \/ OpenNull(d) \/ accept(d)
          \/ \E p \in Process : Reopen(p, d)
    \/ ptsname \/ OtherPtsname \/ openpty_fails \/ fork \/ fork_fails
    \/ setsid_fails \/ OpenNullFails \/ accept_fails \/ fcntl \/ fcntl_fails
    \/ \E p \in Process :
          \/ forkpty(p) \/ setsid(p) \/ CloseTmpfd(p) \/ ReopenFails(p)
          \/ dup2(p) \/ dup2_fails(p) \/ CloseFd(p)
    \/ Ended /\ UNCHANGED vars

Spec == Init /\ [][Next]_vars

------------------------------------------------------------------------------
(* The variables have their types. *)
TypeOK ==
    /\ fds \in [Process -> [Fd -> File]]
    /\ DOMAIN pc = Process
    /\ call \in Function \cup {"none"} /\ flags \subseteq {"close", "cloexec", "nonblock"}
    /\ {master, fd, tmpfd} \subseteq Fd \cup {-1}
    /\ name \in {"none", "slave", "theirs"} /\ stdio \in 0..3 /\ others \subseteq Fd /\ failed \in BOOLEAN

(* pty.c:38, 44, 50, 123, network.c:726 - a call of openpty, forkpty or    *)
(* accept4 that fails, wherever it fails, has closed what it opened.       *)
NothingLeft ==
    pc["parent"] = "failed" /\ call # "login_tty" =>
        \A file \in {"master", "slave", "theirs", "socket"} : Holding("parent", file) = {}

(* pty.c:123, 137 - no call closes a descriptor that another thread has    *)
(* opened, though numbers that were closed are used again at once.         *)
OthersKept == \A d \in others : fds["parent"][d] = "other"

(* pty.c:99, 130, 137, process.c:50 - however the standard descriptors     *)
(* were at the start, a process that has called login_tty has the terminal *)
(* as 0, 1 and 2 and nowhere else, and a daemon /dev/null if no dup2       *)
(* failed; the child of forkpty has no master, and the parent no slave.    *)
(* pty.c:42 - the terminal is the master's own unless another thread has   *)
(* called ptsname before the open, and then only one of that thread's.     *)
Terminals ==
    LET slave == IF name = "theirs" THEN "theirs" ELSE "slave" IN
    \A p \in Process : pc[p] = "returned" =>
        /\ call = "login_tty" \/ (call = "forkpty" /\ p = "child") =>
              Holding(p, slave) = Stdio /\ Holding(p, "master") = {}
        /\ call \in {"openpty", "forkpty"} /\ p = "parent" =>
              /\ Holding(p, "master") = {master}
              /\ Holding(p, slave) = IF call = "openpty" THEN {fd} ELSE {}
        /\ call = "daemon" /\ Holding(p, "null") # {} =>
              IF failed THEN Holding(p, "null") \subseteq Stdio ELSE Holding(p, "null") = Stdio
==============================================================================
