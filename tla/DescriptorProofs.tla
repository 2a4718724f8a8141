-------------------------- MODULE DescriptorProofs ---------------------------
(***************************************************************************)
(* Inductive invariants of the parts of Processes that hand descriptors on: *)
(* Terminal and Spawn.  The theorems about them are in ProcessesProofs.    *)
(***************************************************************************)
EXTENDS Terminal, FiniteSets, TLAPS

------------------------------------------------------------------------------
(* f gives the descriptors of s, and no others, to the file g.             *)
Is(f, g, s) == \A d \in Fd : f[d] = g <=> d \in s

(* What the calls under way have open: the masters, terminals called tty,  *)
(* /dev/nulls and sockets.                                                 *)
Holds(f, tty, m, s, n, k) ==
    /\ Is(f, "master", m) /\ Is(f, "null", n) /\ Is(f, "socket", k)
    /\ Is(f, "slave", IF tty = "theirs" THEN {} ELSE s)
    /\ Is(f, "theirs", IF tty = "theirs" THEN s ELSE {})

Redirected(n) == {i \in Stdio : i < n}

(* login_tty, in the process that called it or in the child of forkpty.    *)
LoginInv(p) ==
    /\ pc[p] \in {"setsid", "ttyname"} => stdio = 0 /\ Holds(fds[p], name, {}, {fd}, {}, {})
    /\ pc[p] = "close tmpfd" =>
          stdio = 0 /\ tmpfd # fd /\ Holds(fds[p], name, {}, {fd, tmpfd}, {}, {})
    /\ pc[p] = "dup2" => Holds(fds[p], name, {}, {fd} \cup Redirected(stdio), {}, {})
    /\ pc[p] = "returned" => Holds(fds[p], name, {}, Stdio, {}, {})
    /\ pc[p] \in {"setsid", "ttyname", "close tmpfd", "dup2"} => fd \in Fd

ParentInv ==
    /\ pc["parent"] \in {"user", "openpt", "accept"} =>
          stdio = 0 /\ name = "none" /\ Holds(fds["parent"], name, {}, {}, {}, {})
    /\ pc["parent"] \in {"grantpt", "open"} =>
          /\ stdio = 0 /\ master \in Fd /\ Holds(fds["parent"], name, {master}, {}, {}, {})
          /\ call \in {"openpty", "forkpty"}
    /\ pc["parent"] = "openpt" => call \in {"openpty", "forkpty"}
    /\ pc["parent"] = "open" => name # "none"
    /\ pc["parent"] = "fork" =>
          /\ stdio = 0 /\ call \in {"forkpty", "daemon"}
          /\ call = "forkpty" =>
                {master, fd} \subseteq Fd /\ Holds(fds["parent"], name, {master}, {fd}, {}, {})
          /\ call = "daemon" => Holds(fds["parent"], name, {}, {}, {}, {})
    /\ pc["parent"] = "close" =>
          /\ call = "forkpty" /\ {master, fd} \subseteq Fd
          /\ Holds(fds["parent"], name, {master}, {fd}, {}, {})
    /\ pc["parent"] \in {"setsid", "ttyname", "close tmpfd", "dup2"} => call = "login_tty"
    /\ call = "login_tty" => LoginInv("parent")
    /\ pc["parent"] \in {"accept", "cloexec", "nonblock"} => call = "accept4"
    /\ pc["parent"] \in {"cloexec", "nonblock"} =>
          fd \in Fd /\ Holds(fds["parent"], name, {}, {}, {}, {fd})
    /\ pc["parent"] = "failed" => call = "login_tty" \/ Holds(fds["parent"], name, {}, {}, {}, {})
    /\ pc["parent"] = "returned" =>
          /\ call # "daemon"
          /\ call \in {"openpty", "forkpty"} => master \in Fd
          /\ call = "openpty" => fd \in Fd /\ Holds(fds["parent"], name, {master}, {fd}, {}, {})
          /\ call = "forkpty" => Holds(fds["parent"], name, {master}, {}, {}, {})

(* daemon's child. *)
DaemonInv ==
    /\ pc["child"] \in {"setsid", "null"} =>
          stdio = 0 /\ Holds(fds["child"], name, {}, {}, {}, {})
    /\ pc["child"] = "dup2" =>
          /\ fd \in Fd /\ \A d \in Fd : fds["child"][d] = "null" => d = fd \/ d \in Stdio
          /\ fds["child"][fd] = "null"
          /\ failed \/ \A d \in Redirected(stdio) : fds["child"][d] = "null"
    /\ pc["child"] = "returned" =>
          /\ \A d \in Fd : fds["child"][d] = "null" => d \in Stdio
          /\ \/ failed \/ Is(fds["child"], "null", {}) \/ Is(fds["child"], "null", Stdio)

ChildInv ==
    pc["child"] # "unborn" =>
        /\ call \in {"forkpty", "daemon"}
        /\ call = "forkpty" =>
              /\ pc["parent"] \in {"close", "returned"} /\ master \in Fd /\ LoginInv("child")
              /\ pc["child"] = "close" =>
                    fd \in Fd /\ stdio = 0 /\ Holds(fds["child"], name, {master}, {fd}, {}, {})
              /\ pc["child"] # "null"
        /\ call = "daemon" =>
              /\ pc["parent"] = "exited" /\ DaemonInv
              /\ pc["child"] \notin {"close", "ttyname", "close tmpfd"}

TtyInv == TypeOK /\ OthersKept /\ ParentInv /\ ChildInv

LEMMA TtyInit ==
    ASSUME TerminalAssumption, Init
    PROVE  TtyInv
<1>1. Stdio \subseteq Fd
  BY DEF TerminalAssumption, Stdio, Fd
<1>2. /\ pc["parent"] = "user" /\ pc["child"] = "unborn" /\ DOMAIN pc = Process
      /\ call = "none" /\ name = "none" /\ stdio = 0 /\ others = {}
  BY DEF Init, Process
<1>3. fds \in [Process -> [Fd -> {"std", "none"}]]
  BY DEF Init
<1>4. TypeOK
  <2>1. {master, fd, tmpfd} \subseteq Fd \cup {-1} /\ stdio \in 0..3 /\ others \subseteq Fd
    BY DEF Init
  <2>2. fds \in [Process -> [Fd -> File]]
    BY <1>3 DEF File
  <2>3. failed \in BOOLEAN /\ flags \subseteq {"close", "cloexec", "nonblock"}
    BY Zenon DEF Init
  <2> QED
    BY <1>2, <2>1, <2>2, <2>3 DEF TypeOK
<1>5. Holds(fds["parent"], name, {}, {}, {}, {})
  BY <1>3 DEF Holds, Is, Process
<1>6. ParentInv /\ ChildInv
  BY <1>2, <1>5 DEF ParentInv, ChildInv
<1> QED
  BY <1>2, <1>4, <1>6 DEF TtyInv, OthersKept

(* What open and close do to the descriptors of p and of the other.        *)
LEMMA Opens ==
    ASSUME TypeOK, NEW p \in Process, NEW d \in Fd, NEW file \in File, Opened(p, d, file)
    PROVE  /\ fds[p][d] = "none" /\ fds' \in [Process -> [Fd -> File]]
           /\ fds'[p] = [fds[p] EXCEPT ![d] = file]
           /\ \A q \in Process : q # p => fds'[q] = fds[q]
BY DEF TypeOK, Opened, Free

LEMMA Closes ==
    ASSUME TypeOK, NEW p \in Process, NEW ds, Closed(p, ds)
    PROVE  /\ fds' \in [Process -> [Fd -> File]]
           /\ fds'[p] = [d \in Fd |-> IF d \in ds THEN "none" ELSE fds[p][d]]
           /\ \A q \in Process : q # p => fds'[q] = fds[q]
BY DEF TypeOK, Closed, File

(* A step of the other threads, which leaves what the calls have open.     *)
LEMMA Bystanders ==
    ASSUME TtyInv, fds'["child"] = fds["child"],
           \A tty, m, s, n, k : Holds(fds["parent"], tty, m, s, n, k) =>
                                Holds(fds'["parent"], tty, m, s, n, k),
           UNCHANGED <<pc, asked, locals, failed>>
    PROVE  ParentInv' /\ ChildInv'
<1>1. UNCHANGED <<call, master, name, fd, tmpfd, stdio>>
  BY DEF asked, locals
<1>2. LoginInv("parent") => LoginInv("parent")'
  BY <1>1, Zenon DEF LoginInv
<1>3. LoginInv("child") => LoginInv("child")'
  BY <1>1, Zenon DEF LoginInv
<1>4. DaemonInv => DaemonInv'
  BY <1>1 DEF DaemonInv
<1>5. ParentInv'
  BY <1>1, <1>2, ZenonT(60) DEF TtyInv, ParentInv
<1>6. ChildInv'
  BY <1>1, <1>3, <1>4, Zenon DEF TtyInv, ChildInv
<1> QED
  BY <1>5, <1>6

LEMMA OtherStep ==
    ASSUME TtyInv, NEW d \in Fd, OtherOpens(d) \/ OtherCloses(d)
    PROVE  TtyInv'
<1> USE DEF Process
<1>1. UNCHANGED <<pc, asked, locals, failed>>
  BY DEF OtherOpens, OtherCloses
<1>2. TypeOK /\ OthersKept /\ fds["parent"] \in [Fd -> File]
  BY DEF TtyInv, TypeOK
<1>3. CASE OtherOpens(d)
  <2>1. /\ fds["parent"][d] = "none" /\ fds' \in [Process -> [Fd -> File]]
        /\ fds'["parent"] = [fds["parent"] EXCEPT ![d] = "other"]
        /\ fds'["child"] = fds["child"] /\ others' = others \cup {d}
    BY <1>2, <1>3, Opens, Zenon DEF OtherOpens, File
  <2>2. \A tty, m, s, n, k : Holds(fds["parent"], tty, m, s, n, k) =>
                             Holds(fds'["parent"], tty, m, s, n, k)
    BY <1>2, <2>1 DEF Holds, Is
  <2>3. ParentInv' /\ ChildInv'
    BY <1>1, <2>1, <2>2, Bystanders
  <2>4. OthersKept'
    BY <1>2, <2>1 DEF OthersKept, TypeOK
  <2>5. TypeOK'
    BY <1>1, <1>2, <2>1 DEF TypeOK, asked, locals
  <2> QED
    BY <2>3, <2>4, <2>5, Zenon DEF TtyInv
<1>4. CASE OtherCloses(d)
  <2>1. /\ fds["parent"][d] = "other" /\ fds' \in [Process -> [Fd -> File]]
        /\ fds'["parent"] = [e \in Fd |-> IF e \in {d} THEN "none" ELSE fds["parent"][e]]
        /\ fds'["child"] = fds["child"] /\ others' = others \ {d}
    BY <1>2, <1>4, Closes DEF OtherCloses, OthersKept
  <2>2. \A tty, m, s, n, k : Holds(fds["parent"], tty, m, s, n, k) =>
                             Holds(fds'["parent"], tty, m, s, n, k)
    BY <1>2, <2>1 DEF Holds, Is
  <2>3. ParentInv' /\ ChildInv'
    BY <1>1, <2>1, <2>2, Bystanders
  <2>4. OthersKept'
    BY <1>2, <2>1 DEF OthersKept, TypeOK
  <2>5. TypeOK'
    BY <1>1, <1>2, <2>1 DEF TypeOK, asked, locals
  <2> QED
    BY <2>3, <2>4, <2>5 DEF TtyInv
<1> QED
  BY <1>3, <1>4

(* Until the fork the parent is alone. *)
LEMMA Alone ==
    ASSUME TtyInv, pc["parent"] \notin {"close", "returned", "exited"}
    PROVE  pc["child"] = "unborn"
BY Zenon DEF TtyInv, ChildInv

LEMMA Calls ==
    ASSUME TtyInv, NEW f \in Function, NEW fl \in SUBSET {"close", "cloexec", "nonblock"}, Call(f, fl)
    PROVE  TtyInv'
<1> USE DEF Process
<1>1. /\ pc["parent"] = "user" /\ call' = f /\ flags' = fl
      /\ UNCHANGED <<master, name, tmpfd, stdio, others, failed>>
      /\ pc' = [pc EXCEPT !["parent"] = CASE f \in {"openpty", "forkpty"} -> "openpt"
                        [] f = "login_tty" -> "setsid"
                        [] f = "daemon" -> "fork"
                        [] f = "accept4" -> "accept"]
  BY DEF Call, Goto
<1>2. TypeOK /\ OthersKept /\ pc["child"] = "unborn" /\ fds["parent"] \in [Fd -> File]
  BY <1>1, Alone DEF TtyInv, TypeOK
<1>3. stdio = 0 /\ name = "none" /\ Holds(fds["parent"], name, {}, {}, {}, {})
  BY <1>1 DEF TtyInv, ParentInv
<1>4. pc'["child"] = "unborn" /\ DOMAIN pc' = Process
  BY <1>1, <1>2 DEF TypeOK
<1>5. ChildInv'
  BY <1>4 DEF ChildInv
<1>6. CASE f = "login_tty"
  <2>1. PICK d \in Fd : Opened("parent", d, "slave") /\ fd' = d
    BY <1>6, Zenon DEF Call
  <2>2. /\ fds["parent"][d] = "none" /\ fds' \in [Process -> [Fd -> File]]
        /\ fds'["parent"] = [fds["parent"] EXCEPT ![d] = "slave"]
    BY <1>2, <2>1, Opens, Zenon DEF File
  <2>3. Holds(fds'["parent"], name, {}, {d}, {}, {})
    BY <1>2, <1>3, <2>2 DEF Holds, Is
  <2>4. pc'["parent"] = "setsid"
    BY <1>1, <1>2, <1>6 DEF TypeOK
  <2>5. ParentInv'
    BY <1>1, <1>3, <1>6, <2>1, <2>3, <2>4, Zenon DEF ParentInv, LoginInv
  <2>6. OthersKept'
    BY <1>1, <1>2, <2>2 DEF OthersKept, TypeOK
  <2>7. TypeOK'
    BY <1>1, <1>2, <1>4, <2>1, <2>2 DEF TypeOK
  <2> QED
    BY <1>5, <2>5, <2>6, <2>7 DEF TtyInv
<1>7. CASE f # "login_tty"
  <2>1. UNCHANGED <<fds, fd>>
    BY <1>7 DEF Call
  <2>2. pc'["parent"] = CASE f \in {"openpty", "forkpty"} -> "openpt"
                          [] f = "daemon" -> "fork"
                          [] f = "accept4" -> "accept"
    BY <1>1, <1>2, <1>7 DEF TypeOK, Function
  <2>3. ParentInv'
    <3>1. Holds(fds'["parent"], name', {}, {}, {}, {}) /\ stdio' = 0 /\ name' = "none" /\ call' = f
      BY <1>1, <1>3, <2>1
    <3>2. CASE f \in {"openpty", "forkpty"}
      BY <2>2, <3>1, <3>2, Zenon DEF ParentInv
    <3>3. CASE f = "daemon"
      BY <2>2, <3>1, <3>3 DEF ParentInv
    <3>4. CASE f = "accept4"
      BY <2>2, <3>1, <3>4 DEF ParentInv
    <3> QED
      BY <1>7, <3>2, <3>3, <3>4 DEF Function
  <2>4. OthersKept' /\ TypeOK'
    BY <1>1, <1>2, <1>4, <2>1 DEF OthersKept, TypeOK
  <2> QED
    BY <1>5, <2>3, <2>4 DEF TtyInv
<1> QED
  BY <1>6, <1>7

LEMMA ParentMoves ==
    ASSUME TtyInv, pc["child"] = "unborn", NEW l, Goto("parent", l) \/ (UNCHANGED pc /\ pc["parent"] = l),
           fds' \in [Process -> [Fd -> File]], \A d \in others : fds'["parent"][d] = "other",
           {master', fd', tmpfd'} \subseteq Fd \cup {-1}, name' \in {"none", "slave", "theirs"},
           UNCHANGED <<asked, stdio, others, failed>>
    PROVE  /\ pc'["parent"] = l /\ TypeOK' /\ OthersKept' /\ ChildInv'
           /\ ParentInv' => TtyInv'
<1>1. pc'["parent"] = l /\ pc'["child"] = "unborn" /\ DOMAIN pc' = Process
  BY DEF Goto, TtyInv, TypeOK, Process
<1>2. ChildInv'
  BY <1>1 DEF ChildInv
<1>3. OthersKept'
  BY DEF OthersKept
<1>4. TypeOK'
  BY <1>1 DEF TtyInv, TypeOK, asked
<1> QED
  BY <1>1, <1>2, <1>3, <1>4 DEF TtyInv

(* A descriptor that the parent opens or closes is none of another thread. *)
LEMMA ParentOpens ==
    ASSUME TtyInv, NEW d \in Fd, NEW file \in File, Opened("parent", d, file)
    PROVE  /\ fds' \in [Process -> [Fd -> File]] /\ \A e \in others : fds'["parent"][e] = "other"
           /\ fds["parent"][d] = "none" /\ fds'["parent"] = [fds["parent"] EXCEPT ![d] = file]
           /\ fds["parent"] \in [Fd -> File]
<1>1. /\ fds["parent"][d] = "none" /\ fds' \in [Process -> [Fd -> File]]
      /\ fds'["parent"] = [fds["parent"] EXCEPT ![d] = file]
  BY Opens DEF TtyInv, Process
<1> QED
  BY <1>1 DEF TtyInv, TypeOK, OthersKept, Process

LEMMA ParentCloses ==
    ASSUME TtyInv, NEW ds \in SUBSET Fd, \A d \in ds : fds["parent"][d] # "other", Closed("parent", ds)
    PROVE  /\ fds' \in [Process -> [Fd -> File]] /\ \A e \in others : fds'["parent"][e] = "other"
           /\ fds'["parent"] = [d \in Fd |-> IF d \in ds THEN "none" ELSE fds["parent"][d]]
           /\ fds["parent"] \in [Fd -> File] /\ fds'["child"] = fds["child"]
<1>1. /\ fds' \in [Process -> [Fd -> File]] /\ fds'["child"] = fds["child"]
      /\ fds'["parent"] = [d \in Fd |-> IF d \in ds THEN "none" ELSE fds["parent"][d]]
  BY Closes DEF TtyInv, Process
<1> QED
  BY <1>1 DEF TtyInv, TypeOK, OthersKept, Process

LEMMA ParentKeeps ==
    ASSUME TtyInv, UNCHANGED fds
    PROVE  fds' \in [Process -> [Fd -> File]] /\ \A d \in others : fds'["parent"][d] = "other"
BY DEF TtyInv, TypeOK, OthersKept

LEMMA OpensMaster ==
    ASSUME TtyInv, NEW d \in Fd, posix_openpt(d)
    PROVE  TtyInv'
<1>1. /\ pc["parent"] = "openpt" /\ Opened("parent", d, "master") /\ master' = d
      /\ Goto("parent", "grantpt") /\ UNCHANGED <<asked, name, fd, tmpfd, stdio, others, failed>>
      /\ UNCHANGED call
  BY DEF posix_openpt, asked
<1>2. /\ Holds(fds["parent"], name, {}, {}, {}, {}) /\ call \in {"openpty", "forkpty"}
      /\ stdio = 0 /\ name \in {"none", "slave", "theirs"} /\ {fd, tmpfd} \subseteq Fd \cup {-1}
  BY <1>1, Zenon DEF TtyInv, ParentInv, TypeOK
<1>3. /\ fds' \in [Process -> [Fd -> File]] /\ \A e \in others : fds'["parent"][e] = "other"
      /\ fds["parent"][d] = "none" /\ fds'["parent"] = [fds["parent"] EXCEPT ![d] = "master"]
      /\ fds["parent"] \in [Fd -> File]
  BY <1>1, ParentOpens, Zenon DEF File
<1>4. pc'["parent"] = "grantpt" /\ (ParentInv' => TtyInv')
  BY <1>1, <1>2, <1>3, Alone, ParentMoves
<1>5. Holds(fds'["parent"], name, {d}, {}, {}, {})
  BY <1>2, <1>3 DEF Holds, Is
<1> QED
  BY <1>1, <1>2, <1>4, <1>5 DEF ParentInv

LEMMA NamesSlave ==
    ASSUME TtyInv, ptsname \/ OtherPtsname
    PROVE  TtyInv'
<1>1. /\ pc["parent"] \in {"grantpt", "open"} /\ name' \in {"slave", "theirs"}
      /\ UNCHANGED <<fds, asked, master, fd, tmpfd, stdio, others, failed>> /\ UNCHANGED call
  BY DEF ptsname, OtherPtsname, asked
<1>2. Goto("parent", "open") \/ (UNCHANGED pc /\ pc["parent"] = "open")
  BY DEF ptsname, OtherPtsname
<1>3. /\ Holds(fds["parent"], name, {master}, {}, {}, {}) /\ call \in {"openpty", "forkpty"}
      /\ stdio = 0 /\ master \in Fd /\ {master, fd, tmpfd} \subseteq Fd \cup {-1}
  BY <1>1, Zenon DEF TtyInv, ParentInv, TypeOK
<1>4. pc'["parent"] = "open" /\ (ParentInv' => TtyInv')
  BY <1>1, <1>2, <1>3, Alone, ParentKeeps, ParentMoves
<1>5. Holds(fds'["parent"], name', {master}, {}, {}, {})
  BY <1>1, <1>3 DEF Holds, Is
<1> QED
  BY <1>1, <1>3, <1>4, <1>5 DEF ParentInv

LEMMA OpensSlave ==
    ASSUME TtyInv, NEW d \in Fd, OpenSlave(d)
    PROVE  TtyInv'
<1>1. /\ pc["parent"] = "open" /\ Opened("parent", d, name) /\ fd' = d
      /\ Goto("parent", IF call = "forkpty" THEN "fork" ELSE "returned")
      /\ UNCHANGED <<asked, master, name, tmpfd, stdio, others, failed>> /\ UNCHANGED call
  BY DEF OpenSlave, asked
<1>2. /\ Holds(fds["parent"], name, {master}, {}, {}, {}) /\ call \in {"openpty", "forkpty"}
      /\ stdio = 0 /\ master \in Fd /\ name \in {"slave", "theirs"} /\ tmpfd \in Fd \cup {-1}
  BY <1>1 DEF TtyInv, ParentInv, TypeOK
<1>3. /\ fds' \in [Process -> [Fd -> File]] /\ \A e \in others : fds'["parent"][e] = "other"
      /\ fds["parent"][d] = "none" /\ fds'["parent"] = [fds["parent"] EXCEPT ![d] = name]
      /\ fds["parent"] \in [Fd -> File]
  <2>1. PICK file \in File : file = name
    BY <1>2 DEF File
  <2> QED
    BY <1>1, <2>1, ParentOpens
<1>4. /\ pc'["parent"] = IF call = "forkpty" THEN "fork" ELSE "returned"
      /\ ParentInv' => TtyInv'
  BY <1>1, <1>2, <1>3, Alone, ParentMoves
<1>5. Holds(fds'["parent"], name, {master}, {d}, {}, {})
  BY <1>2, <1>3 DEF Holds, Is
<1> QED
  BY <1>1, <1>2, <1>4, <1>5 DEF ParentInv

(* Every failure of the parent leaves nothing of the call open. *)
LEMMA ParentFails ==
    ASSUME TtyInv, pc["child"] = "unborn", Failed("parent"), UNCHANGED <<asked, locals, others, failed>>,
           fds' \in [Process -> [Fd -> File]], \A e \in others : fds'["parent"][e] = "other",
           call = "login_tty" \/ Holds(fds'["parent"], name, {}, {}, {}, {})
    PROVE  TtyInv'
<1>1. /\ Goto("parent", "failed") /\ UNCHANGED <<call, master, name, fd, tmpfd, stdio>>
      /\ {master, fd, tmpfd} \subseteq Fd \cup {-1} /\ name \in {"none", "slave", "theirs"}
  BY DEF Failed, asked, locals, TtyInv, TypeOK
<1>2. pc'["parent"] = "failed" /\ (ParentInv' => TtyInv')
  BY <1>1, ParentMoves
<1> QED
  BY <1>1, <1>2 DEF ParentInv, LoginInv

LEMMA OpenptyFails ==
    ASSUME TtyInv, openpty_fails
    PROVE  TtyInv'
<1>1. Failed("parent") /\ UNCHANGED <<asked, locals, others, failed>>
  BY DEF openpty_fails
<1>2. CASE pc["parent"] = "openpt" /\ UNCHANGED fds
  <2>1. Holds(fds'["parent"], name, {}, {}, {}, {})
    BY <1>2 DEF TtyInv, ParentInv
  <2> QED
    BY <1>1, <1>2, <2>1, Alone, ParentKeeps, ParentFails
<1>3. CASE pc["parent"] \in {"grantpt", "open"} /\ Closed("parent", {master})
  <2>1. Holds(fds["parent"], name, {master}, {}, {}, {}) /\ master \in Fd
    BY <1>3, Zenon DEF TtyInv, ParentInv
  <2>2. /\ fds' \in [Process -> [Fd -> File]] /\ \A e \in others : fds'["parent"][e] = "other"
        /\ fds'["parent"] = [d \in Fd |-> IF d \in {master} THEN "none" ELSE fds["parent"][d]]
        /\ fds["parent"] \in [Fd -> File]
    <3>1. \A d \in {master} : fds["parent"][d] # "other"
      BY <2>1 DEF Holds, Is
    <3> QED
      BY <1>3, <2>1, <3>1, ParentCloses
  <2>3. Holds(fds'["parent"], name, {}, {}, {}, {})
    BY <2>1, <2>2 DEF Holds, Is
  <2> QED
    BY <1>1, <1>3, <2>2, <2>3, Alone, ParentFails
<1> QED
  BY <1>2, <1>3 DEF openpty_fails

LEMMA ForkFails ==
    ASSUME TtyInv, fork_fails
    PROVE  TtyInv'
<1>1. /\ Failed("parent") /\ UNCHANGED <<asked, locals, others, failed>> /\ pc["parent"] = "fork"
      /\ call \in {"forkpty", "daemon"}
  BY DEF fork_fails, TtyInv, ParentInv
<1>2. CASE call = "daemon"
  <2>1. Holds(fds'["parent"], name, {}, {}, {}, {}) /\ UNCHANGED fds
    BY <1>1, <1>2, Zenon DEF TtyInv, ParentInv, fork_fails
  <2> QED
    BY <1>1, <1>2, <2>1, Alone, ParentKeeps, ParentFails
<1>3. CASE call = "forkpty"
  <2>1. /\ Holds(fds["parent"], name, {master}, {fd}, {}, {}) /\ {master, fd} \subseteq Fd
        /\ Closed("parent", {master, fd})
    BY <1>1, <1>3 DEF TtyInv, ParentInv, fork_fails
  <2>2. /\ fds' \in [Process -> [Fd -> File]] /\ \A e \in others : fds'["parent"][e] = "other"
        /\ fds'["parent"] = [d \in Fd |-> IF d \in {master, fd} THEN "none" ELSE fds["parent"][d]]
        /\ fds["parent"] \in [Fd -> File]
    <3>1. \A d \in {master, fd} : fds["parent"][d] # "other"
      BY <2>1 DEF Holds, Is
    <3> QED
      BY <1>3, <2>1, <3>1, ParentCloses
  <2>3. Holds(fds'["parent"], name, {}, {}, {}, {})
    BY <2>1, <2>2 DEF Holds, Is
  <2> QED
    BY <1>1, <1>3, <2>2, <2>3, Alone, ParentFails
<1> QED
  BY <1>1, <1>2, <1>3

LEMMA Forks ==
    ASSUME TtyInv, fork
    PROVE  TtyInv'
<1> USE DEF Process
<1>1. /\ pc["parent"] = "fork" /\ fds' = [fds EXCEPT !["child"] = fds["parent"]]
      /\ pc' = IF call = "forkpty" THEN [parent |-> "close", child |-> "close"]
               ELSE [parent |-> "exited", child |-> "setsid"]
      /\ UNCHANGED <<asked, locals, others, failed>>
      /\ UNCHANGED <<call, master, name, fd, tmpfd, stdio>>
  BY DEF fork, asked, locals
<1>2. fds'["parent"] = fds["parent"] /\ fds'["child"] = fds["parent"] /\ fds' \in [Process -> [Fd -> File]]
  BY <1>1 DEF TtyInv, TypeOK
<1>3. /\ pc'["parent"] = (IF call = "forkpty" THEN "close" ELSE "exited") /\ DOMAIN pc' = Process
      /\ pc'["child"] = (IF call = "forkpty" THEN "close" ELSE "setsid")
  BY <1>1
<1>4. /\ stdio = 0 /\ call \in {"forkpty", "daemon"}
      /\ call = "forkpty" =>
            {master, fd} \subseteq Fd /\ Holds(fds["parent"], name, {master}, {fd}, {}, {})
      /\ call = "daemon" => Holds(fds["parent"], name, {}, {}, {}, {})
  BY <1>1, Zenon DEF TtyInv, ParentInv
<1>5. ParentInv'
  BY <1>1, <1>2, <1>3, <1>4, Zenon DEF ParentInv
<1>6. ChildInv'
  BY <1>1, <1>2, <1>3, <1>4 DEF ChildInv, LoginInv, DaemonInv
<1>7. OthersKept'
  BY <1>1, <1>2 DEF TtyInv, OthersKept
<1>8. TypeOK'
  BY <1>1, <1>2, <1>3 DEF TtyInv, TypeOK, asked
<1> QED
  BY <1>5, <1>6, <1>7, <1>8 DEF TtyInv

(* A step of the child, once there is one, does not concern the parent.    *)
LEMMA ChildMoves ==
    ASSUME TtyInv, pc["child"] # "unborn", NEW l,
           Goto("child", l) \/ (UNCHANGED pc /\ pc["child"] = l),
           fds' \in [Process -> [Fd -> File]], fds'["parent"] = fds["parent"],
           {fd', tmpfd'} \subseteq Fd \cup {-1}, stdio' \in 0..3, failed' \in BOOLEAN,
           UNCHANGED <<asked, master, name, others>>, call = "forkpty" => UNCHANGED fd
    PROVE  /\ pc'["child"] = l /\ pc'["parent"] = pc["parent"] /\ UNCHANGED call
           /\ ChildInv' => TtyInv'
<1>1. pc'["child"] = l /\ pc'["parent"] = pc["parent"] /\ DOMAIN pc' = Process
  BY DEF Goto, TtyInv, TypeOK, Process
<1>2. UNCHANGED call /\ call \in {"forkpty", "daemon"}
  BY Zenon DEF asked, TtyInv, ChildInv
<1>3. /\ call = "forkpty" => pc["parent"] \in {"close", "returned"}
      /\ call = "daemon" => pc["parent"] = "exited"
  BY Zenon DEF TtyInv, ChildInv
<1>4. CASE call = "forkpty"
  <2>1. ParentInv'
    BY <1>1, <1>2, <1>3, <1>4, Zenon DEF TtyInv, ParentInv
  <2> QED
    BY <1>1, <1>2, <2>1, Zenon DEF TtyInv, TypeOK, OthersKept, asked
<1>5. CASE call = "daemon"
  <2>1. ParentInv'
    BY <1>1, <1>2, <1>3, <1>5, Zenon DEF ParentInv
  <2> QED
    BY <1>1, <1>2, <2>1 DEF TtyInv, TypeOK, OthersKept, asked
<1> QED
  BY <1>2, <1>4, <1>5

LEMMA ForkptyCloses ==
    ASSUME TtyInv, NEW p \in Process, forkpty(p)
    PROVE  TtyInv'
<1> USE DEF Process
<1>1. /\ pc[p] = "close" /\ UNCHANGED <<asked, locals, others, failed>>
      /\ UNCHANGED <<call, flags, master, name, fd, tmpfd, stdio>>
  BY DEF forkpty, asked, locals
<1>2. CASE p = "child"
  <2>1. /\ Closed("child", {master}) /\ Goto("child", "setsid")
        /\ call = "forkpty" /\ master \in Fd /\ fd \in Fd /\ stdio = 0
        /\ pc["parent"] \in {"close", "returned"}
        /\ Holds(fds["child"], name, {master}, {fd}, {}, {})
    BY <1>1, <1>2, Zenon DEF forkpty, TtyInv, ChildInv
  <2>2. /\ fds' \in [Process -> [Fd -> File]] /\ fds'["parent"] = fds["parent"]
        /\ fds'["child"] = [d \in Fd |-> IF d \in {master} THEN "none" ELSE fds["child"][d]]
    BY <2>1, Closes DEF TtyInv
  <2>3. Holds(fds'["child"], name, {}, {fd}, {}, {})
    BY <2>1, <2>2 DEF Holds, Is
  <2>4. {fd, tmpfd} \subseteq Fd \cup {-1} /\ stdio \in 0..3 /\ failed \in BOOLEAN
    BY DEF TtyInv, TypeOK
  <2>5. pc'["child"] = "setsid" /\ pc'["parent"] = pc["parent"] /\ (ChildInv' => TtyInv')
    BY <1>1, <1>2, <2>1, <2>2, <2>4, ChildMoves
  <2>6. LoginInv("child")'
    BY <1>1, <2>1, <2>3, <2>5 DEF LoginInv
  <2> QED
    BY <1>1, <2>1, <2>5, <2>6 DEF ChildInv
<1>3. CASE p = "parent"
  <2>1. /\ Closed("parent", {fd}) /\ Goto("parent", "returned")
        /\ call = "forkpty" /\ master \in Fd /\ fd \in Fd
        /\ Holds(fds["parent"], name, {master}, {fd}, {}, {})
    BY <1>1, <1>3, Zenon DEF forkpty, TtyInv, ParentInv
  <2>2. /\ fds' \in [Process -> [Fd -> File]] /\ \A e \in others : fds'["parent"][e] = "other"
        /\ fds'["parent"] = [d \in Fd |-> IF d \in {fd} THEN "none" ELSE fds["parent"][d]]
        /\ fds'["child"] = fds["child"]
    <3>1. \A d \in {fd} : fds["parent"][d] # "other"
      BY <2>1 DEF Holds, Is
    <3> QED
      BY <2>1, <3>1, ParentCloses
  <2>3. Holds(fds'["parent"], name, {master}, {}, {}, {})
    BY <2>1, <2>2 DEF Holds, Is
  <2>4. pc'["parent"] = "returned" /\ pc'["child"] = pc["child"] /\ DOMAIN pc' = Process
    BY <2>1, Zenon DEF Goto, TtyInv, TypeOK
  <2>5. ParentInv'
    BY <1>1, <2>1, <2>3, <2>4, Zenon DEF ParentInv
  <2>6. ChildInv'
    BY <1>1, <2>1, <2>2, <2>4, Zenon DEF TtyInv, ChildInv, LoginInv
  <2>7. TypeOK' /\ OthersKept'
    BY <1>1, <2>2, <2>4, Zenon DEF TtyInv, TypeOK, OthersKept
  <2> QED
    BY <2>5, <2>6, <2>7, Zenon DEF TtyInv
<1> QED
  BY <1>2, <1>3

------------------------------------------------------------------------------
LoginPlace == {"setsid", "ttyname", "close tmpfd", "dup2"}

LEMMA LoginFacts ==
    ASSUME TtyInv, NEW p \in Process, pc[p] \in LoginPlace, call # "daemon"
    PROVE  /\ LoginInv(p) /\ fd \in Fd /\ fds[p] \in [Fd -> File]
           /\ p = "parent" => call = "login_tty" /\ pc["child"] = "unborn"
           /\ p = "child" => call = "forkpty" /\ pc["parent"] \in {"close", "returned"} /\ master \in Fd
BY Zenon DEF TtyInv, TypeOK, ParentInv, ChildInv, LoginInv, LoginPlace, Process

LEMMA LoginMoves ==
    ASSUME TtyInv, NEW p \in Process, pc[p] \in LoginPlace, call # "daemon",
           NEW l \in {"ttyname", "close tmpfd", "dup2", "returned", "failed", "exited"},
           Goto(p, l) \/ (UNCHANGED pc /\ pc[p] = l),
           fds' \in [Process -> [Fd -> File]], \A q \in Process : q # p => fds'[q] = fds[q],
           others' \subseteq others, p = "child" => others' = others,
           \A e \in others' : fds'["parent"][e] = "other",
           UNCHANGED <<asked, master, name, fd>>,
           tmpfd' \in Fd \cup {-1}, stdio' \in 0..3, failed' \in BOOLEAN,
           pc'[p] = l => LoginInv(p)'
    PROVE  TtyInv'
<1> USE DEF Process
<1>1. /\ fd \in Fd /\ UNCHANGED call
      /\ p = "parent" => call = "login_tty" /\ pc["child"] = "unborn"
      /\ p = "child" => call = "forkpty" /\ pc["parent"] \in {"close", "returned"} /\ master \in Fd
  BY LoginFacts, Zenon DEF asked
<1>2. pc'[p] = l /\ DOMAIN pc' = Process /\ \A q \in Process : q # p => pc'[q] = pc[q]
  BY Zenon DEF Goto, TtyInv, TypeOK
<1>3. TypeOK' /\ OthersKept'
  BY <1>2, ZenonT(60) DEF TtyInv, TypeOK, OthersKept, asked
<1>4. CASE p = "parent"
  <2>1. ChildInv'
    BY <1>1, <1>2, <1>4, Zenon DEF ChildInv
  <2>2. ParentInv'
    BY <1>1, <1>2, <1>4, Zenon DEF ParentInv
  <2> QED
    BY <1>3, <2>1, <2>2, Zenon DEF TtyInv
<1>5. CASE p = "child"
  <2>1. pc["child"] # "unborn" /\ fds'["parent"] = fds["parent"]
    BY <1>5, Zenon DEF LoginPlace
  <2>2. pc'["parent"] = pc["parent"] /\ (ChildInv' => TtyInv')
    <3>1. {fd', tmpfd'} \subseteq Fd \cup {-1}
      BY <1>1, Zenon
    <3> QED
      BY <1>1, <1>5, <2>1, <3>1, ChildMoves, Zenon
  <2>3. ChildInv'
    BY <1>1, <1>2, <1>5, <2>2, Zenon DEF ChildInv
  <2> QED
    BY <2>2, <2>3, Zenon
<1> QED
  BY <1>4, <1>5, Zenon

LEMMA LoginKeeps ==
    ASSUME TtyInv, UNCHANGED <<fds, others>>
    PROVE  /\ fds' \in [Process -> [Fd -> File]] /\ \A q \in Process : fds'[q] = fds[q]
           /\ others' \subseteq others /\ \A e \in others' : fds'["parent"][e] = "other"
           /\ tmpfd \in Fd \cup {-1} /\ stdio \in 0..3 /\ failed \in BOOLEAN
BY DEF TtyInv, TypeOK, OthersKept

(* setsid, or ttyname or the second open fails, or dup2 does.              *)
LEMMA LoginQuiet ==
    ASSUME TtyInv, NEW p \in Process, pc[p] \in LoginPlace, call # "daemon",
           \/ setsid(p) \/ ReopenFails(p) \/ dup2_fails(p)
    PROVE  TtyInv'
<1>1. /\ UNCHANGED <<fds, others>> /\ UNCHANGED <<asked, master, name, fd>>
      /\ UNCHANGED tmpfd /\ UNCHANGED stdio /\ failed' \in BOOLEAN
  <2>1. failed \in BOOLEAN
    BY DEF TtyInv, TypeOK
  <2> QED
    BY <2>1, Zenon DEF setsid, ReopenFails, dup2_fails, asked, locals
<1>2. LoginInv(p)
  BY LoginFacts
<1>3. CASE setsid(p)
  <2>1. Goto(p, "ttyname") /\ pc[p] = "setsid"
    BY <1>3, Zenon DEF setsid
  <2>2. pc'[p] = "ttyname" => LoginInv(p)'
    BY <1>1, <1>2, <2>1, Zenon DEF LoginInv
  <2> QED
    BY <1>1, <2>1, <2>2, LoginKeeps, LoginMoves, Zenon
<1>4. CASE ReopenFails(p)
  <2>1. Goto(p, "dup2") /\ pc[p] = "ttyname"
    BY <1>4, Zenon DEF ReopenFails
  <2>2. pc'[p] = "dup2" => LoginInv(p)'
    <3>1. Holds(fds[p], name, {}, {fd}, {}, {}) /\ stdio = 0 /\ fd \in Fd
      BY <1>2, <2>1 DEF LoginInv
    <3>2. {fd} \cup Redirected(0) = {fd}
      BY SMTT(60) DEF Redirected, Stdio
    <3> QED
      BY <1>1, <3>1, <3>2, Zenon DEF LoginInv
  <2> QED
    BY <1>1, <2>1, <2>2, LoginKeeps, LoginMoves, Zenon
<1>5. CASE dup2_fails(p)
  <2>1. PICK l \in {"failed", "exited"} : Goto(p, l)
    BY <1>5, Zenon DEF dup2_fails, Failed
  <2>2. pc'[p] = l => LoginInv(p)'
    BY <2>1, Zenon DEF LoginInv
  <2> QED
    BY <1>1, <2>1, <2>2, LoginKeeps, LoginMoves, Zenon
<1> QED
  BY <1>3, <1>4, <1>5

LEMMA LoginReopens ==
    ASSUME TtyInv, NEW p \in Process, call # "daemon", NEW d \in Fd, Reopen(p, d)
    PROVE  TtyInv'
<1> USE DEF Process
<1>1. /\ pc[p] = "ttyname" /\ Opened(p, d, fds[p][fd]) /\ tmpfd' = d /\ Goto(p, "close tmpfd")
      /\ UNCHANGED <<asked, master, name, fd, stdio, others, failed>>
  BY Zenon DEF Reopen
<1>2. /\ LoginInv(p) /\ fd \in Fd /\ fds[p] \in [Fd -> File]
      /\ p = "parent" => call = "login_tty" /\ pc["child"] = "unborn"
  BY <1>1, LoginFacts, Zenon DEF LoginPlace
<1>3. Holds(fds[p], name, {}, {fd}, {}, {}) /\ stdio = 0
  BY <1>1, <1>2, Zenon DEF LoginInv
<1>4. PICK file \in File : file = fds[p][fd]
  BY <1>2
<1>5. /\ fds[p][d] = "none" /\ fds' \in [Process -> [Fd -> File]]
      /\ fds'[p] = [fds[p] EXCEPT ![d] = file]
      /\ \A q \in Process : q # p => fds'[q] = fds[q]
  <2>1. Opened(p, d, file)
    BY <1>1, <1>4, Zenon
  <2> QED
    BY <2>1, Opens DEF TtyInv
<1>6. file = IF name = "theirs" THEN "theirs" ELSE "slave"
  BY <1>2, <1>3, <1>4 DEF Holds, Is
<1>7. d # fd /\ Holds(fds'[p], name, {}, {fd, d}, {}, {})
  BY <1>2, <1>3, <1>5, <1>6, ZenonT(60) DEF Holds, Is
<1>8. pc'[p] = "close tmpfd" => LoginInv(p)'
  BY <1>1, <1>2, <1>3, <1>7, Zenon DEF LoginInv
<1>9. \A e \in others' : fds'["parent"][e] = "other"
  BY <1>1, <1>5, ZenonT(60) DEF TtyInv, TypeOK, OthersKept
<1>10. failed' \in BOOLEAN /\ stdio' \in 0..3 /\ tmpfd' \in Fd \cup {-1} /\ pc[p] \in LoginPlace
  BY <1>1, Zenon DEF TtyInv, TypeOK, LoginPlace
<1> QED
  BY <1>1, <1>5, <1>8, <1>9, <1>10, LoginMoves, Zenon

LEMMA LoginClosesTmpfd ==
    ASSUME TtyInv, NEW p \in Process, call # "daemon", CloseTmpfd(p)
    PROVE  TtyInv'
<1> USE DEF Process
<1>1. /\ pc[p] = "close tmpfd" /\ Closed(p, {tmpfd}) /\ Goto(p, "dup2")
      /\ UNCHANGED <<asked, master, name, fd, tmpfd, stdio, others, failed>>
  BY Zenon DEF CloseTmpfd, locals
<1>2. LoginInv(p) /\ fd \in Fd /\ fds[p] \in [Fd -> File] /\ pc[p] \in LoginPlace
  BY <1>1, LoginFacts, Zenon DEF LoginPlace
<1>3. Holds(fds[p], name, {}, {fd, tmpfd}, {}, {}) /\ stdio = 0 /\ fd # tmpfd
  BY <1>1, <1>2, Zenon DEF LoginInv
<1>4. /\ fds' \in [Process -> [Fd -> File]]
      /\ fds'[p] = [d \in Fd |-> IF d \in {tmpfd} THEN "none" ELSE fds[p][d]]
      /\ \A q \in Process : q # p => fds'[q] = fds[q]
  BY <1>1, Closes, Zenon DEF TtyInv
<1>5. Holds(fds'[p], name, {}, {fd}, {}, {})
  BY <1>2, <1>3, <1>4, SMTT(60) DEF Holds, Is
<1>6. pc'[p] = "dup2" => LoginInv(p)'
  <2>1. {fd} \cup Redirected(0) = {fd}
    BY DEF Redirected, Stdio
  <2> QED
    BY <1>1, <1>2, <1>3, <1>5, <2>1, Zenon DEF LoginInv
<1>7. \A e \in others' : fds'["parent"][e] = "other"
  <2>1. \A e \in others : e \in Fd /\ fds["parent"][e] = "other"
    BY DEF TtyInv, TypeOK, OthersKept
  <2>2. tmpfd \in Fd => fds[p][tmpfd] \in {"slave", "theirs"}
    BY <1>3 DEF Holds, Is
  <2> QED
    BY <1>1, <1>4, <2>1, <2>2, ZenonT(60)
<1>8. failed' \in BOOLEAN /\ stdio' \in 0..3 /\ tmpfd' \in Fd \cup {-1}
  BY <1>1, Zenon DEF TtyInv, TypeOK
<1> QED
  BY <1>1, <1>2, <1>4, <1>6, <1>7, <1>8, LoginMoves, Zenon

LEMMA LoginDup2 ==
    ASSUME TerminalAssumption, TtyInv, NEW p \in Process, call # "daemon", dup2(p)
    PROVE  TtyInv'
<1> USE DEF Process
<1>1. /\ pc[p] = "dup2" /\ stdio \in Stdio /\ fds' = [fds EXCEPT ![p][stdio] = fds[p][fd]]
      /\ stdio' = stdio + 1 /\ others' = (IF p = "parent" THEN others \ {stdio} ELSE others)
      /\ UNCHANGED <<pc, asked, master, name, fd, tmpfd, failed>>
  BY DEF dup2
<1>2. LoginInv(p) /\ fd \in Fd /\ fds[p] \in [Fd -> File] /\ pc[p] \in LoginPlace
  BY <1>1, LoginFacts, Zenon DEF LoginPlace
<1>3. Holds(fds[p], name, {}, {fd} \cup Redirected(stdio), {}, {})
  BY <1>1, <1>2 DEF LoginInv
<1>4. PICK i \in Stdio : i = stdio
  BY <1>1
<1>5. i \in Fd
  BY DEF Stdio, Fd, TerminalAssumption
<1>6. /\ fds' \in [Process -> [Fd -> File]] /\ fds'[p] = [fds[p] EXCEPT ![i] = fds[p][fd]]
      /\ \A q \in Process : q # p => fds'[q] = fds[q]
  BY <1>1, <1>2, <1>4, <1>5 DEF TtyInv, TypeOK
<1>7. Redirected(stdio') = Redirected(stdio) \cup {i}
  BY <1>1, <1>4, SMTT(60) DEF Redirected, Stdio
<1>8. fds[p][fd] = IF name = "theirs" THEN "theirs" ELSE "slave"
  BY <1>2, <1>3, Zenon DEF Holds, Is
<1>9. Holds(fds'[p], name, {}, {fd} \cup Redirected(stdio'), {}, {})
  BY <1>2, <1>3, <1>5, <1>6, <1>7, <1>8, ZenonT(60) DEF Holds, Is
<1>10. pc'[p] = "dup2" => LoginInv(p)'
  BY <1>1, <1>2, <1>9, Zenon DEF LoginInv
<1>11. \A e \in others' : fds'["parent"][e] = "other"
  BY <1>1, <1>4, <1>6 DEF TtyInv, TypeOK, OthersKept
<1>12. failed' \in BOOLEAN /\ stdio' \in 0..3 /\ tmpfd' \in Fd \cup {-1}
  BY <1>1 DEF TtyInv, TypeOK, Stdio
<1> QED
  BY <1>1, <1>2, <1>6, <1>10, <1>11, <1>12, LoginMoves, Zenon

LEMMA LoginCloses ==
    ASSUME TerminalAssumption, TtyInv, NEW p \in Process, call # "daemon", CloseFd(p)
    PROVE  TtyInv'
<1> USE DEF Process
<1>1. /\ pc[p] = "dup2" /\ stdio \notin Stdio /\ Goto(p, "returned")
      /\ UNCHANGED <<asked, master, name, fd, tmpfd, stdio, others, failed>>
  BY DEF CloseFd, locals
<1>2. LoginInv(p) /\ fd \in Fd /\ fds[p] \in [Fd -> File] /\ pc[p] \in LoginPlace
  BY <1>1, LoginFacts, Zenon DEF LoginPlace
<1>3. Redirected(stdio) = Stdio /\ Stdio \subseteq Fd
  BY <1>1, SMTT(60) DEF Redirected, Stdio, TtyInv, TypeOK, Fd, TerminalAssumption
<1>4. Holds(fds[p], name, {}, {fd} \cup Stdio, {}, {})
  BY <1>1, <1>2, <1>3 DEF LoginInv
<1>5. failed' \in BOOLEAN /\ stdio' \in 0..3 /\ tmpfd' \in Fd \cup {-1}
  BY <1>1 DEF TtyInv, TypeOK
<1>6. CASE fd > 2
  <2>1. /\ fds' \in [Process -> [Fd -> File]]
        /\ fds'[p] = [d \in Fd |-> IF d \in {fd} THEN "none" ELSE fds[p][d]]
        /\ \A q \in Process : q # p => fds'[q] = fds[q]
    BY <1>6, Closes DEF TtyInv, CloseFd
  <2>2. fd \notin Stdio
    BY <1>6, SMTT(60) DEF Stdio
  <2>3. Holds(fds'[p], name, {}, Stdio, {}, {})
    BY <1>2, <1>4, <2>1, <2>2, ZenonT(60) DEF Holds, Is
  <2>4. pc'[p] = "returned" => LoginInv(p)'
    BY <1>1, <2>3, Zenon DEF LoginInv
  <2>5. \A e \in others' : fds'["parent"][e] = "other"
    <3>1. \A e \in others : e \in Fd /\ fds["parent"][e] = "other"
      BY DEF TtyInv, TypeOK, OthersKept
    <3>2. fds[p][fd] \in {"slave", "theirs"}
      BY <1>2, <1>4, Zenon DEF Holds, Is
    <3> QED
      BY <1>1, <2>1, <3>1, <3>2
  <2> QED
    BY <1>1, <1>2, <1>5, <2>1, <2>4, <2>5, LoginMoves, Zenon
<1>7. CASE ~(fd > 2)
  <2>1. UNCHANGED fds /\ {fd} \cup Stdio = Stdio
    BY <1>2, <1>7, SMTT(60) DEF CloseFd, Stdio, Fd, TerminalAssumption
  <2>2. pc'[p] = "returned" => LoginInv(p)'
    BY <1>1, <1>4, <2>1 DEF LoginInv
  <2> QED
    BY <1>1, <1>2, <1>5, <2>1, <2>2, LoginKeeps, LoginMoves, Zenon
<1> QED
  BY <1>6, <1>7

LEMMA SetsidFails ==
    ASSUME TtyInv, setsid_fails
    PROVE  TtyInv'
<1>1. /\ Failed("parent") /\ UNCHANGED <<asked, locals, others, failed>> /\ UNCHANGED fds
      /\ pc["parent"] = "setsid" /\ call = "login_tty"
  BY Zenon DEF setsid_fails, TtyInv, ParentInv
<1> QED
  BY <1>1, Alone, ParentKeeps, ParentFails

------------------------------------------------------------------------------
LEMMA DaemonMoves ==
    ASSUME TtyInv, pc["child"] \in {"setsid", "null", "dup2"}, call = "daemon",
           NEW l \in {"null", "dup2", "returned"},
           Goto("child", l) \/ (UNCHANGED pc /\ pc["child"] = l),
           fds' \in [Process -> [Fd -> File]], fds'["parent"] = fds["parent"],
           fd' \in Fd \cup {-1}, stdio' \in 0..3, failed' \in BOOLEAN,
           UNCHANGED <<asked, master, name, tmpfd, others>>,
           pc'["child"] = l => DaemonInv'
    PROVE  TtyInv'
<1>1. {fd', tmpfd'} \subseteq Fd \cup {-1} /\ pc["parent"] = "exited"
  BY Zenon DEF TtyInv, TypeOK, ChildInv
<1>2. pc'["child"] = l /\ pc'["parent"] = pc["parent"] /\ UNCHANGED call /\ (ChildInv' => TtyInv')
  BY <1>1, ChildMoves, Zenon
<1> QED
  BY <1>1, <1>2, Zenon DEF ChildInv

LEMMA DaemonFacts ==
    ASSUME TtyInv
    PROVE  /\ fds \in [Process -> [Fd -> File]] /\ fds["child"] \in [Fd -> File] /\ fd \in Fd \cup {-1}
           /\ stdio \in 0..3 /\ failed \in BOOLEAN
           /\ call = "daemon" /\ pc["child"] # "unborn" => DaemonInv
           /\ pc["child"] = "null" => call = "daemon"
           /\ call = "daemon" => pc["parent"] \notin {"setsid", "dup2", "ttyname", "close tmpfd"}
           /\ call = "daemon" => pc["child"] \notin {"ttyname", "close tmpfd"}
BY Zenon DEF TtyInv, TypeOK, ChildInv, ParentInv, Process

LEMMA DaemonSetsid ==
    ASSUME TtyInv, call = "daemon", setsid("child")
    PROVE  TtyInv'
<1>1. /\ pc["child"] = "setsid" /\ UNCHANGED <<fds, fd, stdio, failed>>
      /\ Goto("child", IF "close" \in flags THEN "null" ELSE "returned")
      /\ UNCHANGED <<asked, master, name, tmpfd, others>>
  BY DEF setsid, locals
<1>2. PICK l \in {"null", "returned"} : Goto("child", l)
  BY <1>1
<1>3. stdio = 0 /\ Holds(fds["child"], name, {}, {}, {}, {})
  BY <1>1, DaemonFacts, Zenon DEF DaemonInv
<1>4. pc'["child"] = l => DaemonInv'
  BY <1>1, <1>3, Zenon DEF DaemonInv, Holds, Is
<1> QED
  BY <1>1, <1>2, <1>4, DaemonFacts, DaemonMoves, Zenon

LEMMA DaemonOpensNull ==
    ASSUME TtyInv, NEW d \in Fd, OpenNull(d)
    PROVE  TtyInv'
<1>1. /\ pc["child"] = "null" /\ Opened("child", d, "null") /\ fd' = d /\ Goto("child", "dup2")
      /\ UNCHANGED <<asked, master, name, tmpfd, others>> /\ UNCHANGED <<stdio, failed>>
  BY DEF OpenNull
<1>2. stdio = 0 /\ Holds(fds["child"], name, {}, {}, {}, {}) /\ call = "daemon"
  BY <1>1, DaemonFacts, Zenon DEF DaemonInv
<1>3. /\ fds["child"][d] = "none" /\ fds' \in [Process -> [Fd -> File]]
      /\ fds'["child"] = [fds["child"] EXCEPT ![d] = "null"] /\ fds'["parent"] = fds["parent"]
  BY <1>1, Opens, Zenon DEF TtyInv, Process, File
<1>4. Is(fds'["child"], "null", {d})
  BY <1>2, <1>3, DaemonFacts, Zenon DEF Holds, Is
<1>5. Redirected(0) = {}
  BY SMTT(60) DEF Redirected, Stdio
<1>6. pc'["child"] = "dup2" => DaemonInv'
  BY <1>1, <1>2, <1>4, <1>5, Zenon DEF DaemonInv, Is
<1> QED
  BY <1>1, <1>2, <1>3, <1>6, DaemonFacts, DaemonMoves, Zenon

LEMMA DaemonNullFails ==
    ASSUME TtyInv, OpenNullFails
    PROVE  TtyInv'
<1>1. /\ pc["child"] = "null" /\ UNCHANGED <<fds, fd, stdio, failed>> /\ Goto("child", "returned")
      /\ UNCHANGED <<asked, master, name, tmpfd, others>>
  BY DEF OpenNullFails, locals
<1>2. Holds(fds["child"], name, {}, {}, {}, {}) /\ call = "daemon"
  BY <1>1, DaemonFacts, Zenon DEF DaemonInv
<1>3. pc'["child"] = "returned" => DaemonInv'
  BY <1>1, <1>2, Zenon DEF DaemonInv, Holds, Is
<1> QED
  BY <1>1, <1>2, <1>3, DaemonFacts, DaemonMoves, Zenon

LEMMA DaemonDup2 ==
    ASSUME TerminalAssumption, TtyInv, call = "daemon", dup2("child")
    PROVE  TtyInv'
<1> USE DEF Process
<1>1. /\ pc["child"] = "dup2" /\ stdio \in Stdio
      /\ fds' = [fds EXCEPT !["child"][stdio] = fds["child"][fd]] /\ stdio' = stdio + 1
      /\ UNCHANGED <<pc, fd, failed>> /\ UNCHANGED <<asked, master, name, tmpfd, others>>
  BY DEF dup2
<1>2. /\ fd \in Fd /\ \A d \in Fd : fds["child"][d] = "null" => d = fd \/ d \in Stdio
      /\ fds["child"][fd] = "null"
      /\ failed \/ \A d \in Redirected(stdio) : fds["child"][d] = "null"
  BY <1>1, DaemonFacts, Zenon DEF DaemonInv
<1>3. PICK i \in Stdio : i = stdio
  BY <1>1
<1>4. i \in Fd /\ Stdio \subseteq Fd
  BY DEF Stdio, Fd, TerminalAssumption
<1>5. /\ fds' \in [Process -> [Fd -> File]] /\ fds'["child"] = [fds["child"] EXCEPT ![i] = "null"]
      /\ fds'["parent"] = fds["parent"]
  BY <1>1, <1>2, <1>3, <1>4, DaemonFacts, Zenon DEF File
<1>6. Redirected(stdio') = Redirected(stdio) \cup {i} /\ Redirected(stdio) \subseteq Fd
  BY <1>1, <1>3, <1>4 DEF Redirected, Stdio
<1>7. /\ \A d \in Fd : fds'["child"][d] = "null" => d = fd \/ d \in Stdio
      /\ fds'["child"][fd] = "null"
      /\ failed \/ \A d \in Redirected(stdio') : fds'["child"][d] = "null"
  BY <1>2, <1>4, <1>5, <1>6, DaemonFacts, ZenonT(60)
<1>8. pc'["child"] = "dup2" => DaemonInv'
  BY <1>1, <1>2, <1>7 DEF DaemonInv
<1>9. stdio' \in 0..3
  BY <1>1 DEF Stdio
<1> QED
  BY <1>1, <1>5, <1>8, <1>9, DaemonFacts, DaemonMoves, Zenon

LEMMA DaemonDup2Fails ==
    ASSUME TtyInv, call = "daemon", dup2_fails("child")
    PROVE  TtyInv'
<1>1. /\ pc["child"] = "dup2" /\ stdio \in Stdio /\ failed' = TRUE /\ stdio' = stdio + 1
      /\ UNCHANGED <<pc, fds, fd>> /\ UNCHANGED <<asked, master, name, tmpfd, others>>
  BY Zenon DEF dup2_fails
<1>2. pc'["child"] = "dup2" => DaemonInv'
  BY <1>1, DaemonFacts, Zenon DEF DaemonInv
<1>3. stdio' \in 0..3
  BY <1>1 DEF Stdio
<1>4. failed' \in BOOLEAN
  BY <1>1
<1> QED
  BY <1>1, <1>2, <1>3, <1>4, DaemonFacts, DaemonMoves, Zenon

LEMMA DaemonCloses ==
    ASSUME TerminalAssumption, TtyInv, call = "daemon", CloseFd("child")
    PROVE  TtyInv'
<1> USE DEF Process
<1>1. /\ pc["child"] = "dup2" /\ stdio \notin Stdio /\ UNCHANGED <<fd, stdio, failed>>
      /\ Goto("child", "returned") /\ UNCHANGED <<asked, master, name, tmpfd, others>>
  BY DEF CloseFd, locals
<1>2. Redirected(stdio) = Stdio /\ Stdio \subseteq Fd
  <2>1. stdio \in 0..3
    BY DaemonFacts, Zenon
  <2> QED
    BY <1>1, <2>1 DEF Redirected, Stdio, Fd, TerminalAssumption
<1>3. /\ fd \in Fd /\ \A d \in Fd : fds["child"][d] = "null" => d = fd \/ d \in Stdio
      /\ failed \/ \A d \in Stdio : fds["child"][d] = "null"
  BY <1>1, <1>2, DaemonFacts, Zenon DEF DaemonInv
<1>4. fd > 2 \/ fd \in Stdio
  BY <1>3 DEF Stdio, Fd, TerminalAssumption
<1>5. /\ fds' \in [Process -> [Fd -> File]] /\ fds'["parent"] = fds["parent"]
      /\ \A d \in Fd : fds'["child"][d] = "null" => d \in Stdio
      /\ failed \/ \A d \in Stdio : fds'["child"][d] = "null"
  <2>1. CASE fd > 2
    <3>1. fd \notin Stdio
      BY <2>1 DEF Stdio
    <3>2. /\ fds' \in [Process -> [Fd -> File]] /\ fds'["parent"] = fds["parent"]
          /\ fds'["child"] = [d \in Fd |-> IF d \in {fd} THEN "none" ELSE fds["child"][d]]
      BY <2>1, Closes DEF TtyInv, CloseFd
    <3> QED
      BY <1>2, <1>3, <3>1, <3>2
  <2>2. CASE ~(fd > 2)
    BY <1>2, <1>3, <1>4, <2>2, DaemonFacts, Zenon DEF CloseFd
  <2> QED
    BY <2>1, <2>2
<1>6. pc'["child"] = "returned" => DaemonInv'
  BY <1>1, <1>2, <1>5, Zenon DEF DaemonInv, Is
<1> QED
  BY <1>1, <1>5, <1>6, DaemonFacts, DaemonMoves, Zenon

------------------------------------------------------------------------------
LEMMA Accepts ==
    ASSUME TtyInv, NEW d \in Fd, accept(d)
    PROVE  TtyInv'
<1>1. /\ pc["parent"] = "accept" /\ Opened("parent", d, "socket") /\ fd' = d
      /\ Goto("parent", "cloexec") /\ UNCHANGED <<asked, stdio, others, failed>>
      /\ UNCHANGED <<call, master, name, tmpfd>>
  BY Zenon DEF accept, asked
<1>2. /\ Holds(fds["parent"], name, {}, {}, {}, {}) /\ call = "accept4"
      /\ name \in {"none", "slave", "theirs"} /\ {master, tmpfd} \subseteq Fd \cup {-1}
  BY <1>1, Zenon DEF TtyInv, ParentInv, TypeOK
<1>3. /\ fds' \in [Process -> [Fd -> File]] /\ \A e \in others : fds'["parent"][e] = "other"
      /\ fds["parent"][d] = "none" /\ fds'["parent"] = [fds["parent"] EXCEPT ![d] = "socket"]
      /\ fds["parent"] \in [Fd -> File]
  BY <1>1, ParentOpens, Zenon DEF File
<1>4. pc'["parent"] = "cloexec" /\ (ParentInv' => TtyInv')
  BY <1>1, <1>2, <1>3, Alone, ParentMoves, ZenonT(60)
<1>5. Holds(fds'["parent"], name, {}, {}, {}, {d})
  BY <1>2, <1>3 DEF Holds, Is
<1> QED
  BY <1>1, <1>2, <1>4, <1>5 DEF ParentInv

LEMMA AcceptFails ==
    ASSUME TtyInv, accept_fails
    PROVE  TtyInv'
<1>1. /\ Failed("parent") /\ UNCHANGED <<asked, locals, others, failed>> /\ UNCHANGED fds
      /\ pc["parent"] = "accept" /\ Holds(fds["parent"], name, {}, {}, {}, {})
  BY Zenon DEF accept_fails, TtyInv, ParentInv
<1> QED
  BY <1>1, Alone, ParentKeeps, ParentFails, Zenon

LEMMA FcntlDone ==
    ASSUME TtyInv, fcntl
    PROVE  TtyInv'
<1>1. /\ pc["parent"] \in {"cloexec", "nonblock"} /\ UNCHANGED <<asked, stdio, others, failed>>
      /\ UNCHANGED <<fds, call, master, name, fd, tmpfd>>
  BY DEF fcntl, asked, locals
<1>2. PICK l \in {"nonblock", "returned"} : Goto("parent", l)
  BY Zenon DEF fcntl
<1>3. /\ Holds(fds["parent"], name, {}, {}, {}, {fd}) /\ call = "accept4" /\ fd \in Fd
      /\ name \in {"none", "slave", "theirs"} /\ {master, fd, tmpfd} \subseteq Fd \cup {-1}
  BY <1>1, Zenon DEF TtyInv, ParentInv, TypeOK
<1>4. pc'["parent"] = l /\ (ParentInv' => TtyInv')
  BY <1>1, <1>2, <1>3, Alone, ParentKeeps, ParentMoves, Zenon
<1> QED
  BY <1>1, <1>2, <1>3, <1>4, Zenon DEF ParentInv

LEMMA FcntlFails ==
    ASSUME TtyInv, fcntl_fails
    PROVE  TtyInv'
<1>1. /\ Failed("parent") /\ UNCHANGED <<asked, locals, others, failed>>
      /\ pc["parent"] \in {"cloexec", "nonblock"} /\ Closed("parent", {fd})
  BY Zenon DEF fcntl_fails
<1>2. Holds(fds["parent"], name, {}, {}, {}, {fd}) /\ fd \in Fd
  BY <1>1, Zenon DEF TtyInv, ParentInv
<1>3. /\ fds' \in [Process -> [Fd -> File]] /\ \A e \in others : fds'["parent"][e] = "other"
      /\ fds'["parent"] = [d \in Fd |-> IF d \in {fd} THEN "none" ELSE fds["parent"][d]]
      /\ fds["parent"] \in [Fd -> File]
  <2>1. \A d \in {fd} : fds["parent"][d] # "other"
    BY <1>2, Zenon DEF Holds, Is
  <2> QED
    BY <1>1, <1>2, <2>1, ParentCloses
<1>4. Holds(fds'["parent"], name, {}, {}, {}, {})
  BY <1>2, <1>3, Zenon DEF Holds, Is
<1> QED
  BY <1>1, <1>3, <1>4, Alone, ParentFails

------------------------------------------------------------------------------
LEMMA TtyNext ==
    ASSUME TerminalAssumption, TtyInv, [Next]_vars
    PROVE  TtyInv'
<1>1. CASE \E f \in Function :
          \/ f = "daemon" /\ \E fl \in SUBSET {"close"} : Call(f, fl)
          \/ f = "accept4" /\ \E fl \in SUBSET {"cloexec", "nonblock"} : Call(f, fl)
          \/ f \notin {"daemon", "accept4"} /\ Call(f, {})
  <2>1. PICK f \in Function, fl \in SUBSET {"close", "cloexec", "nonblock"} : Call(f, fl)
    BY <1>1
  <2> QED
    BY <2>1, Calls
<1>2. ASSUME NEW d \in Fd, NEW p \in Process, Reopen(p, d)
      PROVE  TtyInv'
  <2>1. call # "daemon"
    BY <1>2, DaemonFacts, Zenon DEF Reopen, Process
  <2> QED
    BY <1>2, <2>1, LoginReopens
<1>3. ASSUME NEW d \in Fd, OtherOpens(d) \/ OtherCloses(d) \/ posix_openpt(d) \/ OpenSlave(d)
                           \/ OpenNull(d) \/ accept(d)
      PROVE  TtyInv'
  BY <1>3, OtherStep, OpensMaster, OpensSlave, DaemonOpensNull, Accepts
<1>4. CASE ptsname \/ OtherPtsname \/ openpty_fails \/ fork \/ fork_fails
           \/ setsid_fails \/ OpenNullFails \/ accept_fails \/ fcntl \/ fcntl_fails
  BY <1>4, NamesSlave, OpenptyFails, Forks, ForkFails, SetsidFails, DaemonNullFails,
     AcceptFails, FcntlDone, FcntlFails
<1>5. ASSUME NEW p \in Process,
             setsid(p) \/ CloseTmpfd(p) \/ ReopenFails(p) \/ dup2(p) \/ dup2_fails(p) \/ CloseFd(p)
      PROVE  TtyInv'
  <2>1. pc[p] \in LoginPlace
    BY <1>5, Zenon DEF setsid, CloseTmpfd, ReopenFails, dup2, dup2_fails, CloseFd, LoginPlace
  <2>2. CASE call # "daemon"
    BY <1>5, <2>1, <2>2, LoginQuiet, LoginClosesTmpfd, LoginDup2, LoginCloses
  <2>3. CASE call = "daemon"
    <3>1. p = "child" /\ pc["child"] \notin {"ttyname", "close tmpfd"}
      BY <2>1, <2>3, DaemonFacts, Zenon DEF LoginPlace, Process
    <3>2. setsid("child") \/ dup2("child") \/ dup2_fails("child") \/ CloseFd("child")
      BY <1>5, <3>1, Zenon DEF CloseTmpfd, ReopenFails
    <3> QED
      BY <2>3, <3>2, DaemonSetsid, DaemonDup2, DaemonDup2Fails, DaemonCloses
  <2> QED
    BY <2>2, <2>3
<1>6. CASE UNCHANGED vars
  <2>1. UNCHANGED <<fds, pc, call, flags, master, name, fd, tmpfd, stdio, others, failed>>
    BY <1>6, Zenon DEF vars, asked, locals
  <2>2. LoginInv("parent")' = LoginInv("parent") /\ LoginInv("child")' = LoginInv("child")
    BY <2>1, Zenon DEF LoginInv
  <2>3. DaemonInv' = DaemonInv
    BY <2>1, Zenon DEF DaemonInv
  <2>4. TypeOK' /\ OthersKept'
    BY <2>1, Zenon DEF TtyInv, TypeOK, OthersKept
  <2>5. ParentInv'
    BY <2>1, <2>2, Zenon DEF TtyInv, ParentInv
  <2>6. ChildInv'
    BY <2>1, <2>2, <2>3, Zenon DEF TtyInv, ChildInv
  <2> QED
    BY <2>4, <2>5, <2>6 DEF TtyInv
<1> QED
  BY <1>1, <1>2, <1>3, <1>4, <1>5, <1>6, ForkptyCloses DEF Next

(* What the slave side of the terminal is called. *)
SlaveFile == IF name = "theirs" THEN "theirs" ELSE "slave"

LEMMA HoldsMeans ==
    ASSUME NEW p, NEW m, NEW s, NEW n, NEW k, m \subseteq Fd, s \subseteq Fd,
           Holds(fds[p], name, m, s, n, k)
    PROVE  /\ Holding(p, "master") = m
           /\ Holding(p, SlaveFile) = s
BY ZenonT(60) DEF Holds, Is, Holding, SlaveFile

LEMMA TtyFacts ==
    ASSUME TtyInv, TerminalAssumption
    PROVE  TypeOK /\ NothingLeft /\ OthersKept /\ Terminals
<1> USE DEF Process
<1>1. Stdio \subseteq Fd
  BY SMTT(60) DEF Stdio, Fd, TerminalAssumption
<1>2. NothingLeft
  BY Zenon DEF TtyInv, ParentInv, NothingLeft, Holding, Holds, Is
<1>4. ASSUME NEW p \in Process, pc[p] = "returned",
             call = "login_tty" \/ (call = "forkpty" /\ p = "child")
      PROVE  Holding(p, SlaveFile) = Stdio /\ Holding(p, "master") = {}
  <2>1. Holds(fds[p], name, {}, Stdio, {}, {})
    BY <1>4, Zenon DEF TtyInv, ParentInv, ChildInv, LoginInv
  <2> QED
    BY <1>1, <2>1, HoldsMeans
<1>5. ASSUME pc["parent"] = "returned", call \in {"openpty", "forkpty"}
      PROVE  /\ Holding("parent", "master") = {master}
             /\ Holding("parent", SlaveFile) = IF call = "openpty" THEN {fd} ELSE {}
  <2>1. PICK s : s = IF call = "openpty" THEN {fd} ELSE {}
    OBVIOUS
  <2>2. Holds(fds["parent"], name, {master}, s, {}, {}) /\ {master} \subseteq Fd /\ s \subseteq Fd
    BY <1>5, <2>1, Zenon DEF TtyInv, ParentInv
  <2> QED
    BY <2>1, <2>2, HoldsMeans, Zenon
<1>6. ASSUME NEW p \in Process, pc[p] = "returned", call = "daemon", Holding(p, "null") # {}
      PROVE  IF failed THEN Holding(p, "null") \subseteq Stdio ELSE Holding(p, "null") = Stdio
  <2>1. p = "child" /\ DaemonInv
    BY <1>6, Zenon DEF TtyInv, ParentInv, ChildInv
  <2> QED
    BY <1>1, <1>6, <2>1 DEF DaemonInv, Holding, Is
<1>7. Terminals
  BY <1>4, <1>5, <1>6, Zenon DEF Terminals, SlaveFile
<1> QED
  BY <1>2, <1>7 DEF TtyInv

------------------------------------------------------------------------------
(* posix_spawn of src/process.c. *)
CONSTANT NULL

VARIABLES open, cloexec, status, spawn_pc, make, todo, attr, actions, spawn, forked, program

P == INSTANCE Spawn WITH pc <- spawn_pc

Asked(flag) == IF flag \in make.flags THEN make.fds ELSE {}

(* The maker: what it has yet to set is missing from what is set, and      *)
(* nothing else.                                                           *)
MakerInv ==
    /\ spawn_pc["maker"] \in {"user", "failed"} =>
          cloexec["parent"] = {} /\ status = {} /\ make.flags = {}
    /\ spawn_pc["maker"] \in {"fcntl", "returned"} =>
          /\ cloexec["parent"] = {d \in Asked("cloexec") : <<"cloexec", d>> \notin todo}
          /\ status = {d \in Asked("status") : <<"status", d>> \notin todo}
    /\ spawn_pc["maker"] = "fcntl" => todo \subseteq make.flags \X make.fds
    /\ spawn_pc["maker"] = "returned" => todo = {}

(* The child has what the parent had where the fork found the maker.       *)
SpawnedInv ==
    /\ spawn_pc["child"] = "unborn" => program = NULL
    /\ spawn_pc["child"] # "unborn" =>
          /\ spawn_pc["spawner"] = "returned"
          /\ forked \in {"user", "failed", "fcntl", "returned"}
          /\ forked # "user" => spawn_pc["maker"] \notin {"user"}
          /\ forked \in {"user", "failed"} => cloexec["child"] = {}
          /\ forked = "failed" => spawn_pc["maker"] = "failed"
          /\ forked \in {"fcntl", "returned"} =>
                spawn_pc["maker"] \in {"fcntl", "returned"} /\ cloexec["child"] \subseteq Asked("cloexec")
          /\ forked = "returned" => spawn_pc["maker"] = "returned" /\ cloexec["child"] = Asked("cloexec")
    /\ program # NULL =>
          /\ program.fds = open["child"] \ cloexec["child"]
          /\ program.environ = "environ" <=> spawn.fn = "posix_spawnp" /\ spawn.envp = NULL

SpawnInv ==
    /\ DOMAIN open = {"parent", "child"} /\ DOMAIN cloexec = {"parent", "child"}
    /\ DOMAIN spawn_pc = {"maker", "spawner", "child"}
    /\ spawn_pc["maker"] \in {"user", "failed", "fcntl", "returned"}
    /\ spawn.envp \in {NULL, "envp"}
    /\ MakerInv /\ SpawnedInv

LEMMA SpawnInit ==
    ASSUME P!Init
    PROVE  SpawnInv
<1>1. /\ spawn_pc = [maker |-> "user", spawner |-> "user", child |-> "unborn"] /\ program = NULL
      /\ cloexec["parent"] = {} /\ status = {} /\ make.flags = {} /\ spawn.envp = NULL
      /\ DOMAIN open = {"parent", "child"} /\ DOMAIN cloexec = {"parent", "child"}
  BY DEF P!Init
<1>2. DOMAIN spawn_pc = {"maker", "spawner", "child"}
  BY <1>1
<1>3. spawn_pc["maker"] = "user" /\ spawn_pc["child"] = "unborn"
  BY <1>1, Zenon
<1> QED
  BY <1>1, <1>2, <1>3, Zenon DEF SpawnInv, MakerInv, SpawnedInv

LEMMA SpawnMake ==
    ASSUME SpawnInv, NEW fn \in P!Maker, NEW fl \in SUBSET P!Flag, P!Make(fn, fl)
    PROVE  SpawnInv'
<1> USE DEF SpawnInv
<1>1. PICK s \in P!NewFds(fn) :
        /\ make' = [fn |-> fn, flags |-> fl, fds |-> s]
        /\ open' = [open EXCEPT !["parent"] = @ \cup s]
        /\ cloexec' = [cloexec EXCEPT !["parent"] = @ \ s]
        /\ todo' = P!Fcntls(fl, s)
  BY Zenon DEF P!Make
<1>2. /\ spawn_pc["maker"] = "user" /\ UNCHANGED <<status, attr, actions, spawn, forked, program>>
      /\ spawn_pc' = [spawn_pc EXCEPT !["maker"] = IF todo' = {} THEN "returned" ELSE "fcntl"]
  BY DEF P!Make
<1>3. /\ make'.flags = fl /\ make'.fds = s /\ cloexec'["parent"] = {} /\ cloexec'["child"] = cloexec["child"]
      /\ status' = {} /\ open'["child"] = open["child"] /\ todo' = fl \X s
  BY <1>1, <1>2 DEF MakerInv, P!Fcntls
<1>4. Asked("cloexec")' = (IF "cloexec" \in fl THEN s ELSE {}) /\ Asked("status")' = (IF "status" \in fl THEN s ELSE {})
  BY <1>3, Zenon DEF Asked
<1>5. MakerInv'
  <2>1. spawn_pc'["maker"] = IF todo' = {} THEN "returned" ELSE "fcntl"
    BY <1>2, Zenon
  <2>2. /\ {d \in Asked("cloexec")' : <<"cloexec", d>> \notin todo'} = {}
        /\ {d \in Asked("status")' : <<"status", d>> \notin todo'} = {}
    BY <1>3, <1>4, Zenon
  <2> QED
    BY <1>3, <2>1, <2>2, Zenon DEF MakerInv
<1>6. SpawnedInv'
  BY <1>2, <1>3, Zenon DEF SpawnedInv
<1> QED
  BY <1>1, <1>2, <1>5, <1>6, Zenon

LEMMA SpawnFcntl ==
    ASSUME SpawnInv, NEW f \in P!Flag, NEW d \in P!Fd, P!fcntl(f, d)
    PROVE  SpawnInv'
<1> USE DEF SpawnInv
<1>1. /\ spawn_pc["maker"] = "fcntl" /\ <<f, d>> \in todo /\ todo' = todo \ {<<f, d>>}
      /\ spawn_pc' = [spawn_pc EXCEPT !["maker"] = IF todo' = {} THEN "returned" ELSE "fcntl"]
      /\ UNCHANGED <<open, make, attr, actions, spawn, forked, program>>
  BY Zenon DEF P!fcntl
<1>2. Asked("cloexec")' = Asked("cloexec") /\ Asked("status")' = Asked("status")
  BY <1>1 DEF Asked
<1>3. todo \subseteq make.flags \X make.fds
  BY <1>1, Zenon DEF MakerInv
<1>4. f \in make.flags /\ d \in make.fds
  BY <1>1, <1>3
<1>5. spawn_pc'["maker"] = IF todo' = {} THEN "returned" ELSE "fcntl"
  BY <1>1, Zenon
<1>6. /\ cloexec'["parent"] = {x \in Asked("cloexec") : <<"cloexec", x>> \notin todo'}
      /\ status' = {x \in Asked("status") : <<"status", x>> \notin todo'}
      /\ cloexec'["child"] = cloexec["child"] /\ DOMAIN cloexec' = {"parent", "child"}
  <2>1. /\ cloexec["parent"] = {x \in Asked("cloexec") : <<"cloexec", x>> \notin todo}
        /\ status = {x \in Asked("status") : <<"status", x>> \notin todo}
    BY <1>1, Zenon DEF MakerInv
  <2>2. CASE f = "cloexec"
    <3>1. cloexec' = [cloexec EXCEPT !["parent"] = @ \cup {d}] /\ status' = status
      BY <2>2 DEF P!fcntl
    <3>2. d \in Asked("cloexec")
      BY <1>4, <2>2 DEF Asked
    <3>3. \A x : <<"cloexec", x>> \notin todo' <=> x = d \/ <<"cloexec", x>> \notin todo
      BY <1>1, <2>2
    <3>4. \A x : <<"status", x>> \notin todo' <=> <<"status", x>> \notin todo
      BY <1>1, <2>2, Zenon
    <3> QED
      BY <2>1, <3>1, <3>2, <3>3, <3>4, Zenon
  <2>3. CASE f = "status"
    <3>1. cloexec' = cloexec /\ status' = status \cup {d}
      BY <2>3 DEF P!fcntl
    <3>2. d \in Asked("status")
      BY <1>4, <2>3, Zenon DEF Asked
    <3>3. \A x : <<"status", x>> \notin todo' <=> x = d \/ <<"status", x>> \notin todo
      BY <1>1, <2>3
    <3>4. \A x : <<"cloexec", x>> \notin todo' <=> <<"cloexec", x>> \notin todo
      BY <1>1, <2>3, Zenon
    <3> QED
      BY <2>1, <3>1, <3>2, <3>3, <3>4, Zenon
  <2> QED
    BY <2>2, <2>3, Zenon DEF P!Flag
<1>7. MakerInv'
  BY <1>1, <1>2, <1>3, <1>5, <1>6, Zenon DEF MakerInv
<1>8. SpawnedInv'
  BY <1>1, <1>2, <1>5, <1>6, ZenonT(60) DEF SpawnedInv
<1> QED
  BY <1>1, <1>5, <1>6, <1>7, <1>8, Zenon

LEMMA SpawnFork ==
    ASSUME SpawnInv, NEW fn \in {"posix_spawn", "posix_spawnp"}, NEW envp \in {NULL, "envp"},
           P!fork(fn, envp)
    PROVE  SpawnInv'
<1> USE DEF SpawnInv
<1>1. /\ spawn_pc["spawner"] = "user" /\ UNCHANGED <<status, make, todo, attr, actions, program>>
      /\ spawn' = [fn |-> fn, envp |-> envp] /\ forked' = spawn_pc["maker"]
      /\ open' = [open EXCEPT !["child"] = open["parent"]]
      /\ cloexec' = [cloexec EXCEPT !["child"] = cloexec["parent"]]
      /\ spawn_pc' = [spawn_pc EXCEPT !["spawner"] = "returned", !["child"] = "exec"]
  BY Zenon DEF P!fork
<1>2. /\ spawn_pc'["maker"] = spawn_pc["maker"] /\ spawn_pc'["child"] = "exec" /\ spawn_pc'["spawner"] = "returned"
      /\ cloexec'["parent"] = cloexec["parent"] /\ cloexec'["child"] = cloexec["parent"]
  BY <1>1, Zenon
<1>3. Asked("cloexec")' = Asked("cloexec") /\ Asked("status")' = Asked("status")
  BY <1>1, Zenon DEF Asked
<1>4. MakerInv'
  BY <1>1, <1>2, <1>3, ZenonT(60) DEF MakerInv
<1>5. program = NULL
  BY <1>1, Zenon DEF SpawnedInv
<1>6. cloexec["parent"] \subseteq Asked("cloexec") \/ spawn_pc["maker"] \in {"user", "failed"}
  BY Zenon DEF MakerInv
<1>7. /\ spawn_pc["maker"] = "returned" => cloexec["parent"] = Asked("cloexec")
      /\ spawn_pc["maker"] \in {"user", "failed"} => cloexec["parent"] = {}
  BY Zenon DEF MakerInv
<1>8. SpawnedInv'
  BY <1>1, <1>2, <1>3, <1>5, <1>6, <1>7 DEF SpawnedInv
<1> QED
  BY <1>1, <1>2, <1>4, <1>8, Zenon

LEMMA SpawnExec ==
    ASSUME P!SpawnAssumption, SpawnInv, P!exec
    PROVE  SpawnInv'
<1> USE DEF SpawnInv
<1>1. /\ spawn_pc["child"] = "exec" /\ UNCHANGED <<open, cloexec, status, make, todo, attr, actions, spawn, forked>>
      /\ program' = [fds |-> open["child"] \ cloexec["child"], pgroup |-> NULL, environ |-> P!Environ]
      /\ spawn_pc' = [spawn_pc EXCEPT !["child"] = "running"]
  BY Zenon DEF P!exec, P!parent
<1>2. spawn_pc'["maker"] = spawn_pc["maker"] /\ spawn_pc'["child"] = "running" /\ spawn_pc'["spawner"] = spawn_pc["spawner"]
  BY <1>1
<1>3. P!Environ = "environ" <=> spawn.fn = "posix_spawnp" /\ spawn.envp = NULL
  BY Zenon DEF P!Environ, P!SpawnAssumption
<1>4. program'.fds = open["child"] \ cloexec["child"] /\ program'.environ = P!Environ
  BY <1>1, Zenon
<1>5. Asked("cloexec")' = Asked("cloexec") /\ Asked("status")' = Asked("status")
  BY <1>1, Zenon DEF Asked
<1>6. MakerInv'
  BY <1>1, <1>2, <1>5, ZenonT(60) DEF MakerInv
<1>7. SpawnedInv'
  BY <1>1, <1>2, <1>3, <1>4, <1>5, ZenonT(60) DEF SpawnedInv
<1> QED
  BY <1>1, <1>6, <1>7, Zenon

LEMMA SpawnNext ==
    ASSUME P!SpawnAssumption, SpawnInv, [P!Next]_(P!vars)
    PROVE  SpawnInv'
<1> USE DEF SpawnInv
<1>1. CASE P!MakeFails
  BY <1>1, Zenon DEF P!MakeFails, P!parent, MakerInv, SpawnedInv, Asked
<1>2. CASE P!fork_fails
  BY <1>2, Zenon DEF P!fork_fails, P!parent, MakerInv, SpawnedInv, Asked
<1>3. CASE P!exec_fails
  BY <1>3, ZenonT(60) DEF P!exec_fails, P!parent, MakerInv, SpawnedInv, Asked
<1>4. CASE UNCHANGED <<P!parent, spawn_pc, make, todo, spawn, forked, program>>
  BY <1>4 DEF P!parent, MakerInv, SpawnedInv, Asked
<1> HIDE DEF SpawnInv
<1>5. ASSUME NEW field, NEW value, P!posix_spawnattr_set(field, value)
      PROVE  SpawnInv'
  BY <1>4, <1>5 DEF P!posix_spawnattr_set
<1>6. ASSUME NEW action, P!posix_spawn_file_actions_add(action)
      PROVE  SpawnInv'
  BY <1>4, <1>6 DEF P!posix_spawn_file_actions_add
<1>7. CASE UNCHANGED P!vars
  BY <1>4, <1>7, Zenon DEF P!vars
<1> QED
  BY <1>1, <1>2, <1>3, <1>5, <1>6, <1>7, SpawnMake, SpawnFcntl, SpawnFork, SpawnExec, Zenon DEF P!Next

LEMMA SpawnFacts ==
    ASSUME SpawnInv
    PROVE  P!Inherits /\ P!FlagsSet
<1> USE DEF SpawnInv
<1>1. P!FlagsSet
  BY Zenon DEF MakerInv, P!FlagsSet, Asked
<1>2. ASSUME program # NULL
      PROVE  LET marked == IF "cloexec" \in make.flags /\ forked # "user" THEN make.fds ELSE {} IN
             /\ open["child"] \ marked \subseteq program.fds
             /\ forked # "fcntl" => program.fds \cap marked = {}
             /\ program.environ = "environ" <=> spawn.fn = "posix_spawnp" /\ spawn.envp = NULL
  <2>1. spawn_pc["child"] # "unborn"
    BY <1>2 DEF SpawnedInv
  <2> QED
    BY <1>2, <2>1 DEF SpawnedInv, MakerInv, Asked
<1> QED
  BY <1>1, <1>2, Zenon DEF P!Inherits
==============================================================================
