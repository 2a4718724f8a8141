-------------------------------- MODULE Files --------------------------------
(***************************************************************************)
(* src/filesystem.c: the functions that look at a file and then change it  *)
(* (posix_fallocate, futimens, utimensat, futimesat, utimes) while another *)
(* process writes to it; scandir, whose allocations may fail; and flock,   *)
(* which is made of the record locks of a process.                         *)
(***************************************************************************)
EXTENDS Integers, FiniteSets, SequencesExt

CONSTANTS
    MaxSize,       \* the largest file
    Entry,         \* the names a directory may have, as numbers in their order
    Allocated,     \* scandir's first allocation (32)
    Process,       \* the users of flock
    NULL

FilesAssumption == MaxSize \in Nat /\ Allocated \in Nat \ {0} /\ Entry \subseteq Nat

VARIABLES
    job, pc, ret,
    file,              \* the size and the times of the file
    before,            \* the same when the call was made
    st,                \* what fstat or stat has read
    raced,             \* whether the file was written to after that
    dir, list,         \* scandir: the entries to come, namelist
    allocated, live,   \* the room in it, and the blocks
    locks, fds, asked  \* flock: the record locks, the descriptors of the file
                       \* each process has, and what it asked for with which

fileVars == <<job, pc, ret, file, before, st, raced>>
scanVars == <<dir, list, allocated, live>>
lockVars == <<locks, fds, asked>>
vars == <<fileVars, scanVars, lockVars>>

Time == {"NOW", "OMIT", "t1"}

Jobs ==
    [fn : {"posix_fallocate"}, offset : -1..MaxSize, len : 0..MaxSize]
      \cup [fn : {"futimens", "utimensat"}, times : (Time \X Time) \cup {NULL}]
      \cup [fn : {"utimes", "futimesat"}, times : {<<"t1", "t1">>, NULL}]
      \cup [fn : {"scandir"}, entries : SUBSET Entry, filter : SUBSET Entry, compar : BOOLEAN] \cup [fn : {"flock"}]

Init ==
    /\ job \in Jobs /\ ret = NULL /\ raced = FALSE
    /\ pc = IF job.fn = "flock" THEN "flock" ELSE "call"
    /\ IF job.fn = "posix_fallocate" THEN \E n \in 0..MaxSize : file = [size |-> n, atime |-> "a", mtime |-> "m"]
       ELSE file = [size |-> 0, atime |-> "a", mtime |-> "m"]
    /\ before = file /\ st = file
    /\ dir = IF job.fn = "scandir" THEN job.entries ELSE {}
    /\ list = <<>> /\ allocated = 0 /\ live = {}
    /\ locks = [p \in Process |-> "none"] /\ fds = [p \in Process |-> {1, 2}]
    /\ asked = [p \in Process |-> NULL]

Returns(r) == pc' = "done" /\ ret' = r

(* Another process writes at the end of the file. *)
Write ==
    /\ job.fn \notin {"scandir", "flock"} /\ pc \notin {"call", "done"} /\ file.size < MaxSize
    /\ file' = [file EXCEPT !.size = @ + 1, !.mtime = "w"]
    /\ raced' = TRUE
    /\ UNCHANGED <<job, pc, ret, before, st, scanVars, lockVars>>

------------------------------------------------------------------------------
required_size == job.offset + job.len

posix_fallocate ==
    /\ pc = "call" /\ job.fn = "posix_fallocate"
    /\ IF job.offset < 0 \/ job.len <= 0 THEN Returns("EINVAL") /\ UNCHANGED st
       ELSE \/ Returns("errno") /\ UNCHANGED st
            \/ /\ st' = file
               /\ IF file.size >= required_size THEN Returns("ok") ELSE pc' = "ftruncate" /\ UNCHANGED ret
    /\ UNCHANGED <<job, file, before, raced, scanVars, lockVars>>

ftruncate ==
    /\ pc = "ftruncate"
    /\ \/ Returns("ok") /\ file' = [file EXCEPT !.size = required_size]
       \/ Returns("errno") /\ UNCHANGED file
    /\ UNCHANGED <<job, before, st, raced, scanVars, lockVars>>

------------------------------------------------------------------------------
(* These pass their times on, neither of which is to be omitted. *)
utimes ==
    /\ pc = "call" /\ job.fn = "utimes"
    /\ pc' = "utime"
    /\ UNCHANGED <<job, ret, file, before, st, raced, scanVars, lockVars>>

futimesat ==
    /\ pc = "call" /\ job.fn = "futimesat"
    /\ pc' = "utime"
    /\ UNCHANGED <<job, ret, file, before, st, raced, scanVars, lockVars>>

(* The times are computed from what is read now, if one is to be omitted. *)
futimens ==
    /\ pc = "call" /\ job.fn \in {"futimens", "utimensat"}
    /\ IF job.times # NULL /\ "OMIT" \in {job.times[1], job.times[2]}
       THEN (st' = file /\ pc' = "utime" /\ UNCHANGED ret) \/ (Returns("errno") /\ UNCHANGED st)
       ELSE pc' = "utime" /\ UNCHANGED <<ret, st>>
    /\ UNCHANGED <<job, file, before, raced, scanVars, lockVars>>

utime_of_no_old(t, old) == IF t = "NOW" THEN "now" ELSE t

utime_of(t, old) == CASE t = "NOW" -> "now" [] t = "OMIT" -> old [] OTHER -> t

(* futimens has two paths to try, and gives up with ENOTSUP. *)
utime ==
    /\ pc \in {"utime", "again"}
    /\ \/ /\ Returns("ok")
          /\ file' = IF job.times = NULL THEN [file EXCEPT !.atime = "now", !.mtime = "now"]
                     ELSE [file EXCEPT !.atime = utime_of(job.times[1], st.atime),
                                       !.mtime = utime_of(job.times[2], st.mtime)]
       \/ /\ IF job.fn # "futimens" THEN Returns("errno")
             ELSE IF pc = "utime" THEN pc' = "again" /\ UNCHANGED ret ELSE Returns("ENOTSUP")
          /\ UNCHANGED file
    /\ UNCHANGED <<job, before, st, raced, scanVars, lockVars>>

------------------------------------------------------------------------------
DIR == <<"DIR", 0>>
LIST == <<"list", 0>>
Entries(l) == {<<"dirent", l[i]>> : i \in DOMAIN l}

scandir ==
    /\ pc = "call" /\ job.fn = "scandir"
    /\ \/ Returns("error") /\ UNCHANGED <<allocated, live>>
       \/ pc' = "readdir" /\ allocated' = Allocated /\ live' = {DIR, LIST} /\ UNCHANGED ret
    /\ UNCHANGED <<job, file, before, st, raced, dir, list, lockVars>>

FailsKeepingEntries == Returns("error") /\ live' = live \ {LIST, DIR}

(* malloc or realloc fails: the entries, the list and the directory go. *)
ScanFails == Returns("error") /\ live' = live \ (Entries(list) \cup {LIST, DIR})

(* An entry that passes the filter; the list doubles when it is full. *)
readdir(e) ==
    /\ pc = "readdir" /\ e \in dir
    /\ dir' = dir \ {e}
    /\ IF e \notin job.filter THEN UNCHANGED <<pc, ret, list, allocated, live>>
       ELSE \/ /\ allocated' = IF Len(list) >= allocated THEN 2 * allocated ELSE allocated
               /\ list' = Append(list, e) /\ live' = live \cup {<<"dirent", e>>}
               /\ UNCHANGED <<pc, ret>>
            \/ ScanFails /\ UNCHANGED <<list, allocated>>
    /\ UNCHANGED <<job, file, before, st, raced, lockVars>>

ScanEnds ==
    /\ pc = "readdir" /\ dir = {}
    /\ Returns("ok") /\ live' = live \ {DIR}
    /\ list' = IF job.compar THEN SortSeq(list, <) ELSE list
    /\ UNCHANGED <<job, file, before, st, raced, dir, allocated, lockVars>>

------------------------------------------------------------------------------
(* fcntl grants a record lock of the whole file to a process. *)
Grants(p, type) ==
    \A q \in Process \ {p} : type = "none" \/ locks[q] = "none" \/ (type = "sh" /\ locks[q] = "sh")

(* A call that is not granted fails (LOCK_NB, EDEADLK) or waits. *)
flock(p, fd, type) ==
    /\ pc = "flock" /\ fd \in fds[p] /\ Grants(p, type)
    /\ locks' = [locks EXCEPT ![p] = type]
    /\ asked' = [asked EXCEPT ![p] = IF type = "none" THEN NULL ELSE [fd |-> fd, type |-> type]]
    /\ UNCHANGED <<fileVars, scanVars, fds>>

(* The close of any descriptor of the file gives up the process's locks. *)
close(p, fd) ==
    /\ pc = "flock" /\ fd \in fds[p]
    /\ fds' = [fds EXCEPT ![p] = @ \ {fd}]
    /\ locks' = [locks EXCEPT ![p] = "none"]
    /\ asked' = [asked EXCEPT ![p] = IF @ # NULL /\ @.fd = fd THEN NULL ELSE @]
    /\ UNCHANGED <<fileVars, scanVars>>

Next ==
    \/ posix_fallocate \/ ftruncate \/ utimes \/ futimesat \/ futimens \/ utime \/ Write
    \/ scandir \/ (\E e \in Entry : readdir(e)) \/ ScanEnds
    \/ \E p \in Process, fd \in {1, 2} : (\E t \in {"none", "sh", "ex"} : flock(p, fd, t)) \/ close(p, fd)
    \/ (pc = "done" \/ \A p \in Process : fds[p] = {}) /\ UNCHANGED vars

Spec == Init /\ [][Next]_vars

------------------------------------------------------------------------------
(* filesystem.c:91, 174 - a call that succeeds leaves each time as it was  *)
(* asked, one to be omitted as it was before; one that fails leaves both   *)
(* alone.  filesystem.c:405 - after posix_fallocate the file has the size  *)
(* asked for, and is no smaller than it was.  (A write that falls between  *)
(* the look and the change may be cut off again, and its time put back.)   *)
AsAsked ==
    pc = "done" /\ ~raced /\ job.fn # "scandir" =>
        IF ret # "ok" THEN file = before
        ELSE IF job.fn = "posix_fallocate"
        THEN file.size >= required_size /\ file.size \in {before.size, required_size} /\ file.size >= before.size
        ELSE \A i \in 1..2 :
                LET f == <<"atime", "mtime">>[i] IN
                file[f] = IF job.times = NULL \/ job.times[i] = "NOW" THEN "now"
                          ELSE IF job.times[i] = "OMIT" THEN before[f] ELSE job.times[i]

(* filesystem.c:405 - a write of another process, whenever it falls, does  *)
(* not make posix_fallocate return with less than was asked for.           *)
Allocates == pc = "done" /\ ret = "ok" /\ job.fn = "posix_fallocate" => file.size >= required_size

(* filesystem.c:243, 256, 278 - scandir loses no block on any path, and    *)
(* never stores behind the end of its list; what it returns is the whole   *)
(* directory as filtered, each entry once and in order.                    *)
Scans ==
    job.fn = "scandir" =>
        /\ Len(list) <= allocated
        /\ pc = "done" => live = IF ret = "ok" THEN Entries(list) \cup {LIST} ELSE {}
        /\ pc = "done" /\ ret = "ok" =>
              /\ ToSet(list) = job.entries \cap job.filter /\ IsInjective(list)
              /\ job.compar => \A i, j \in DOMAIN list : i < j => list[i] < list[j]

(* filesystem.c:219 - of two processes that have flocked the file and      *)
(* neither unlocked it nor closed that descriptor, none has it             *)
(* exclusively, unless one has closed another descriptor of the file.      *)
FlockExcludes ==
    \A p, q \in Process :
        p # q /\ asked[p] # NULL /\ asked[q] # NULL /\ fds[p] = {1, 2} /\ fds[q] = {1, 2} =>
            asked[p].type = "sh" /\ asked[q].type = "sh"
==============================================================================
