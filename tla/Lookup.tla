------------------------------- MODULE Lookup --------------------------------
(***************************************************************************)
(* Searches of lists that end early, each one call, over every short list: *)
(* execvpe and getgrouplist of src/process.c, dl_iterate_phdr of           *)
(* src/dl_iterate_phdr.c, and if_nametoindex, if_indextoname and           *)
(* getnameinfo of src/network.c.                                           *)
(***************************************************************************)
EXTENDS Integers, FiniteSets, SequencesExt

CONSTANTS
    MaxList,      \* how long a list may be
    Gid,          \* group ids
    NULL

LookupAssumption == MaxList \in Nat /\ NULL \notin Gid

VARIABLES job, result

vars == <<job, result>>

Lists(S) == UNION {[1..k -> S] : k \in 0..MaxList}

(* A component of PATH is what execve answers there; "run" does not        *)
(* return, and a path that is "long" is not tried.                         *)
Component == {"run", "EACCES", "ENOENT", "ENOTDIR", "E2BIG", "long"}

Default == <<"ENOENT", "run">>    \* /usr/bin:/bin

SearchPathOfCaller(envp, caller) == IF caller \in {NULL, <<>>} THEN Default ELSE caller

(* The PATH of envp, else the caller's; an empty one is the default. *)
SearchPath(envp, caller) ==
    LET search_path == IF envp # NULL THEN envp ELSE caller IN
    IF search_path \in {NULL, <<>>} THEN Default ELSE search_path

(* One turn of the loop over the components. *)
Try(s, c) ==
    IF s.end \/ c = "long" THEN s
    ELSE IF c = "run" THEN [s EXCEPT !.end = TRUE, !.ran = TRUE]
    ELSE [s EXCEPT !.errno = c, !.saved = @ \/ c = "EACCES",
                   !.end = c \notin {"EACCES", "ENOENT", "ENOTDIR"}]

(* A file name with a slash is executed as it is. *)
Direct(c) == [ran |-> c = "run", errno |-> IF c = "run" THEN "before" ELSE c]

execvpe(path) ==
    LET s == FoldLeft(Try, [end |-> FALSE, ran |-> FALSE, errno |-> "before", saved |-> FALSE], path)
    IN  [ran |-> s.ran, errno |-> IF s.saved THEN "EACCES" ELSE s.errno]

------------------------------------------------------------------------------
Entry == [gid : Gid, member : BOOLEAN]

(* One entry of the group database. *)
AddGroup(s, e) ==
    IF e.gid = s.primary \/ ~e.member THEN s
    ELSE [s EXCEPT !.count = @ + 1,
                   !.groups = IF s.count < s.max THEN Append(@, e.gid) ELSE @]

getgrouplist(db, group, max) ==
    LET s == FoldLeft(AddGroup, [primary |-> group, max |-> max, count |-> 1,
                                 groups |-> IF max > 0 THEN <<group>> ELSE <<>>], db)
    IN  [groups |-> s.groups, ngroups |-> s.count, ret |-> IF s.count > max THEN -1 ELSE 0]

------------------------------------------------------------------------------
(* An entry of the linker's list: whether it is at address 0, and whether  *)
(* an ELF header is there; and what the callback answers for it.           *)
Object == [zero : BOOLEAN, elf : BOOLEAN, answer : {0, 1}]

(* The main program is the first, at 0; without r_debug or r_map the list  *)
(* is empty.                                                               *)
Skipped(list, i) == (list[i].zero /\ i = 1) \/ ~list[i].elf

Visit(list, s, i) ==
    IF s.ret # 0 \/ Skipped(list, i) THEN s
    ELSE [visited |-> Append(s.visited, i), ret |-> list[i].answer]

dl_iterate_phdr(list) ==
    FoldLeft(LAMBDA s, i : Visit(list, s, i), [visited |-> <<>>, ret |-> 0],
             [i \in 1..Len(list) |-> i])

------------------------------------------------------------------------------
(* Interfaces are numbered by their place in the kernel's list, which is   *)
(* NULL when there is no socket to ask for it or the ioctl fails.          *)
if_nametoindex(list, name) ==
    LET places == IF list = NULL THEN {} ELSE {i \in DOMAIN list : list[i] = name}
    IN  IF places = {} THEN 0 ELSE Min(places)

(* An index that is an int. *)
if_indextoname(list, index) ==
    IF list # NULL /\ index \in 1..Len(list) THEN list[index] ELSE NULL

(* getnameinfo: what it stores, and in how many bytes, or why it fails. *)
Stored(is, len) == [is |-> is, len |-> len]

(* A buffer that is not asked for has no room; a name that does not fit is *)
(* refused, where snprintf cuts a port number.                             *)
FitWithoutNul(is, len, room) ==
    IF room = 0 THEN Stored("none", 0) ELSE IF len > room THEN Stored("EAI_OVERFLOW", 0) ELSE Stored(is, len)

Fit(is, len, room) ==
    IF room = 0 THEN Stored("none", 0) ELSE IF len >= room THEN Stored("EAI_OVERFLOW", 0) ELSE Stored(is, len)

Cut(is, len, room) == IF room = 0 THEN Stored("none", 0) ELSE Stored(is, Min({len, room - 1}))

Host(j) ==
    IF j.family = "inet6" \/ "NUMERICHOST" \in j.flags THEN Fit("number", 2, j.hostlen)
    ELSE IF j.known THEN Fit("name", 3, j.hostlen)
    ELSE IF "NAMEREQD" \in j.flags /\ j.hostlen > 0 THEN Stored("EAI_NONAME", 0)
    ELSE Fit("number", 2, j.hostlen)

Serv(j) ==
    IF "NUMERICSERV" \notin j.flags /\ j.known THEN Fit("name", 3, j.servlen)
    ELSE Cut("number", 2, j.servlen)

Errors == {"EAI_OVERFLOW", "EAI_NONAME"}

getnameinfo(j) ==
    [host |-> Host(j), serv |-> Serv(j),
     ret |-> IF j.family = "other" THEN "EAI_FAMILY"
             ELSE IF Host(j).is \in Errors THEN Host(j).is
             ELSE IF Serv(j).is \in Errors THEN Serv(j).is ELSE "ok"]

------------------------------------------------------------------------------
Jobs ==
    {[fn |-> "execvpe", envp |-> p, caller |-> q] :
        p \in Lists(Component) \cup {NULL}, q \in {NULL, <<>>, <<"EACCES">>, <<"run">>}}
      \cup {[fn |-> "direct", is |-> c] : c \in Component \ {"long"}}
      \cup {[fn |-> "getgrouplist", db |-> d, group |-> g, max |-> m] :
              d \in Lists(Entry), g \in Gid, m \in 0..(MaxList + 1)}
      \cup {[fn |-> "dl_iterate_phdr", list |-> l] : l \in Lists(Object)}
      \cup {[fn |-> "if_nametoindex", list |-> l, later |-> k, name |-> n] :
              l \in Lists({"le0", "hme0"}) \cup {NULL}, k \in {"same", NULL}, n \in {"le0", "lo0"}}
      \cup [fn : {"getnameinfo"}, family : {"inet", "inet6", "other"}, known : BOOLEAN,
            flags : SUBSET {"NUMERICHOST", "NAMEREQD", "NUMERICSERV"}, hostlen : 0..4, servlen : 0..4]

Answer(j) ==
    CASE j.fn = "execvpe" -> execvpe(SearchPath(j.envp, j.caller))
      [] j.fn = "direct" -> Direct(j.is)
      [] j.fn = "getgrouplist" -> getgrouplist(j.db, j.group, j.max)
      [] j.fn = "dl_iterate_phdr" -> dl_iterate_phdr(j.list)
      [] j.fn = "if_nametoindex" ->
            LET i == if_nametoindex(j.list, j.name)
            IN  [index |-> i, back |-> if_indextoname(IF j.later = "same" THEN j.list ELSE NULL, i)]
      [] j.fn = "getnameinfo" -> getnameinfo(j)

Init == job \in Jobs /\ result = NULL

Call == result = NULL /\ result' = Answer(job) /\ UNCHANGED job

Next == Call \/ (result # NULL /\ UNCHANGED vars)

Spec == Init /\ [][Next]_vars

------------------------------------------------------------------------------
(* process.c:387, 398, 430 - execvpe runs the first candidate on the       *)
(* child's PATH that can be run, or on the caller's if the child has none; *)
(* an empty PATH stands for the default.  An error other than EACCES,      *)
(* ENOENT or ENOTDIR ends the search before.  If nothing ran, errno is     *)
(* EACCES "if that was the only kind of failure encountered", the last     *)
(* candidate's if there was no EACCES, and else that of some candidate; it *)
(* is left alone if no candidate was short enough to try.                  *)
RunsFirst ==
    job.fn = "execvpe" /\ result # NULL =>
        LET given == IF job.envp = NULL THEN job.caller ELSE job.envp
            p == IF given = NULL \/ given = <<>> THEN Default ELSE given
            ends == {i \in DOMAIN p : p[i] \in {"run", "E2BIG"}}
            tried == {i \in DOMAIN p : p[i] # "long" /\ \A k \in ends : i <= k}
            errors == {p[i] : i \in tried}
        IN  IF ends # {} /\ p[Min(ends)] = "run" THEN result.ran
            ELSE /\ ~result.ran
                 /\ IF tried = {} THEN result.errno = "before" ELSE result.errno \in errors
                 /\ tried # {} /\ "EACCES" \notin errors => result.errno = p[Max(tried)]

(* process.c:490, 505, 514 - getgrouplist never stores more groups than    *)
(* there is room for, and asks for as many as a second call needs, which   *)
(* then gives the primary group and every group the user is in.            *)
GroupsFit ==
    job.fn = "getgrouplist" /\ result # NULL =>
        LET again == getgrouplist(job.db, job.group, result.ngroups) IN
        /\ Len(result.groups) <= job.max /\ (result.ret = 0 <=> result.ngroups <= job.max)
        /\ IsPrefix(result.groups, again.groups)
        /\ again.ret = 0 /\ Len(again.groups) = result.ngroups /\ Head(again.groups) = job.group
        /\ ToSet(again.groups) =
              {job.group} \cup {e.gid : e \in {x \in ToSet(job.db) : x.member}}

(* dl_iterate_phdr.c:46, 61, 97 - the callback sees each shared library    *)
(* that is loaded once, in order, and nothing behind the first object it   *)
(* answers for; its answer is the result.  (It does not see the main       *)
(* program: lines 46 and 73 disagree on whether it should.)                *)
VisitsEach ==
    job.fn = "dl_iterate_phdr" /\ result # NULL =>
        LET l == job.list
            libs == {i \in DOMAIN l : l[i].elf /\ ~(i = 1 /\ l[i].zero)}
            seen == ToSet(result.visited)
            stop == {i \in seen : l[i].answer # 0}
        IN  /\ {i \in libs : \A k \in stop : i <= k} = seen \cap libs
            /\ \A i \in seen, k \in stop : i <= k
            /\ IsSorted(result.visited, LAMBDA a, b : a < b)
            /\ result.ret = IF stop = {} THEN 0 ELSE 1

(* network.c:655, 694 - the index of an interface is not 0 and leads back  *)
(* to its name; no other name has one.  network.c:293, 333 - a name that   *)
(* getnameinfo returns is whole and has its NUL inside the buffer, a port  *)
(* number may be cut; a caller that insists on a name gets no number.      *)
NamesFit ==
    result # NULL =>
        /\ job.fn = "if_nametoindex" =>
              IF job.list # NULL /\ job.name \in ToSet(job.list)
              THEN result.index > 0 /\ result.back = IF job.later = "same" THEN job.name ELSE NULL
              ELSE result.index = 0 /\ result.back = NULL
        /\ job.fn = "getnameinfo" /\ result.ret = "ok" =>
              /\ (result.host.is = "none" <=> job.hostlen = 0) /\ (result.serv.is = "none" <=> job.servlen = 0)
              /\ job.hostlen > 0 => result.host.len < job.hostlen
              /\ job.servlen > 0 => result.serv.len < job.servlen
              /\ \A t \in {result.host, result.serv} : t.is = "name" => t.len = 3
              /\ "NAMEREQD" \in job.flags /\ "NUMERICHOST" \notin job.flags /\ job.family = "inet" =>
                    result.host.is # "number"
==============================================================================
