------------------------------- MODULE Memory --------------------------------
(***************************************************************************)
(* src/memory.c: aligned and array allocation over malloc's, and mmap with *)
(* the MAP_ANONYMOUS flag that Solaris 7 does not know, each one call, the *)
(* system's calls failing anywhere.  Sizes are of a size_t that is small.  *)
(***************************************************************************)
EXTENDS Integers, FiniteSets

CONSTANTS
    SIZE_MAX,     \* the largest size_t
    Pointer,      \* sizeof(void * )
    NULL

MemoryAssumption == SIZE_MAX \in Nat /\ Pointer \in 1..SIZE_MAX

VARIABLES job, result

vars == <<job, result>>

size_t == 0..SIZE_MAX
Wraps(k) == k % (SIZE_MAX + 1)

(* memalign and realloc give a block of the size asked for, or none. *)
Block(alignment, size) == {NULL, [alignment |-> alignment, size |-> size]}

(* alignment & (alignment - 1) is 0 if no lower bit stands beside the highest. *)
PowerOfTwo(k) == \E e \in 0..SIZE_MAX : 2^e = k

posix_memalign(alignment, size) ==
    IF alignment < Pointer \/ ~PowerOfTwo(alignment) THEN {[ret |-> "EINVAL", ptr |-> "before"]}
    ELSE {IF b = NULL THEN [ret |-> "ENOMEM", ptr |-> "before"] ELSE [ret |-> "ok", ptr |-> b] :
             b \in Block(alignment, size)}

aligned_alloc(alignment, size) ==
    IF alignment = 0 THEN {[ret |-> "EINVAL", ptr |-> NULL]}
    ELSE IF size % alignment # 0 THEN {[ret |-> "EINVAL", ptr |-> NULL]}
    ELSE {[ret |-> "ok", ptr |-> b] : b \in Block(alignment, size)}

ReallocarrayUnchecked(nmemb, size) ==
    {[ret |-> "ok", ptr |-> b] : b \in Block(1, Wraps(nmemb * size))}

reallocarray(nmemb, size) ==
    IF nmemb # 0 /\ size # 0 /\ nmemb > SIZE_MAX \div (IF size = 0 THEN 1 ELSE size)
    THEN {[ret |-> "ENOMEM", ptr |-> NULL]}
    ELSE {[ret |-> "ok", ptr |-> b] : b \in Block(1, Wraps(nmemb * size))}

------------------------------------------------------------------------------
(* mmap and mmap64 alike; fds is what is open, zfd the lowest that is not. *)
zfd(fds) == CHOOSE d \in 0..Cardinality(fds) : d \notin fds /\ 0..(d - 1) \subseteq fds

do_mmap_anon_fixup(anonymous, fd, offset, fds) ==
    LET orig_mmap(d, o, open) ==
           {[mapped |-> IF ok THEN [of |-> IF d \in fds THEN "file" ELSE "zero", from |-> o] ELSE NULL,
             open |-> open] : ok \in BOOLEAN}
    IN  IF ~anonymous THEN orig_mmap(fd, offset, fds)
        ELSE {[mapped |-> NULL, open |-> fds]} \cup orig_mmap(zfd(fds), 0, (fds \cup {zfd(fds)}) \ {zfd(fds)})

------------------------------------------------------------------------------
Jobs ==
    {[fn |-> f, x |-> x, y |-> y] :
        f \in {"posix_memalign", "aligned_alloc", "reallocarray"}, x \in size_t, y \in size_t}
      \cup {[fn |-> "mmap", anonymous |-> a, fd |-> d, offset |-> o, fds |-> s] :
              a \in BOOLEAN, d \in -1..2, o \in 0..1, s \in SUBSET (0..2)}

Legal(j) == j.fn = "mmap" => j.anonymous \/ j.fd \in j.fds

Answers(j) ==
    CASE j.fn = "posix_memalign" -> posix_memalign(j.x, j.y)
      [] j.fn = "aligned_alloc" -> aligned_alloc(j.x, j.y)
      [] j.fn = "reallocarray" -> reallocarray(j.x, j.y)
      [] j.fn = "mmap" -> do_mmap_anon_fixup(j.anonymous, j.fd, j.offset, j.fds)

Init == job \in {j \in Jobs : Legal(j)} /\ result = NULL

Call == result = NULL /\ result' \in Answers(job) /\ UNCHANGED job

Next == Call \/ (result # NULL /\ UNCHANGED vars)

Spec == Init /\ [][Next]_vars

------------------------------------------------------------------------------
(* memory.c:61, 79, 90 - a block that a caller is given is as large and as *)
(* aligned as was asked: no product of reallocarray wraps around size_t,   *)
(* and an alignment that memalign cannot give is refused by                *)
(* posix_memalign, which leaves *memptr alone when it fails.               *)
BlocksAsAsked ==
    LET gives(size, alignment) == result.ptr # NULL => result.ptr = [alignment |-> alignment, size |-> size] IN
    result # NULL /\ "x" \in DOMAIN job =>
        CASE job.fn = "reallocarray" -> gives(job.x * job.y, 1)
          [] job.fn = "aligned_alloc" -> gives(job.y, job.x)
          [] job.fn = "posix_memalign" ->
               IF result.ret # "ok" THEN result.ptr = "before"
               ELSE gives(job.y, job.x) /\ job.x % Pointer = 0 /\ \A k \in 2..job.x : job.x % k = 0 => k % 2 = 0

(* memory.c:133, 139 - an anonymous mapping is one of zeroes whatever fd   *)
(* and offset came with the flag, any other one is of the caller's file;   *)
(* and no call leaves a descriptor open or closes one of the caller's.     *)
MapsAsAsked ==
    result # NULL /\ job.fn = "mmap" =>
        /\ result.open = job.fds
        /\ result.mapped # NULL =>
              result.mapped = IF job.anonymous THEN [of |-> "zero", from |-> 0]
                              ELSE [of |-> "file", from |-> job.offset]
==============================================================================
