-------------------------------- MODULE Text ---------------------------------
(***************************************************************************)
(* The string functions of src/string.c and the wide ones of src/wchar.c,  *)
(* each one call over short strings.  A string is a sequence of characters *)
(* without its NUL; memory is a sequence with NULs in it, and a store past *)
(* its end makes it longer.  A pointer into a string is an index from 0,   *)
(* NULL is -1.  The wide functions are those of the same shape.            *)
(***************************************************************************)
EXTENDS Integers, FiniteSets, SequencesExt

CONSTANTS
    Upper, Lower,   \* a letter in both cases
    Delim,          \* a delimiter of strsep
    NUL,
    MaxString       \* how long a string may be

TextAssumption == Cardinality({Upper, Lower, Delim, NUL}) = 4 /\ MaxString \in Nat

VARIABLES job, result

vars == <<job, result>>

Char == {Upper, Lower, Delim}
Words(S, k) == UNION {[1..n -> S] : n \in 0..k}

(* Memory after the bytes are stored from index at on. *)
Store(mem, at, bytes) ==
    [i \in 1..Max({Len(mem), at + Len(bytes)}) |->
        IF i - at \in 1..Len(bytes) THEN bytes[i - at] ELSE mem[i]]

Terminated(s) == Append(s, NUL)

(* strnlen, wcsnlen; strlen of what is terminated. *)
strnlen(mem, maxlen) == Min({maxlen} \cup {i - 1 : i \in {k \in DOMAIN mem : mem[k] = NUL}})

strndup(mem, n) == Terminated(SubSeq(mem, 1, strnlen(mem, n)))

------------------------------------------------------------------------------
StrlcpyUnended(dst, src, size) ==
    [mem |-> Store(dst, 0, SubSeq(src, 1, Min({Len(src), size}))), ret |-> Len(src)]

strlcpy(dst, src, size) ==
    [mem |-> IF size = 0 THEN dst
             ELSE Store(dst, 0, Terminated(SubSeq(src, 1, Min({Len(src), size - 1})))),
     ret |-> Len(src)]

strlcat(dst, src, size) ==
    LET dstlen == strnlen(dst, size)
        room == size - dstlen
    IN  IF dstlen = size THEN [mem |-> dst, ret |-> size + Len(src)]
        ELSE [mem |-> IF Len(src) < room THEN Store(dst, dstlen, Terminated(src))
                      ELSE Store(dst, dstlen, Terminated(SubSeq(src, 1, room - 1))),
              ret |-> dstlen + Len(src)]

(* The loop that pads leaves i at n, so that the result is dst + n. *)
stpncpy(dst, src, n) ==
    LET i == Min({n, Len(src)}) IN
    [mem |-> Store(dst, 0, SubSeq(src, 1, i) \o [k \in 1..(n - i) |-> NUL]), ret |-> n]

stpcpy(dst, src) == [mem |-> Store(dst, 0, Terminated(src)), ret |-> Len(src)]

------------------------------------------------------------------------------
First(S) == IF S = {} THEN -1 ELSE Min(S)

(* Whether needle is at index i of h; and letters without their case, as   *)
(* strncasecmp compares them.                                              *)
At(h, needle, i) ==
    i + Len(needle) <= Len(h) /\ \A k \in 1..Len(needle) : h[i + k] = needle[k]

Caseless(s) == [k \in DOMAIN s |-> IF s[k] = Upper THEN Lower ELSE s[k]]

memmem(h, needle) ==
    IF needle = <<>> THEN 0
    ELSE IF Len(needle) > Len(h) THEN -1
    ELSE First({i \in 0..(Len(h) - Len(needle)) : At(h, needle, i)})

(* strcasestr; wcsstr compares wide characters as they are. *)
strcasestr(h, needle) ==
    IF needle = <<>> THEN 0
    ELSE First({i \in 0..(Len(h) - 1) : At(Caseless(h), Caseless(needle), i)})

wcsstr(h, needle) ==
    IF needle = <<>> THEN 0 ELSE First({i \in 0..(Len(h) - 1) : At(h, needle, i)})

strchrnul(s, c) == Min({Len(s)} \cup {i - 1 : i \in {k \in DOMAIN s : s[k] = c}})

memrchr(s, c) == Max({-1} \cup {i - 1 : i \in {k \in DOMAIN s : s[k] = c}})

wmemchr(s, c) == First({i - 1 : i \in {k \in DOMAIN s : s[k] = c}})

StrsepKeeping(s) ==
    LET p == strchrnul(s, Delim) IN
    IF p < Len(s) THEN [token |-> SubSeq(s, 1, p + 1), rest |-> SubSeq(s, p + 2, Len(s)), more |-> TRUE]
    ELSE [token |-> s, rest |-> <<>>, more |-> FALSE]

(* One call: the token, and the string the next call is given, if any. *)
strsep(s) ==
    LET p == strchrnul(s, Delim) IN
    IF p < Len(s) THEN [token |-> SubSeq(s, 1, p), rest |-> SubSeq(s, p + 2, Len(s)), more |-> TRUE]
    ELSE [token |-> s, rest |-> <<>>, more |-> FALSE]

------------------------------------------------------------------------------
(* A buffer that holds an earlier string, or no NUL at all. *)
Buffer(k) == [i \in 1..k |-> IF i = 2 THEN NUL ELSE Lower]
Full(k) == [i \in 1..k |-> Lower]

Jobs ==
    {[fn |-> f, mem |-> m, src |-> s, size |-> k] :
        f \in {"strlcpy", "strlcat", "stpncpy", "strndup"}, s \in Words({Upper, Delim}, MaxString),
        m \in {Buffer(4), Full(4), Full(1)}, k \in 0..4}
      \cup {[fn |-> f, h |-> h, needle |-> s] :
              f \in {"memmem", "strcasestr", "wcsstr"},
              h \in Words(Char, MaxString), s \in Words({Upper, Lower}, 3)}
      \cup {[fn |-> f, s |-> s] : f \in {"strsep", "chr"}, s \in Words(Char, MaxString)}

(* A caller gives no size beyond its buffer. *)
Legal(j) == "size" \in DOMAIN j => j.size <= Len(j.mem)

NoResult == [none |-> TRUE]

Answer(j) ==
    CASE j.fn = "strlcpy" -> strlcpy(j.mem, j.src, j.size)
      [] j.fn = "strlcat" -> strlcat(j.mem, j.src, j.size)
      [] j.fn = "stpncpy" -> stpncpy(j.mem, j.src, j.size)
      [] j.fn = "strndup" -> [mem |-> strndup(Terminated(j.src), j.size)]
      [] j.fn = "memmem" -> [at |-> memmem(j.h, j.needle)]
      [] j.fn = "strcasestr" -> [at |-> strcasestr(j.h, j.needle)]
      [] j.fn = "wcsstr" -> [at |-> wcsstr(j.h, j.needle)]
      [] j.fn = "strsep" -> strsep(j.s)
      [] j.fn = "chr" -> [first |-> strchrnul(j.s, Delim), wide |-> wmemchr(j.s, Delim),
                          last |-> memrchr(j.s, Delim), dup |-> stpcpy(Full(Len(j.s) + 1), j.s)]

Init == job \in {j \in Jobs : Legal(j)} /\ result = NoResult

Call ==
    /\ result = NoResult
    /\ result' = Answer(job) /\ UNCHANGED job

(* A caller of strsep goes on with the rest while there is one. *)
Again ==
    /\ result # NoResult /\ job.fn = "strsep" /\ result.more
    /\ result' = strsep(result.rest) /\ UNCHANGED job

Next == Call \/ Again \/ (result # NoResult /\ UNCHANGED vars)

Spec == Init /\ [][Next]_vars

------------------------------------------------------------------------------
String(mem) == SubSeq(mem, 1, strnlen(mem, Len(mem)))

(* string.c:53, 67, 149 - strlcpy, strlcat and stpncpy store nothing at or *)
(* behind dst[size].                                                       *)
StaysInside ==
    result # NoResult /\ "size" \in DOMAIN job /\ job.fn # "strndup" =>
        /\ Len(result.mem) = Len(job.mem)
        /\ \A i \in (job.size + 1)..Len(job.mem) : result.mem[i] = job.mem[i]

(* string.c:54, 70 - what strlcpy and strlcat leave is as much of the      *)
(* whole string as size holds, and a NUL; their result is the length of    *)
(* the whole, so that a caller can tell that it was cut.  A dst without a  *)
(* NUL counts as size characters and is left alone.                        *)
Truncates ==
    result # NoResult /\ job.fn \in {"strlcpy", "strlcat"} /\ job.size > 0 =>
        LET old == IF job.fn = "strlcpy" THEN <<>> ELSE SubSeq(job.mem, 1, strnlen(job.mem, job.size))
            whole == old \o job.src
        IN  /\ result.ret = Len(whole)
            /\ IF Len(old) = job.size THEN result.mem = job.mem
               ELSE String(result.mem) = SubSeq(whole, 1, Min({Len(whole), job.size - 1}))

(* string.c:28, 149 - strndup and stpncpy copy no more than n characters;  *)
(* strndup ends them with a NUL and stpncpy fills up with NULs.  (Nothing  *)
(* is said of what stpncpy returns: lines 154 and 155 disagree.)           *)
CopiesPrefix ==
    LET part == SubSeq(job.src, 1, Min({job.size, Len(job.src)})) IN
    result # NoResult =>
        /\ job.fn = "strndup" => result.mem = Append(part, NUL)
        /\ job.fn = "stpncpy" => /\ SubSeq(result.mem, 1, Len(part)) = part
                                 /\ \A i \in (Len(part) + 1)..job.size : result.mem[i] = NUL

(* string.c:88, 108, wchar.c:71 - a search finds the first place where the *)
(* needle is, the empty one at the start, and none where it would reach    *)
(* behind the end.                                                         *)
FindsFirst ==
    result # NoResult /\ "needle" \in DOMAIN job =>
        LET fold(s) == [i \in DOMAIN s |-> IF job.fn = "strcasestr" /\ s[i] = Upper THEN Lower ELSE s[i]]
            places == {i \in 0..(Len(job.h) - Len(job.needle)) :
                          fold(SubSeq(job.h, i + 1, i + Len(job.needle))) = fold(job.needle)}
        IN  IF places = {} THEN result.at = -1
            ELSE result.at \in places /\ \A i \in places : result.at <= i

(* string.c:158, 166, wchar.c:16 - the first and the last place of a       *)
(* character; stpcpy returns the end of the copy.                          *)
FindsChar ==
    result # NoResult /\ job.fn = "chr" =>
        /\ result.wide = IF result.first = Len(job.s) THEN -1 ELSE result.first
        /\ \A i \in DOMAIN job.s : job.s[i] = Delim => i - 1 \in result.first..result.last
        /\ {result.wide, result.last} \subseteq {-1} \cup {i - 1 : i \in {k \in DOMAIN job.s : job.s[k] = Delim}}
        /\ result.dup.mem = Append(job.s, NUL) /\ result.dup.mem[result.dup.ret + 1] = NUL

(* string.c:124 - each token is free of delimiters, and what is left of    *)
(* the string, call by call, is its end behind the token and a delimiter.  *)
Tokens ==
    result # NoResult /\ job.fn = "strsep" =>
        /\ Delim \notin ToSet(result.token)
        /\ IF result.more THEN IsSuffix(result.token \o <<Delim>> \o result.rest, job.s)
           ELSE IsSuffix(result.token, job.s)
==============================================================================
