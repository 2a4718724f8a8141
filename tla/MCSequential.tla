---------------------------- MODULE MCSequential -----------------------------
(***************************************************************************)
(* Functions that one caller runs to their end, whatever signals and other *)
(* users of the files, of the clock and of libc's buffers do on the way:   *)
(* the parts of Sequential, and Getopt, QSort, Inet, VectorIO, Lookup,     *)
(* Text, Memory, Utf16, Format and Files.  A behaviour exercises one of    *)
(* them, which it settles at the start.  For getopt the letters a, b and c *)
(* take no, a required and an optional argument, and "aa" comes behind two *)
(* others it is a prefix of.                                               *)
(***************************************************************************)
EXTENDS Getopt, Sequential

Strings(chars, n) == UNION {[1..k -> chars] : k \in 0..n}

MCJump == {-4, 4}

MCArgs ==
    {<<"-">> \o s : s \in Strings({"a", "b", "c", "x"}, 2) \cup [1..3 -> {"a", "b", "="}]}
      \cup {<<"-", "-">> \o s : s \in Strings({"a", "b", "="}, 3)}
      \cup {<<>>, <<"a">>}

Letters == [c \in {"a", "b", "c"} |->
               CASE c = "a" -> "no" [] c = "b" -> "required" [] c = "c" -> "optional"]

LongNames == << [name |-> <<"a", "a", "b">>, has_arg |-> "required"],
                [name |-> <<"a", "a", "a">>, has_arg |-> "no"],
                [name |-> <<"a", "a">>, has_arg |-> "no"],
                [name |-> <<"a", "b">>, has_arg |-> "optional"],
                [name |-> <<"b", "a">>, has_arg |-> "required"] >>

------------------------------------------------------------------------------
VARIABLES
    input, ordered, base, sort_pc, calls, cur, index, at,
    words, text, inet_pc, p, groups, dcolon, dst,
    iov, vector_index, offset, total_bytes, moved, vector_pc, vector_ret,
    job, result,
    wide, done, pending, units, taken, high, back,
    print_fn, format, fmt, need, print_pc, pass, work_size, str, size, blocks, len, total,
    print_ret, starved,
    file_job, file_pc, file_ret, file, before, st, raced, dir, namelist, allocated, live,
    locks, fds, asked

sortVars == <<input, ordered, base, sort_pc, calls, cur, index, at>>
inetVars == <<words, text, inet_pc, p, groups, dcolon, dst>>
vectorVars == <<iov, vector_index, offset, total_bytes, moved, vector_pc, vector_ret>>
jobVars == <<job, result>>
wideVars == <<wide, done, pending, units, taken, high, back>>
printVars == <<print_fn, format, fmt, need, print_pc, pass, work_size, str, size, blocks, len,
               total, print_ret, starved>>
fileVars == <<file_job, file_pc, file_ret, file, before, st, raced, dir, namelist, allocated, live,
              locks, fds, asked>>

(* All short arrays, and long ones that are sorted already, either way. *)
Arrays ==
    Strings(1..3, 5) \cup {[i \in 1..k |-> i] : k \in 6..16}
                     \cup {[i \in 1..k |-> k - i] : k \in 6..16}

Q == INSTANCE QSort
       WITH Inputs <- Arrays, MaxUnordered <- 4, QSORT_INSERTION_CUTOFF <- 2,
            SIZE_MAX <- 100, pc <- sort_pc

TextsOver(tokens, k) ==
    {s \in Strings(tokens, k) :
        \A i \in 1..(Len(s) - 1) : "char" \in DOMAIN s[i] \cup DOMAIN s[i + 1]}

Numbers(values, forms) == [value : values, written : forms]

(* Texts longer than an address of five groups, and short ones with a      *)
(* character that does not belong, numbers that are too large and numbers  *)
(* that are not written in one to four digits.                             *)
MCTexts ==
    TextsOver({[char |-> ":"]} \cup Numbers({0, 1}, {"digits"}), 11)
      \cup TextsOver({[char |-> ":"], [char |-> "g"]} \cup Numbers({1, 99}, {"digits", "0x", "more"}), 4)

I == INSTANCE Inet
       WITH Groups <- 5, Word <- {0, 1}, Sizes <- {7, 20}, Texts <- MCTexts, pc <- inet_pc

V == INSTANCE VectorIO
       WITH MaxCount <- 3, MaxLen <- 3, Offset <- 4, pc <- vector_pc, ret <- vector_ret

K == INSTANCE Lookup WITH MaxList <- 3, Gid <- {1, 2}

X == INSTANCE Text WITH Upper <- "A", Lower <- "a", Delim <- "b", NUL <- "0", MaxString <- 4

M == INSTANCE Memory WITH SIZE_MAX <- 15, Pointer <- 4

(* The characters and units on either side of each limit. *)
U == INSTANCE Utf16
       WITH Wide <- {65, 55295, 65535, 65536, 66560, 1114111},
            Stray <- {65, 55296, 56319, 56320, 57343}, MaxText <- 3, text <- wide

F == INSTANCE Format
       WITH STACK_BUF_SIZE <- 2, Limit <- 4, MaxText <- 9, Bad <- 100, Sizes <- {0, 1, 3, 9},
            MaxDirectives <- 2, fn <- print_fn, pc <- print_pc, ret <- print_ret

S == INSTANCE Files
       WITH MaxSize <- 3, Entry <- {1, 2, 3}, Allocated <- 1, Process <- {"p1", "p2"},
            job <- file_job, pc <- file_pc, ret <- file_ret, list <- namelist

ASSUME
    /\ Q!QSortAssumption /\ I!InetAssumption /\ V!VectorAssumption /\ K!LookupAssumption
    /\ X!TextAssumption /\ M!MemoryAssumption /\ U!Utf16Assumption /\ F!FormatAssumption
    /\ S!FilesAssumption

(* The parts a behaviour does not exercise stay in one state. *)
NoGetopt ==
    /\ argv = <<>> /\ prefix = "none" /\ fn = "getopt"
    /\ optind = 1 /\ short_next = 0 /\ last = Start /\ out = <<>>

NoSort ==
    /\ input = <<>> /\ ordered = TRUE /\ base = <<>> /\ sort_pc = "done" /\ calls = <<>>
    /\ cur = Q!Range(0, 0, 0) /\ index = 0 /\ at = 0

NoAddress ==
    /\ words = <<>> /\ text = <<>> /\ inet_pc = "leading"
    /\ p = 0 /\ groups = <<>> /\ dcolon = -1 /\ dst = <<>>

NoVector ==
    /\ iov = <<>> /\ vector_index = 1 /\ offset = 4 /\ total_bytes = 0
    /\ moved = {} /\ vector_pc = "loop" /\ vector_ret = 0

NoWide == wide = <<>> /\ done = 0 /\ pending = 0 /\ units = <<>> /\ taken = 0 /\ high = 0 /\ back = <<>>

NoPrint ==
    /\ print_fn = "dprintf" /\ format = <<>> /\ fmt = <<>> /\ need = 0 /\ print_pc = "call"
    /\ pass = 1 /\ work_size = 0 /\ str = "junk" /\ size = 0 /\ blocks = {} /\ len = 0 /\ total = 0
    /\ print_ret = 0 /\ starved = {}

NoFile ==
    /\ file_job = 0 /\ file_pc = "none" /\ file_ret = NULL /\ file = 0 /\ before = 0 /\ st = 0
    /\ raced = FALSE /\ dir = {} /\ namelist = <<>> /\ allocated = 0 /\ live = {}
    /\ locks = 0 /\ fds = 0 /\ asked = 0

SequentialInit ==
    /\ part \in {"getopt", "qsort", "inet", "getdelim", "vector",
                 "lookup", "text", "memory", "utf16", "format", "files", "netdb", "poll",
                 "clocks", "fenv"}
    /\ IF part = "getopt" THEN Init ELSE NoGetopt
    /\ IF part = "qsort" THEN Q!Init ELSE NoSort
    /\ IF part = "inet" THEN I!Init ELSE NoAddress
    /\ IF part = "vector" THEN V!Init ELSE NoVector
    /\ IF part = "utf16" THEN U!Init ELSE NoWide
    /\ IF part = "format" THEN F!Init ELSE NoPrint
    /\ CASE part = "lookup" -> K!Init
         [] part = "text" -> X!Init
         [] part = "memory" -> M!Init
         [] OTHER -> job = NULL /\ result = NULL
    /\ IF part = "files" THEN S!Init ELSE NoFile
    /\ PartsInit

SequentialNext ==
    \/ /\ PartsNext
       /\ UNCHANGED <<vars, sortVars, inetVars, vectorVars, jobVars, wideVars, printVars, fileVars>>
    \/ /\ part = "getopt" /\ Next
       /\ UNCHANGED <<partsVars, sortVars, inetVars, vectorVars, jobVars, wideVars, printVars, fileVars>>
    \/ /\ part = "qsort" /\ Q!Next
       /\ UNCHANGED <<partsVars, vars, inetVars, vectorVars, jobVars, wideVars, printVars, fileVars>>
    \/ /\ part = "inet" /\ I!Next
       /\ UNCHANGED <<partsVars, vars, sortVars, vectorVars, jobVars, wideVars, printVars, fileVars>>
    \/ /\ part = "vector" /\ V!Next
       /\ UNCHANGED <<partsVars, vars, sortVars, inetVars, jobVars, wideVars, printVars, fileVars>>
    \/ /\ part = "lookup" /\ K!Next
       /\ UNCHANGED <<partsVars, vars, sortVars, inetVars, vectorVars, wideVars, printVars, fileVars>>
    \/ /\ part = "text" /\ X!Next
       /\ UNCHANGED <<partsVars, vars, sortVars, inetVars, vectorVars, wideVars, printVars, fileVars>>
    \/ /\ part = "memory" /\ M!Next
       /\ UNCHANGED <<partsVars, vars, sortVars, inetVars, vectorVars, wideVars, printVars, fileVars>>
    \/ /\ part = "utf16" /\ U!Next
       /\ UNCHANGED <<partsVars, vars, sortVars, inetVars, vectorVars, jobVars, printVars, fileVars>>
    \/ /\ part = "format" /\ F!Next
       /\ UNCHANGED <<partsVars, vars, sortVars, inetVars, vectorVars, jobVars, wideVars, fileVars>>
    \/ /\ part = "files" /\ S!Next
       /\ UNCHANGED <<partsVars, vars, sortVars, inetVars, vectorVars, jobVars, wideVars, printVars>>

SequentialSpec ==
    /\ SequentialInit
    /\ [][SequentialNext]_<<partsVars, vars, sortVars, inetVars, vectorVars, jobVars, wideVars, printVars, fileVars>>

------------------------------------------------------------------------------
(* No index leaves its array: getopt_long.c:113 - getopt's cursor is in    *)
(* argv; stdlib.c:282 - qsort_r's calls are about parts of the array, each *)
(* about its own; string.c:53, 67, 149 - strlcpy, strlcat and stpncpy      *)
(* store nothing behind the size they are given.                           *)
InBounds ==
    CASE part = "getopt" -> CursorInside
      [] part = "qsort" -> Q!InBounds
      [] part = "text" -> X!StaysInside
      [] OTHER -> TRUE

(* stdlib.c:351 - qsort_r loses no element, whatever compare_fn answers,   *)
(* and sorts by an order; line 312 - it does not nest deeply on sorted     *)
(* arrays.                                                                 *)
Sorts == part = "qsort" => Q!Sorts /\ Q!Shallow

(* network.c:375 - inet_ntop leaves out the first longest run of zeroes;   *)
(* line 437 - inet_pton accepts addresses, however their numbers are       *)
(* written, and stores what they mean.                                     *)
Addresses == part = "inet" => I!Canonical /\ I!Understands

(* Searches and blocks: process.c:387 - execvpe runs the first program the *)
(* child's PATH leads to; lines 490, 514 - getgrouplist stores what there  *)
(* is room for and says how much it takes; dl_iterate_phdr.c:97 - each     *)
(* shared library is visited once; network.c:293, 694 - names fit and lead *)
(* back.                                                                   *)
(* memory.c:62, 91, 133 - blocks and mappings are what was asked, and no   *)
(* product wraps around.  stdio.c:163, 193 - preadv and pwritev move bytes *)
(* without a gap and return how many.                                      *)
AsAsked ==
    /\ part = "lookup" => K!RunsFirst /\ K!GroupsFit /\ K!VisitsEach /\ K!NamesFit
    /\ part = "memory" => M!BlocksAsAsked /\ M!MapsAsAsked
    /\ part = "vector" => V!Contiguous /\ V!CountsMoved

(* string.c:54, 70 - strlcpy and strlcat keep what fits and return the     *)
(* length of the whole; lines 28, 149 - strndup and stpncpy copy no more   *)
(* than n; lines 88, 108 - a search finds the first place; line 124 -      *)
(* strsep's tokens, call by call, make up the string.                      *)
Strung ==
    part = "text" => X!Truncates /\ X!CopiesPrefix /\ X!FindsFirst /\ X!FindsChar /\ X!Tokens

(* wchar.c:188, 251 - what c16rtomb makes of mbrtoc16's units is the text; *)
(* line 256 - of units in any order no surrogate is used twice.            *)
RoundTrip == part = "utf16" => U!RoundTrip /\ U!PairsUp

(* snprintf.c:98 - a format is rewritten for Solaris 7 and otherwise kept; *)
(* and where the blocks have the slack that vsprintf needs: line 200 -     *)
(* only a text of twice the limit is given up; lines 187, 220 - no block   *)
(* is lost; line 210, stdio.c:42, 78 - the result is the length of the     *)
(* whole text, which vasprintf stores and dprintf writes.                  *)
Formats == part = "format" => F!Rewrites /\ F!WholeText /\ F!GivesUp /\ F!NoBlockLost

(* filesystem.c:91, 174, 405 - times and sizes are what was asked for;     *)
(* line 243 - scandir loses no block and returns the whole directory;      *)
(* line 219 - flock keeps processes apart.                                 *)
FilesAsAsked == part = "files" => S!AsAsked /\ S!Allocates /\ S!Scans /\ S!FlockExcludes

==============================================================================
