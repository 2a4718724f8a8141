------------------------------ MODULE MemStream ------------------------------
(***************************************************************************)
(* src/memstream.c: fmemopen and open_memstream, built on a temporary file *)
(* whose contents the interposed fflush and fclose copy into the caller's  *)
(* memory.  Every call of libc is one step: between two of them other      *)
(* threads run.                                                            *)
(*                                                                         *)
(* A stream is known by its FILE, which libc reuses once it is closed; its *)
(* descriptor has the same name.  The bytes that are in the stdio buffer   *)
(* and those in the temporary file are not told apart.                     *)
(***************************************************************************)
EXTENDS Integers, Sequences

CONSTANTS
    Thread,
    Stream,       \* the FILEs, and the descriptors, libc has
    LowFd,        \* the descriptors below _NFILE
    Byte, NUL,    \* what is written, and the zero byte
    Old,          \* what a caller's buffer held before fmemopen
    Junk,         \* what malloc's memory holds
    Buf, NULL,    \* the blocks of malloc's heap; none of these
    MaxLen,       \* the length a temporary file may reach
    FixedSize,    \* the size given to fmemopen
    Shared        \* whether threads use one another's streams

ASSUME MemStreamAssumption ==
    /\ LowFd \subseteq Stream
    /\ NULL \notin Buf /\ NULL \notin Thread /\ NULL \notin Stream
    /\ MaxLen \in Nat /\ FixedSize \in Nat \ {0}
    /\ Shared \in BOOLEAN

(* fmemopen with mode "r", "w" and "a", and open_memstream. *)
Kind == {"r", "w", "a", "mem"}

Fixed == {"w", "a"}

Position == 0..MaxLen

Contents == UNION {[1..n -> Byte] : n \in Position}

Block == UNION {[1..n -> Byte \cup {Junk}] : n \in Position}

ASSUME NullAssumption == NULL \notin Block

VARIABLES
    kind,        \* kind[s]: what s was opened as, "none" when libc has it back
    owner,       \* owner[s]: the thread that opened s
    data, pos,   \* the temporary file and the position of s in it
    listed,      \* memstream_list: the streams with an entry
    bufend,      \* the descriptors whose _bufendtab slot is set
    fixed,       \* fixed[s]: the buffer given to fmemopen
    ptr,         \* ptr[s]: *ptr of open_memstream
    size,        \* size[s]: *sizeloc
    heap,        \* heap[b]: what block b holds; NULL when it is free
    pc, cur,     \* where each thread is, and the stream it works on
    closing,     \* whether it is in fclose
    byte_count,  \* byte_count of memstream_sync
    new_buf,     \* its new_buf
    fault,       \* what went wrong in the heap: "none", "null", "double free"
    want, wpos,  \* the contents and the position the callers have asked for
    synced       \* the streams unused since they were last copied

libc == <<kind, owner, data, pos>>
memory == <<fixed, ptr, size, heap, fault>>
locals == <<pc, cur, closing, byte_count, new_buf>>
asked == <<want, wpos, synced>>
vars == <<libc, listed, bufend, memory, locals, asked>>

Init ==
    /\ kind = [s \in Stream |-> "none"]
    /\ owner = [s \in Stream |-> NULL]
    /\ data = [s \in Stream |-> <<>>] /\ pos = [s \in Stream |-> 0]
    /\ listed = {} /\ bufend = {}
    /\ fixed = [s \in Stream |-> [i \in 1..FixedSize |-> Old]]
    /\ ptr = [s \in Stream |-> NULL] /\ size = [s \in Stream |-> 0]
    /\ heap = [b \in Buf |-> NULL]
    /\ pc = [t \in Thread |-> "user"]
    /\ cur = [t \in Thread |-> NULL]
    /\ closing = [t \in Thread |-> FALSE]
    /\ byte_count = [t \in Thread |-> 0]
    /\ new_buf = [t \in Thread |-> NULL]
    /\ fault = "none"
    /\ want = [s \in Stream |-> <<>>] /\ wpos = [s \in Stream |-> 0]
    /\ synced = {}

------------------------------------------------------------------------------
(* What a caller may do: use the streams it opened, and others if Shared;  *)
(* fclose a stream of its own that no other thread is in.                  *)
Busy(s) == \E t \in Thread : cur[t] = s

Uses(t, s) ==
    /\ pc[t] = "user" /\ fault = "none"
    /\ kind[s] # "none"
    /\ owner[s] = t \/ Shared
    /\ \A u \in Thread : cur[u] = s => pc[u] # "make_entry" /\ ~closing[u]

Goto(t, label) == pc' = [pc EXCEPT ![t] = label]

(* The call returns. *)
Back(t) ==
    /\ Goto(t, "user")
    /\ cur' = [cur EXCEPT ![t] = NULL]
    /\ closing' = [closing EXCEPT ![t] = FALSE]
    /\ byte_count' = [byte_count EXCEPT ![t] = 0]
    /\ new_buf' = [new_buf EXCEPT ![t] = NULL]

(* tmpfile(), or /dev/null and the stdio buffer aimed at the caller's.     *)
(* The caller has freed what an earlier open_memstream on the same         *)
(* variable gave it.                                                       *)
Open(t, k, s) ==
    /\ pc[t] = "user" /\ fault = "none"
    /\ kind[s] = "none" /\ ~Busy(s) /\ ptr[s] = NULL
    /\ kind' = [kind EXCEPT ![s] = k]
    /\ owner' = [owner EXCEPT ![s] = t]
    /\ data' = [data EXCEPT ![s] = <<>>] /\ pos' = [pos EXCEPT ![s] = 0]
    /\ bufend' = IF k = "r" THEN bufend \cup ({s} \cap LowFd) ELSE bufend
    /\ fixed' = [fixed EXCEPT ![s] = [i \in 1..FixedSize |-> Old]]
    /\ size' = [size EXCEPT ![s] = 0]
    /\ want' = [want EXCEPT ![s] = <<>>] /\ wpos' = [wpos EXCEPT ![s] = 0]
    /\ synced' = synced \ {s}
    /\ Goto(t, "make_entry")
    /\ cur' = [cur EXCEPT ![t] = s]
    /\ UNCHANGED <<listed, ptr, heap, fault, closing, byte_count, new_buf>>

(* make_entry succeeds; fmemopen clears the buffer for "w". *)
make_entry(t) ==
    LET s == cur[t] IN
    /\ pc[t] = "make_entry"
    /\ listed' = listed \cup {s}
    /\ fixed' = IF kind[s] = "w"
                THEN [fixed EXCEPT ![s] = [i \in 1..FixedSize |-> NUL]]
                ELSE fixed
    /\ Back(t)
    /\ UNCHANGED <<libc, bufend, ptr, size, heap, fault, asked>>

(* make_entry has no memory: fmemopen and open_memstream close the stream  *)
(* and fail.                                                               *)
make_entry_fails(t) ==
    /\ pc[t] = "make_entry"
    /\ kind' = [kind EXCEPT ![cur[t]] = "none"]
    /\ Back(t)
    /\ UNCHANGED <<owner, data, pos, listed, bufend, memory, asked>>

(* The caller writes a byte, at the position of the stream. *)
Put(d, p, b) == [i \in 1..(IF p < Len(d) THEN Len(d) ELSE p + 1) |->
                    IF i = p + 1 THEN b ELSE d[i]]

fputc(t, s, b) ==
    /\ Uses(t, s) /\ kind[s] # "r"
    /\ pos[s] < MaxLen /\ wpos[s] < MaxLen
    /\ data' = [data EXCEPT ![s] = Put(@, pos[s], b)]
    /\ pos' = [pos EXCEPT ![s] = @ + 1]
    /\ want' = [want EXCEPT ![s] = Put(@, wpos[s], b)]
    /\ wpos' = [wpos EXCEPT ![s] = @ + 1]
    /\ synced' = synced \ {s}
    /\ UNCHANGED <<kind, owner, listed, bufend, memory, locals>>

(* The caller goes back to an earlier position. *)
fseek(t, s, p) ==
    /\ Uses(t, s) /\ kind[s] # "r"
    /\ p <= Len(data[s]) /\ p <= Len(want[s])
    /\ pos' = [pos EXCEPT ![s] = p]
    /\ wpos' = [wpos EXCEPT ![s] = p]
    /\ synced' = synced \ {s}
    /\ UNCHANGED <<kind, owner, data, listed, bufend, memory, locals, want>>

(* The caller frees what open_memstream left it. *)
FreePtr(s) ==
    /\ kind[s] = "none" /\ ~Busy(s) /\ ptr[s] # NULL /\ fault = "none"
    /\ heap' = [heap EXCEPT ![ptr[s]] = NULL]
    /\ ptr' = [ptr EXCEPT ![s] = NULL]
    /\ synced' = synced \ {s}
    /\ UNCHANGED <<libc, listed, bufend, fixed, size, fault, locals, want, wpos>>

------------------------------------------------------------------------------
(* fflush finds the entry under the mutex.  A stream without one goes to   *)
(* libc, and so does fflush(NULL): neither changes anything here.          *)
fflush(t, s) ==
    /\ Uses(t, s) /\ s \in listed
    /\ Goto(t, "ftell")
    /\ cur' = [cur EXCEPT ![t] = s]
    /\ UNCHANGED <<libc, listed, bufend, memory, closing, byte_count, new_buf, asked>>

fclose_remove_last(t, s) ==
    /\ Uses(t, s) /\ owner[s] = t /\ ~Busy(s)
    /\ UNCHANGED listed
    /\ IF kind[s] = "r"
       THEN bufend' = bufend \ {s} /\ Goto(t, "real_fclose")
       ELSE UNCHANGED bufend /\ Goto(t, "ftell")
    /\ cur' = [cur EXCEPT ![t] = s]
    /\ closing' = [closing EXCEPT ![t] = TRUE]
    /\ UNCHANGED <<libc, memory, byte_count, new_buf, asked>>

(* fclose takes the entry off the list, and clears _bufendtab for "r". *)
fclose(t, s) ==
    /\ Uses(t, s) /\ owner[s] = t /\ ~Busy(s)
    /\ listed' = listed \ {s}
    /\ IF kind[s] = "r"
       THEN bufend' = bufend \ {s} /\ Goto(t, "real_fclose")
       ELSE UNCHANGED bufend /\ Goto(t, "ftell")
    /\ cur' = [cur EXCEPT ![t] = s]
    /\ closing' = [closing EXCEPT ![t] = TRUE]
    /\ UNCHANGED <<libc, memory, byte_count, new_buf, asked>>

(* libc's fclose gives the FILE back. *)
real_fclose(t) ==
    /\ pc[t] = "real_fclose"
    /\ kind' = [kind EXCEPT ![cur[t]] = "none"]
    /\ Back(t)
    /\ UNCHANGED <<owner, data, pos, listed, bufend, memory, asked>>

(* The end of memstream_sync. *)
SyncReturns(t) ==
    IF closing[t]
    THEN Goto(t, "real_fclose") /\ UNCHANGED <<cur, closing, byte_count, new_buf>>
    ELSE Back(t)

(* libc flushes and says where the stream is.  What ftell makes of the     *)
(* stream on /dev/null is libc's affair: an error or 0.                    *)
ftell(t) ==
    /\ pc[t] = "ftell"
    /\ \/ /\ byte_count' = [byte_count EXCEPT ![t] = pos[cur[t]]]
          /\ Goto(t, "rewind")
          /\ UNCHANGED <<cur, closing, new_buf>>
       \/ kind[cur[t]] = "r" /\ SyncReturns(t)
    /\ UNCHANGED <<libc, listed, bufend, memory, asked>>

rewind_skipped(t) ==
    /\ pc[t] = "rewind"
    /\ Goto(t, IF kind[cur[t]] \in Fixed THEN "fread_fixed" ELSE "malloc")
    /\ UNCHANGED <<libc, listed, bufend, memory, cur, closing, byte_count, new_buf, asked>>

rewind(t) ==
    /\ pc[t] = "rewind"
    /\ pos' = [pos EXCEPT ![cur[t]] = 0]
    /\ Goto(t, IF kind[cur[t]] \in Fixed THEN "fread_fixed" ELSE "malloc")
    /\ UNCHANGED <<kind, owner, data, listed, bufend, memory, cur, closing, byte_count, new_buf, asked>>

(* fread takes n bytes, or what there is, from where the stream is. *)
Available(s, n) == IF pos[s] + n <= Len(data[s]) THEN n
                   ELSE IF pos[s] < Len(data[s]) THEN Len(data[s]) - pos[s] ELSE 0

fread_fixed_past_end(t) ==
    LET s == cur[t]
        n == byte_count[t]
        got == Available(s, n) IN
    /\ pc[t] = "fread_fixed"
    /\ fixed' = [fixed EXCEPT ![s] = [i \in 1..(IF n < FixedSize THEN FixedSize ELSE n + 1) |->
                     IF i <= got THEN data[s][pos[s] + i]
                     ELSE IF i = n + 1 THEN NUL ELSE @[i]]]
    /\ pos' = [pos EXCEPT ![s] = @ + got]
    /\ Goto(t, "fseek")
    /\ synced' = synced \cup {s}
    /\ UNCHANGED <<kind, owner, data, listed, bufend, ptr, size, heap, fault, cur, closing, byte_count, new_buf, want, wpos>>

fread_fixed(t) ==
    LET s == cur[t]
        n == IF byte_count[t] > FixedSize THEN FixedSize ELSE byte_count[t]
        got == Available(s, n) IN
    /\ pc[t] = "fread_fixed"
    /\ fixed' = [fixed EXCEPT ![s] = [i \in 1..FixedSize |->
                     IF i <= got THEN data[s][pos[s] + i]
                     ELSE IF i = n + 1 THEN NUL ELSE @[i]]]
    /\ pos' = [pos EXCEPT ![s] = @ + got]
    /\ Goto(t, "fseek")
    /\ synced' = synced \cup {s}
    /\ UNCHANGED <<kind, owner, data, listed, bufend, ptr, size, heap, fault, cur, closing, byte_count, new_buf, want, wpos>>

(* malloc(byte_count + 1), and fread when there is memory. *)
malloc(t, b) ==
    /\ pc[t] = "malloc" /\ heap[b] = NULL
    /\ heap' = [heap EXCEPT ![b] = [i \in 1..byte_count[t] |-> Junk]]
    /\ new_buf' = [new_buf EXCEPT ![t] = b]
    /\ Goto(t, "fread")
    /\ UNCHANGED <<libc, listed, bufend, fixed, ptr, size, fault, cur, closing, byte_count, asked>>

malloc_fails(t) ==
    /\ pc[t] = "malloc"
    /\ Goto(t, "fseek")
    /\ UNCHANGED <<libc, listed, bufend, memory, cur, closing, byte_count, new_buf, asked>>

fread(t) ==
    LET s == cur[t]
        got == Available(s, byte_count[t]) IN
    /\ pc[t] = "fread"
    /\ heap' = [heap EXCEPT ![new_buf[t]] = [i \in 1..byte_count[t] |->
                    IF i <= got THEN data[s][pos[s] + i] ELSE Junk]]
    /\ pos' = [pos EXCEPT ![s] = @ + got]
    /\ Goto(t, "free")
    /\ UNCHANGED <<kind, owner, data, listed, bufend, fixed, ptr, size, fault, cur, closing, byte_count, new_buf, asked>>

free_new_buf(t) ==
    LET s == cur[t] IN
    /\ pc[t] = "free"
    /\ Goto(t, "assign")
    /\ heap' = [heap EXCEPT ![new_buf[t]] = NULL]
    /\ synced' = synced \ {s}
    /\ UNCHANGED <<libc, listed, bufend, fixed, ptr, size, fault, cur, closing, byte_count, new_buf, want, wpos>>

(* The old *ptr is freed: for an entry without ptr, the process dies. *)
free(t) ==
    LET s == cur[t] IN
    /\ pc[t] = "free"
    /\ Goto(t, "assign")
    /\ IF kind[s] = "r" THEN fault' = "null" /\ UNCHANGED heap
       ELSE IF ptr[s] = NULL THEN UNCHANGED <<fault, heap>>
       ELSE /\ fault' = IF heap[ptr[s]] = NULL THEN "double free" ELSE fault
            /\ heap' = [heap EXCEPT ![ptr[s]] = NULL]
    /\ synced' = synced \ {s}
    /\ UNCHANGED <<libc, listed, bufend, fixed, ptr, size, cur, closing, byte_count, new_buf, want, wpos>>

(* The caller's *ptr and *sizeloc are set. *)
assign(t) ==
    LET s == cur[t] IN
    /\ pc[t] = "assign" /\ fault = "none"
    /\ ptr' = [ptr EXCEPT ![s] = new_buf[t]]
    /\ size' = [size EXCEPT ![s] = byte_count[t]]
    /\ Goto(t, "fseek")
    /\ synced' = synced \cup {s}
    /\ UNCHANGED <<libc, listed, bufend, fixed, heap, fault, cur, closing, byte_count, new_buf, want, wpos>>

fseek_to_end_skipped(t) ==
    /\ pc[t] = "fseek"
    /\ SyncReturns(t)
    /\ UNCHANGED <<libc, listed, bufend, memory, asked>>

(* The stream goes back to where it was, on success and on failure. *)
fseek_to_end(t) ==
    /\ pc[t] = "fseek"
    /\ pos' = [pos EXCEPT ![cur[t]] = byte_count[t]]
    /\ SyncReturns(t)
    /\ UNCHANGED <<kind, owner, data, listed, bufend, memory, asked>>

Sync(t) ==
    \/ ftell(t) \/ rewind(t) \/ fread_fixed(t)
    \/ (\E b \in Buf : malloc(t, b)) \/ malloc_fails(t) \/ fread(t) \/ free(t)
    \/ assign(t) \/ fseek_to_end(t)

Inside(t) == make_entry(t) \/ make_entry_fails(t) \/ Sync(t) \/ real_fclose(t)

(* A process that a fault has ended does nothing more. *)
Next ==
    \/ \E t \in Thread :
         \/ \E s \in Stream :
              \/ \E k \in Kind : Open(t, k, s)
              \/ \E b \in Byte : fputc(t, s, b)
              \/ \E p \in Position : fseek(t, s, p)
              \/ fflush(t, s) \/ fclose(t, s)
         \/ fault = "none" /\ Inside(t)
    \/ \E s \in Stream : FreePtr(s)
    \/ fault # "none" /\ UNCHANGED vars

Spec == Init /\ [][Next]_vars

------------------------------------------------------------------------------
Label == {"user", "make_entry", "ftell", "rewind", "fread_fixed", "malloc", "fread", "free",
          "assign", "fseek", "real_fclose"}

(* Types. *)
TypeOK ==
    /\ kind \in [Stream -> Kind \cup {"none"}]
    /\ owner \in [Stream -> Thread \cup {NULL}]
    /\ data \in [Stream -> Contents] /\ pos \in [Stream -> Position]
    /\ listed \subseteq Stream /\ bufend \subseteq LowFd
    /\ fixed \in [Stream -> [1..FixedSize -> Byte \cup {NUL, Old}]]
    /\ ptr \in [Stream -> Buf \cup {NULL}] /\ size \in [Stream -> Position]
    /\ heap \in [Buf -> {NULL} \cup Block]
    /\ pc \in [Thread -> Label]
    /\ cur \in [Thread -> Stream \cup {NULL}]
    /\ closing \in [Thread -> BOOLEAN]
    /\ byte_count \in [Thread -> Position]
    /\ new_buf \in [Thread -> Buf \cup {NULL}]
    /\ fault \in {"none", "null", "double free"}
    /\ want \in [Stream -> Contents] /\ wpos \in [Stream -> Position]
    /\ synced \subseteq Stream

Syncing(s) == \E t \in Thread : cur[t] = s /\ pc[t] \notin {"make_entry", "real_fclose"}

(* memstream.c:307 - the list holds exactly the streams that are open and  *)
(* not being opened or closed: an entry never outlives its FILE, which     *)
(* another thread's stream may reuse.                                      *)
RegistryExact ==
    \A s \in Stream :
        s \in listed <=> /\ kind[s] # "none"
                         /\ \A t \in Thread : cur[t] = s => pc[t] # "make_entry" /\ ~closing[t]

(* memstream.c:125 - memstream_sync leaves the stream as it found it: the  *)
(* contents and the position are the ones the callers asked for, so that   *)
(* "subsequent writes append correctly".  (The position is "EOF" only if   *)
(* the caller had not gone back from there.)                               *)
Transparent ==
    \A s \in Stream : kind[s] # "none" /\ ~Syncing(s) =>
        data[s] = want[s] /\ pos[s] = wpos[s]

(* memstream.c:69-75 - fflush and fclose leave "the written bytes" in a    *)
(* fixed buffer, cut to its size and followed by a NUL if there is room,   *)
(* and "all written bytes" and their count at *ptr and *sizeloc.  It is    *)
(* said of streams that stand at their end: what is written behind the     *)
(* position the caller went back to is not copied (line 137).              *)
Snapshot ==
    \A s \in synced : wpos[s] = Len(want[s]) =>
        IF kind[s] \in Fixed
        THEN \A i \in 1..FixedSize :
                /\ i <= Len(want[s]) => fixed[s][i] = want[s][i]
                /\ i = Len(want[s]) + 1 => fixed[s][i] = NUL
        ELSE ptr[s] # NULL => size[s] = Len(want[s]) /\ heap[ptr[s]] = want[s]

(* Whether *ptr is the caller's: not while the block it named is freed and *)
(* its successor not yet assigned.                                         *)
Held(s) == ptr[s] # NULL /\ \A t \in Thread : cur[t] = s => pc[t] # "assign"

(* memstream.c:161 - nothing is freed twice, a *ptr names a block that is  *)
(* not free and that no other *ptr names, and no block is lost: it is some *)
(* *ptr or one a memstream_sync is filling.                                *)
HeapSound ==
    /\ fault # "double free"
    /\ \A s \in Stream : Held(s) => heap[ptr[s]] # NULL
    /\ \A r, s \in Stream : r # s /\ Held(r) /\ Held(s) => ptr[r] # ptr[s]
    /\ \A b \in Buf : heap[b] # NULL =>
          \/ \E s \in Stream : Held(s) /\ ptr[s] = b
          \/ \E t \in Thread : new_buf[t] = b
==============================================================================
