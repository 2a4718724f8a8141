------------------------------ MODULE GetDelim -------------------------------
(***************************************************************************)
(* getdelim of src/stdio.c, called again and again with one *lineptr and   *)
(* *n until the stream ends, whether or not memory runs out in between.    *)
(***************************************************************************)
EXTENDS Integers, Sequences

CONSTANTS
    Byte, Delim,            \* what the stream holds; the delimiter
    NUL, Junk,              \* the zero byte; what new memory holds
    MaxFile,                \* how long the stream may be
    Given,                  \* the sizes and *n the caller may begin with, besides 0
    GETDELIM_INITIAL_SIZE

GetDelimAssumption ==
    /\ Delim \in Byte /\ NUL \notin Byte
    /\ MaxFile \in Nat /\ Given \subseteq Nat /\ GETDELIM_INITIAL_SIZE \in Nat \ {0}

VARIABLES
    stream,     \* what has not been read
    block,      \* the block at *lineptr, <<>> for NULL
    n,          \* *n
    pc,
    bufsize, pos,
    read,       \* what this call has read
    ret         \* what it returned, 0 before

vars == <<stream, block, n, pc, bufsize, pos, read, ret>>

Memory(k) == [i \in 1..k |-> Junk]

Init ==
    /\ stream \in UNION {[1..k -> Byte] : k \in 0..MaxFile}
    /\ \E k, m \in Given \cup {0} : (k = m \/ k = 0 \/ m = 0) /\ block = Memory(k) /\ n = m
    /\ pc = "user" /\ bufsize = 0 /\ pos = 0 /\ read = <<>> /\ ret = 0

------------------------------------------------------------------------------
NoBlock == block = <<>> \/ n = 0

(* The call: a block is made if there is none, or if *n is 0. *)
getdelim ==
    /\ pc = "user" /\ ret >= 0
    /\ pos' = 0 /\ read' = <<>> /\ ret' = 0
    /\ \/ /\ NoBlock
          /\ block' = Memory(GETDELIM_INITIAL_SIZE)
          /\ bufsize' = GETDELIM_INITIAL_SIZE /\ n' = GETDELIM_INITIAL_SIZE
          /\ pc' = "loop"
       \/ ~NoBlock /\ bufsize' = n /\ pc' = "loop" /\ UNCHANGED <<block, n>>
    /\ UNCHANGED stream

NoMemory ==
    /\ pc = "user" /\ ret >= 0 /\ NoBlock
    /\ pc' = "ENOMEM" /\ ret' = -1
    /\ UNCHANGED <<stream, block, n, bufsize, pos, read>>

Put(b) == [b EXCEPT ![pos + 1] = Head(stream)]

Grown(b) == [i \in 1..(2 * bufsize) |-> IF i <= Len(b) THEN b[i] ELSE Junk]

Takes(b) ==
    /\ block' = Put(b) /\ pos' = pos + 1
    /\ read' = Append(read, Head(stream)) /\ stream' = Tail(stream)
    /\ pc' = IF Head(stream) = Delim THEN "end" ELSE "loop"
    /\ UNCHANGED ret

ReadByteForgetting ==
    /\ pc = "loop" /\ stream # <<>>
    /\ IF pos + 1 >= bufsize
       THEN Takes(Memory(2 * bufsize)) /\ bufsize' = 2 * bufsize /\ n' = 2 * bufsize
       ELSE Takes(block) /\ UNCHANGED <<bufsize, n>>

(* fgetc gives a byte; the block grows before it would be full. *)
ReadByte ==
    /\ pc = "loop" /\ stream # <<>>
    /\ IF pos + 1 >= bufsize
       THEN Takes(Grown(block)) /\ bufsize' = 2 * bufsize /\ n' = 2 * bufsize
       ELSE Takes(block) /\ UNCHANGED <<bufsize, n>>

(* realloc fails: the byte is gone, the old block and *n are as they were. *)
NoMoreMemory ==
    /\ pc = "loop" /\ stream # <<>> /\ pos + 1 >= bufsize
    /\ stream' = Tail(stream)
    /\ bufsize' = 2 * bufsize
    /\ pc' = "ENOMEM" /\ ret' = -1
    /\ UNCHANGED <<block, n, pos, read>>

EndOfFile ==
    /\ pc = "loop" /\ stream = <<>>
    /\ IF pos = 0 THEN pc' = "EOF" /\ ret' = -1 ELSE pc' = "end" /\ UNCHANGED ret
    /\ UNCHANGED <<stream, block, n, bufsize, pos, read>>

Terminate ==
    /\ pc = "end"
    /\ block' = [block EXCEPT ![pos + 1] = NUL]
    /\ ret' = pos /\ pc' = "user"
    /\ UNCHANGED <<stream, n, bufsize, pos, read>>

(* The caller goes on after ENOMEM, and stops at the end of the stream. *)
Retry ==
    /\ pc = "ENOMEM"
    /\ pc' = "user" /\ ret' = 0
    /\ UNCHANGED <<stream, block, n, bufsize, pos, read>>

Next ==
    \/ getdelim \/ NoMemory \/ ReadByte \/ NoMoreMemory \/ EndOfFile \/ Terminate \/ Retry
    \/ pc = "EOF" /\ UNCHANGED vars

Spec == Init /\ [][Next]_vars

------------------------------------------------------------------------------
(* stdio.c:106, 131 - the block is as large as *n says, after ENOMEM too,  *)
(* unless the caller began with NULL or with 0 and has been given none;    *)
(* and there is room in it for the NUL wherever the line ends.             *)
BlockSound ==
    /\ ~NoBlock => n = Len(block)
    /\ pc \in {"loop", "end"} => n = Len(block) /\ pos < Len(block)

(* stdio.c:141 - a line that is returned is what was read, in order, to    *)
(* the delimiter or the end of the stream, and a NUL.                      *)
WholeLine ==
    pc = "user" /\ ret > 0 =>
        /\ ret = Len(read) /\ SubSeq(block, 1, ret) = read /\ block[ret + 1] = NUL
        /\ \A i \in 1..ret : read[i] = Delim => i = ret
        /\ read[ret] # Delim => stream = <<>>
==============================================================================
