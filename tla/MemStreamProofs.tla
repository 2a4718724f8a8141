-------------------------- MODULE MemStreamProofs ----------------------------
(***************************************************************************)
(* Proofs about src/memstream.c for any number of threads, streams, blocks *)
(* and bytes.  The types and the list of streams need no assumption on who *)
(* uses which stream.  That memstream_sync is transparent, that no block   *)
(* is lost or freed twice, and that the caller's copy is exact are proved  *)
(* for threads that keep to the streams they opened.                       *)
(***************************************************************************)
EXTENDS MemStream, TLAPS

(* The steps of memstream_sync at which new_buf is the thread's alone. *)
Filling == {"fread", "free", "assign"}

(* Where a thread is and what its locals hold. *)
Where(t) ==
    /\ cur[t] = NULL <=> pc[t] = "user"
    /\ cur[t] # NULL => kind[cur[t]] # "none" /\ byte_count[t] <= Len(data[cur[t]])
    /\ pc[t] = "user" => byte_count[t] = 0
    /\ pc[t] \in {"user", "make_entry"} => ~closing[t]
    /\ pc[t] = "real_fclose" => closing[t]
    /\ pc[t] \in {"user", "make_entry", "ftell", "rewind", "fread_fixed", "malloc"} =>
           new_buf[t] = NULL
    /\ pc[t] \in Filling => new_buf[t] # NULL

WhereInv == \A t \in Thread : Where(t)

(* A stream that is being opened or closed is with one thread. *)
Exclusive(t) == pc[t] = "make_entry" \/ closing[t]

AloneInv ==
    \A t, u \in Thread : cur[t] # NULL /\ cur[u] = cur[t] /\ Exclusive(t) => u = t

PosInv ==
    \A s \in Stream : pos[s] <= Len(data[s]) /\ wpos[s] <= Len(want[s])

TypeInv == TypeOK /\ WhereInv /\ AloneInv /\ PosInv

(* What each step of memstream_sync relies on when threads keep to the     *)
(* streams they opened.                                                    *)
OwnInv ==
    \A t \in Thread : cur[t] # NULL => owner[cur[t]] = t

DataInv ==
    \A s \in Stream : kind[s] # "none" => data[s] = want[s]

StepAt(t) ==
    cur[t] # NULL =>
        LET s == cur[t] IN
        /\ pc[t] \in {"make_entry", "ftell", "real_fclose"} => pos[s] = wpos[s]
        /\ pc[t] \in {"fread_fixed", "malloc", "fread"} => pos[s] = 0
        /\ pc[t] \in {"rewind", "fread_fixed", "malloc", "fseek"} \cup Filling =>
               byte_count[t] = wpos[s]
        /\ pc[t] = "fread_fixed" => kind[s] \in Fixed
        /\ pc[t] \in {"malloc"} \cup Filling => kind[s] \notin Fixed

StepInv == \A t \in Thread : StepAt(t)

IdleInv ==
    \A s \in Stream : kind[s] # "none" /\ ~Busy(s) => pos[s] = wpos[s]

AskInv == OwnInv /\ DataInv /\ StepInv /\ IdleInv

------------------------------------------------------------------------------
(* A step of one thread changes no local of another. *)
Same(u) ==
    /\ pc'[u] = pc[u] /\ cur'[u] = cur[u] /\ closing'[u] = closing[u]
    /\ byte_count'[u] = byte_count[u] /\ new_buf'[u] = new_buf[u]

LocalsType ==
    /\ pc \in [Thread -> Label]
    /\ cur \in [Thread -> Stream \cup {NULL}]
    /\ closing \in [Thread -> BOOLEAN]
    /\ byte_count \in [Thread -> Position]
    /\ new_buf \in [Thread -> Buf \cup {NULL}]

(* The types, one group of variables at a time. *)
StreamsType ==
    /\ kind \in [Stream -> Kind \cup {"none"}] /\ owner \in [Stream -> Thread \cup {NULL}]
    /\ data \in [Stream -> Contents] /\ pos \in [Stream -> Position]
    /\ want \in [Stream -> Contents] /\ wpos \in [Stream -> Position]
    /\ listed \subseteq Stream /\ bufend \subseteq LowFd /\ synced \subseteq Stream

MemoryType ==
    /\ fixed \in [Stream -> [1..FixedSize -> Byte \cup {NUL, Old}]]
    /\ ptr \in [Stream -> Buf \cup {NULL}] /\ size \in [Stream -> Position]
    /\ heap \in [Buf -> {NULL} \cup Block]
    /\ fault \in {"none", "null", "double free"}

LEMMA TypesTogether == TypeOK <=> StreamsType /\ MemoryType /\ LocalsType
BY Zenon DEF TypeOK, StreamsType, MemoryType, LocalsType

(* Threads that keep to their own streams.  Then one thread at most is on  *)
(* a stream.                                                               *)
LEMMA OneOnStream ==
    ASSUME OwnInv, NEW t \in Thread, NEW u \in Thread, cur[t] # NULL, cur[u] = cur[t]
    PROVE  u = t
BY ZenonT(60) DEF OwnInv

(* What a step on the stream s, of the thread t, has to establish. *)
LEMMA AskStep ==
    ASSUME AskInv, LocalsType, LocalsType', NEW t \in Thread, NEW s \in Stream,
           \A u \in Thread : u # t => Same(u) /\ cur[u] # s,
           \A r \in Stream : r # s =>
               /\ kind'[r] = kind[r] /\ owner'[r] = owner[r] /\ data'[r] = data[r]
               /\ pos'[r] = pos[r] /\ want'[r] = want[r] /\ wpos'[r] = wpos[r],
           cur[t] \in {s, NULL}, cur'[t] \in {s, NULL}, cur'[t] = s => owner'[s] = t,
           kind'[s] # "none" => data'[s] = want'[s],
           kind'[s] # "none" /\ cur'[t] # s => pos'[s] = wpos'[s],
           StepAt(t)'
    PROVE  AskInv'
<1>1. ASSUME NEW u \in Thread, u # t, cur[u] # NULL
      PROVE  /\ cur'[u] = cur[u] /\ cur[u] \in Stream /\ cur[u] # s
             /\ kind'[cur[u]] = kind[cur[u]] /\ owner'[cur[u]] = owner[cur[u]]
             /\ pos'[cur[u]] = pos[cur[u]] /\ wpos'[cur[u]] = wpos[cur[u]]
  BY <1>1, SMTT(60) DEF LocalsType, Same
<1>2. OwnInv'
  BY <1>1, ZenonT(60) DEF AskInv, OwnInv, Same
<1>3. DataInv'
  BY SMTT(60) DEF AskInv, DataInv
<1>4. StepInv'
  <2>1. ASSUME NEW u \in Thread, u # t PROVE StepAt(u)'
    BY <1>1, <2>1, SMTT(60) DEF AskInv, StepInv, StepAt, Same
  <2> QED
    BY <2>1, SMTT(60) DEF StepInv
<1>5. IdleInv'
  <2>1. SUFFICES ASSUME NEW r \in Stream, kind'[r] # "none", ~Busy(r)' PROVE pos'[r] = wpos'[r]
    BY Zenon DEF IdleInv
  <2>2. CASE r = s
    BY <2>1, <2>2, Zenon DEF Busy
  <2>3. CASE r # s
    <3>1. ~Busy(r)
      BY <2>1, <2>3, MemStreamAssumption, SMTT(60) DEF Busy, Same
    <3> QED
      BY <2>1, <2>3, <3>1, Zenon DEF AskInv, IdleInv
  <2> QED
    BY <2>2, <2>3, ZenonT(60)
<1> QED
  BY <1>2, <1>3, <1>4, <1>5, Zenon DEF AskInv

------------------------------------------------------------------------------
(* Texts, and what fputc makes of them. *)
LEMMA ContentsType ==
    ASSUME NEW d \in Contents
    PROVE  /\ d \in Seq(Byte) /\ Len(d) \in Nat /\ Len(d) <= MaxLen
           /\ \A i \in 1..Len(d) : d[i] \in Byte
<1>1. PICK n \in Position : d \in [1..n -> Byte]
  BY DEF Contents
<1>2. n \in Nat /\ n <= MaxLen
  BY MemStreamAssumption DEF Position
<1>3. d \in Seq(Byte) /\ Len(d) = n
  BY <1>1, <1>2
<1> QED
  BY <1>1, <1>2, <1>3

LEMMA EmptyContents == <<>> \in Contents /\ Len(<<>>) = 0
<1>1. <<>> \in [1..0 -> Byte]
  OBVIOUS
<1>2. 0 \in Position
  BY MemStreamAssumption DEF Position
<1> QED
  BY <1>1, <1>2 DEF Contents

LEMMA PutType ==
    ASSUME NEW d \in Contents, NEW p \in Nat, p < MaxLen, p <= Len(d), NEW b \in Byte
    PROVE  /\ Put(d, p, b) \in Contents
           /\ p + 1 <= Len(Put(d, p, b)) /\ Len(d) <= Len(Put(d, p, b))
<1> DEFINE n == IF p < Len(d) THEN Len(d) ELSE p + 1
<1>1. Len(d) \in Nat /\ Len(d) <= MaxLen /\ \A i \in 1..Len(d) : d[i] \in Byte
  BY ContentsType
<1>2. n \in Nat /\ n \in Position /\ p + 1 <= n /\ Len(d) <= n
  BY <1>1, MemStreamAssumption DEF Position
<1>3. \A i \in 1..n : i = p + 1 \/ i \in 1..Len(d)
  BY <1>1
<1> HIDE DEF n
<1>4. Put(d, p, b) = [i \in 1..n |-> IF i = p + 1 THEN b ELSE d[i]]
  BY DEF Put, n
<1>5. Put(d, p, b) \in [1..n -> Byte]
  BY <1>1, <1>3, <1>4
<1>6. Len(Put(d, p, b)) = n
  BY <1>2, <1>5, SMTT(60)
<1> QED
  BY <1>2, <1>5, <1>6 DEF Contents

(* What there is to read at the position of a stream. *)
LEMMA ReadBounds ==
    ASSUME StreamsType, PosInv, NEW s \in Stream
    PROVE  /\ data[s] \in Contents /\ pos[s] \in Nat /\ pos[s] <= Len(data[s])
           /\ Len(data[s]) \in Nat /\ Len(data[s]) <= MaxLen
           /\ \A i \in 1..Len(data[s]) : data[s][i] \in Byte
BY MemStreamAssumption, ContentsType, SMTT(60) DEF StreamsType, PosInv, Position

LEMMA RewoundPos ==
    ASSUME PosInv, NEW s \in Stream, pos'[s] \in {0, pos[s]}, Len(data[s]) \in Nat,
           data' = data, want' = want, wpos' = wpos
    PROVE  pos'[s] <= Len(data'[s]) /\ wpos'[s] <= Len(want'[s])
BY SMTT(60) DEF PosInv

(* What fread can take. *)
LEMMA AvailableType ==
    ASSUME NEW s \in Stream, data[s] \in Contents, pos[s] \in Nat, pos[s] <= Len(data[s]),
           NEW n \in Nat
    PROVE  /\ Available(s, n) \in Nat /\ Available(s, n) <= n
           /\ pos[s] + Available(s, n) <= Len(data[s])
           /\ pos[s] + n <= Len(data[s]) => Available(s, n) = n
<1>1. Len(data[s]) \in Nat
  BY ContentsType
<1> QED
  BY <1>1, SMTT(60) DEF Available

------------------------------------------------------------------------------
(* Where a step leaves its thread. *)
LEMMA BackStep ==
    ASSUME LocalsType, NEW t \in Thread, Back(t)
    PROVE  /\ LocalsType' /\ \A u \in Thread : u # t => Same(u)
           /\ pc'[t] = "user" /\ cur'[t] = NULL /\ ~closing'[t]
           /\ byte_count'[t] = 0 /\ new_buf'[t] = NULL
<1>1. 0 \in Position
  BY MemStreamAssumption DEF Position
<1>2. /\ pc' = [pc EXCEPT ![t] = "user"] /\ cur' = [cur EXCEPT ![t] = NULL]
      /\ closing' = [closing EXCEPT ![t] = FALSE] /\ byte_count' = [byte_count EXCEPT ![t] = 0]
      /\ new_buf' = [new_buf EXCEPT ![t] = NULL]
  BY DEF Back, Goto
<1>3. LocalsType'
  BY <1>1, <1>2 DEF LocalsType, Label
<1>4. \A u \in Thread : u # t => Same(u)
  BY <1>2 DEF LocalsType, Same
<1>5. /\ pc'[t] = "user" /\ cur'[t] = NULL /\ ~closing'[t]
      /\ byte_count'[t] = 0 /\ new_buf'[t] = NULL
  BY <1>2 DEF LocalsType
<1> QED
  BY <1>3, <1>4, <1>5

(* A step that only goes on to the next label. *)
LEMMA GotoStep ==
    ASSUME LocalsType, NEW t \in Thread,
           NEW label \in Label,
           Goto(t, label)
    PROVE  /\ pc' \in [Thread -> Label]
           /\ pc'[t] = label /\ \A u \in Thread : u # t => pc'[u] = pc[u]
BY Zenon DEF Goto, LocalsType

LEMMA SyncReturnsStep ==
    ASSUME LocalsType, NEW t \in Thread, SyncReturns(t)
    PROVE  /\ LocalsType' /\ \A u \in Thread : u # t => Same(u)
           /\ \/ /\ pc'[t] = "real_fclose" /\ closing[t]
                 /\ cur'[t] = cur[t] /\ closing'[t] = closing[t]
                 /\ byte_count'[t] = byte_count[t] /\ new_buf'[t] = new_buf[t]
              \/ /\ ~closing[t] /\ pc'[t] = "user" /\ cur'[t] = NULL /\ ~closing'[t]
                 /\ byte_count'[t] = 0 /\ new_buf'[t] = NULL
<1>1. CASE closing[t]
  <2>1. Goto(t, "real_fclose") /\ UNCHANGED <<cur, closing, byte_count, new_buf>>
    BY <1>1, Zenon DEF SyncReturns
  <2>2. /\ pc'[t] = "real_fclose" /\ \A u \in Thread : u # t => pc'[u] = pc[u]
        /\ pc' \in [Thread -> Label]
    BY <2>1, GotoStep, Zenon DEF Label
  <2> QED
    BY <1>1, <2>1, <2>2, Zenon DEF LocalsType, Same
<1>2. CASE ~closing[t]
  BY <1>2, BackStep, Zenon DEF SyncReturns
<1> QED
  BY <1>1, <1>2, Zenon

(* What a step of t leaves of the invariants about threads. *)
LEMMA WhereStep ==
    ASSUME LocalsType, LocalsType', WhereInv, NEW t \in Thread,
           \A u \in Thread : u # t => Same(u),
           \A u \in Thread : u # t /\ cur[u] # NULL =>
               /\ kind'[cur[u]] # "none"
               /\ Len(data[cur[u]]) \in Nat /\ Len(data'[cur[u]]) \in Nat
               /\ Len(data[cur[u]]) <= Len(data'[cur[u]]),
           Where(t)'
    PROVE  WhereInv'
<1>1. ASSUME NEW u \in Thread, u # t PROVE Where(u)'
  <2>1. Same(u) /\ Where(u) /\ byte_count[u] \in Nat
    BY <1>1, MemStreamAssumption, SMTT(60) DEF WhereInv, LocalsType, Position
  <2>2. cur[u] # NULL => kind'[cur[u]] # "none" /\ byte_count[u] <= Len(data'[cur[u]])
    <3>1. SUFFICES ASSUME cur[u] # NULL PROVE kind'[cur[u]] # "none" /\ byte_count[u] <= Len(data'[cur[u]])
      BY SMTT(60)
    <3>2. byte_count[u] <= Len(data[cur[u]])
      BY <2>1, <3>1, Zenon DEF Where
    <3> QED
      BY <1>1, <2>1, <3>1, <3>2, SMTT(60)
  <2> QED
    BY <2>1, <2>2, Zenon DEF Where, Same
<1> QED
  BY <1>1, Zenon DEF WhereInv

LEMMA AloneStep ==
    ASSUME AloneInv, NEW t \in Thread, \A u \in Thread : u # t => Same(u),
           \/ cur'[t] = cur[t] /\ (Exclusive(t)' => Exclusive(t))
           \/ cur'[t] = NULL
           \/ /\ \A u \in Thread : u # t /\ cur[u] = cur'[t] => ~Exclusive(u)
              /\ Exclusive(t)' => \A u \in Thread : u # t => cur[u] # cur'[t]
    PROVE  AloneInv'
<1>1. ASSUME NEW v \in Thread, NEW u \in Thread, cur'[v] # NULL, cur'[u] = cur'[v], Exclusive(v)'
      PROVE  u = v
  BY <1>1 DEF AloneInv, Same, Exclusive
<1> QED
  BY <1>1, Zenon DEF AloneInv

LEMMA TypeInit == Init => TypeInv
<1> SUFFICES ASSUME Init PROVE TypeInv
  OBVIOUS
<1>1. 0 \in Position /\ <<>> \in Contents
  BY EmptyContents, MemStreamAssumption, SMTT(60) DEF Position
<1>2. /\ kind \in [Stream -> Kind \cup {"none"}] /\ owner \in [Stream -> Thread \cup {NULL}]
      /\ data \in [Stream -> Contents] /\ pos \in [Stream -> Position]
      /\ want \in [Stream -> Contents] /\ wpos \in [Stream -> Position]
      /\ listed \subseteq Stream /\ bufend \subseteq LowFd /\ synced \subseteq Stream
  BY <1>1, Zenon DEF Init
<1>3. /\ fixed \in [Stream -> [1..FixedSize -> Byte \cup {NUL, Old}]]
      /\ ptr \in [Stream -> Buf \cup {NULL}] /\ size \in [Stream -> Position]
      /\ heap \in [Buf -> {NULL} \cup Block] /\ fault \in {"none", "null", "double free"}
  BY <1>1, Zenon DEF Init
<1>4. LocalsType
  BY <1>1 DEF Init, LocalsType, Label
<1>5. TypeOK
  BY <1>2, <1>3, <1>4, Zenon DEF TypeOK, LocalsType
<1>6. PosInv
  BY EmptyContents, SMTT(60) DEF Init, PosInv
<1>7. WhereInv /\ AloneInv
  BY DEF Init, WhereInv, Where, AloneInv, Filling
<1> QED
  BY <1>5, <1>6, <1>7 DEF TypeInv

(* The callers' own steps. *)
LEMMA OpenType ==
    ASSUME TypeInv, NEW t \in Thread, NEW k \in Kind, NEW s \in Stream, Open(t, k, s)
    PROVE  TypeInv'
<1>0. StreamsType /\ MemoryType /\ LocalsType /\ WhereInv /\ AloneInv /\ PosInv
  BY TypesTogether DEF TypeInv
<1>1. 0 \in Position /\ <<>> \in Contents /\ Len(<<>>) = 0
  BY EmptyContents, MemStreamAssumption, SMTT(60) DEF Position
<1>2. StreamsType'
  BY <1>0, <1>1, Zenon DEF Open, StreamsType
<1>3. MemoryType'
  BY <1>0, <1>1 DEF Open, MemoryType
<1>4. /\ LocalsType' /\ \A u \in Thread : u # t => Same(u)
      /\ pc'[t] = "make_entry" /\ cur'[t] = s /\ closing'[t] = closing[t]
      /\ byte_count'[t] = byte_count[t] /\ new_buf'[t] = new_buf[t]
  BY <1>0, Zenon DEF Open, Goto, LocalsType, Label, Same
<1>5. /\ kind'[s] = k /\ data'[s] = <<>> /\ pos'[s] = 0 /\ want'[s] = <<>> /\ wpos'[s] = 0
      /\ \A r \in Stream : r # s => /\ kind'[r] = kind[r] /\ data'[r] = data[r] /\ pos'[r] = pos[r]
                                    /\ want'[r] = want[r] /\ wpos'[r] = wpos[r]
  BY <1>0, Zenon DEF Open, StreamsType
<1>6. PosInv'
  BY <1>0, <1>1, <1>5, SMTT(60) DEF PosInv
<1>7. \A u \in Thread : cur[u] # s
  BY Zenon DEF Open, Busy
<1>8. WhereInv'
  <2>1. Where(t)'
    <3>1. Where(t) /\ pc[t] = "user"
      BY <1>0 DEF WhereInv, Open
    <3>2. s # NULL /\ k # "none"
      BY MemStreamAssumption, Zenon DEF Kind
    <3> QED
      BY <1>1, <1>4, <1>5, <3>1, <3>2, SMTT(60) DEF Where, Filling
  <2>2. ASSUME NEW u \in Thread, u # t, cur[u] # NULL
        PROVE  /\ kind'[cur[u]] # "none"
               /\ Len(data[cur[u]]) \in Nat /\ Len(data'[cur[u]]) \in Nat
               /\ Len(data[cur[u]]) <= Len(data'[cur[u]])
    <3>1. cur[u] \in Stream /\ cur[u] # s
      BY <1>0, <1>7, <2>2, Zenon DEF LocalsType
    <3>2. Len(data[cur[u]]) \in Nat /\ kind[cur[u]] # "none"
      BY <1>0, <2>2, <3>1, ContentsType, Zenon DEF StreamsType, WhereInv, Where
    <3> QED
      BY <1>5, <3>1, <3>2, SMTT(60)
  <2> QED
    BY <1>0, <1>4, <2>1, <2>2, WhereStep, Zenon
<1>9. AloneInv'
  BY <1>0, <1>4, <1>7, AloneStep, Zenon
<1> QED
  BY <1>2, <1>3, <1>4, <1>6, <1>8, <1>9, TypesTogether, PTL DEF TypeInv

LEMMA WhereQuiet ==
    ASSUME StreamsType, LocalsType, LocalsType', WhereInv, NEW t \in Thread,
           \A u \in Thread : u # t => Same(u), kind' = kind, data' = data, Where(t)'
    PROVE  WhereInv'
<1>1. ASSUME NEW u \in Thread, u # t, cur[u] # NULL
      PROVE  /\ kind'[cur[u]] # "none"
             /\ Len(data[cur[u]]) \in Nat /\ Len(data'[cur[u]]) \in Nat
             /\ Len(data[cur[u]]) <= Len(data'[cur[u]])
  <2>1. cur[u] \in Stream
    BY <1>1, Zenon DEF LocalsType
  <2>2. Len(data[cur[u]]) \in Nat /\ kind[cur[u]] # "none"
    BY <1>1, <2>1, ContentsType, Zenon DEF StreamsType, WhereInv, Where
  <2> QED
    BY <2>2
<1> QED
  BY <1>1, WhereStep, Zenon

(* A stream goes back to libc. *)
LEMMA WhereClosed ==
    ASSUME StreamsType, LocalsType, LocalsType', WhereInv, AloneInv, NEW t \in Thread,
           \A u \in Thread : u # t => Same(u),
           cur[t] # NULL, Exclusive(t), kind' = [kind EXCEPT ![cur[t]] = "none"], data' = data,
           Where(t)'
    PROVE  WhereInv'
<1>1. ASSUME NEW u \in Thread, u # t, cur[u] # NULL
      PROVE  /\ kind'[cur[u]] # "none"
             /\ Len(data[cur[u]]) \in Nat /\ Len(data'[cur[u]]) \in Nat
             /\ Len(data[cur[u]]) <= Len(data'[cur[u]])
  <2>1. cur[u] \in Stream /\ cur[t] \in Stream /\ cur[u] # cur[t]
    BY <1>1, Zenon DEF LocalsType, AloneInv
  <2>2. Len(data[cur[u]]) \in Nat /\ kind[cur[u]] # "none"
    BY <1>1, <2>1, ContentsType DEF StreamsType, WhereInv, Where
  <2> QED
    BY <2>1, <2>2 DEF StreamsType
<1> QED
  BY <1>1, WhereStep, Zenon

LEMMA EntryType ==
    ASSUME TypeInv, NEW t \in Thread, make_entry(t) \/ make_entry_fails(t) \/ real_fclose(t)
    PROVE  TypeInv'
<1>0. StreamsType /\ MemoryType /\ LocalsType /\ WhereInv /\ AloneInv /\ PosInv
  BY TypesTogether, Zenon DEF TypeInv
<1>1. /\ cur[t] \in Stream /\ cur[t] # NULL /\ Exclusive(t) /\ Back(t)
      /\ UNCHANGED <<owner, data, pos, bufend, ptr, size, heap, fault, want, wpos, synced>>
  <2>1. Where(t) /\ cur[t] \in Stream \cup {NULL}
    BY <1>0, Zenon DEF WhereInv, LocalsType
  <2> QED
    BY <2>1 DEF make_entry, make_entry_fails, real_fclose, Where, Exclusive, libc, memory, asked
<1>2. /\ LocalsType' /\ (\A u \in Thread : u # t => Same(u)) /\ cur'[t] = NULL
      /\ pc'[t] = "user" /\ ~closing'[t] /\ byte_count'[t] = 0 /\ new_buf'[t] = NULL
  BY <1>0, <1>1, BackStep, Zenon
<1>3. Where(t)'
  BY <1>2 DEF Where, Filling
<1>4. AloneInv'
  BY <1>0, <1>2, AloneStep, Zenon
<1>5. PosInv'
  BY <1>0, <1>1 DEF PosInv
<1>6. CASE make_entry(t)
  <2>1. kind' = kind /\ listed' = listed \cup {cur[t]}
    BY <1>6, Zenon DEF make_entry, libc
  <2>2. StreamsType'
    BY <1>0, <1>1, <2>1, Zenon DEF StreamsType
  <2>3. fixed' \in [Stream -> [1..FixedSize -> Byte \cup {NUL, Old}]]
    BY <1>0, <1>1, <1>6, Zenon DEF make_entry, MemoryType
  <2>4. MemoryType'
    BY <1>0, <1>1, <2>3, ZenonT(60) DEF MemoryType
  <2>5. WhereInv'
    BY <1>0, <1>1, <1>2, <1>3, <2>1, WhereQuiet, Zenon
  <2> QED
    BY <1>2, <1>4, <1>5, <2>2, <2>4, <2>5, TypesTogether, PTL DEF TypeInv
<1>7. CASE make_entry_fails(t) \/ real_fclose(t)
  <2>1. kind' = [kind EXCEPT ![cur[t]] = "none"] /\ listed' = listed /\ fixed' = fixed
    BY <1>7 DEF make_entry_fails, real_fclose, memory
  <2>2. StreamsType' /\ MemoryType'
    BY <1>0, <1>1, <2>1, Zenon DEF StreamsType, MemoryType
  <2>3. WhereInv'
    BY <1>0, <1>1, <1>2, <1>3, <2>1, WhereClosed, Zenon
  <2> QED
    BY <1>2, <1>4, <1>5, <2>2, <2>3, TypesTogether, PTL DEF TypeInv
<1> QED
  BY <1>6, <1>7

LEMMA fputcType ==
    ASSUME TypeInv, NEW t \in Thread, NEW s \in Stream, NEW b \in Byte, fputc(t, s, b)
    PROVE  TypeInv'
<1>0. StreamsType /\ MemoryType /\ LocalsType /\ WhereInv /\ AloneInv /\ PosInv
  BY TypesTogether, Zenon DEF TypeInv
<1>1. /\ data' = [data EXCEPT ![s] = Put(data[s], pos[s], b)]
      /\ want' = [want EXCEPT ![s] = Put(want[s], wpos[s], b)]
      /\ pos' = [pos EXCEPT ![s] = pos[s] + 1] /\ wpos' = [wpos EXCEPT ![s] = wpos[s] + 1]
      /\ synced' = synced \ {s} /\ pos[s] < MaxLen /\ wpos[s] < MaxLen
      /\ UNCHANGED <<kind, owner, listed, bufend, memory, locals>>
  BY Zenon DEF fputc
<1>2. /\ data[s] \in Contents /\ want[s] \in Contents /\ pos[s] \in Nat /\ wpos[s] \in Nat
      /\ pos[s] <= Len(data[s]) /\ wpos[s] <= Len(want[s])
  BY <1>0, MemStreamAssumption DEF StreamsType, PosInv, Position
<1>3. /\ Put(data[s], pos[s], b) \in Contents /\ Put(want[s], wpos[s], b) \in Contents
      /\ pos[s] + 1 <= Len(Put(data[s], pos[s], b)) /\ Len(data[s]) <= Len(Put(data[s], pos[s], b))
      /\ wpos[s] + 1 <= Len(Put(want[s], wpos[s], b))
  BY <1>1, <1>2, PutType, Zenon
<1>4. pos[s] + 1 \in Position /\ wpos[s] + 1 \in Position
  BY <1>1, <1>2, MemStreamAssumption, SMTT(60) DEF Position
<1>5. StreamsType'
  BY <1>0, <1>1, <1>3, <1>4, Zenon DEF StreamsType
<1>6. MemoryType' /\ LocalsType'
  BY <1>0, <1>1, Zenon DEF MemoryType, LocalsType, memory, locals
<1>7. PosInv'
  BY <1>0, <1>1, <1>3, Zenon DEF PosInv, StreamsType
<1>8. AloneInv'
  BY <1>0, <1>1, Zenon DEF AloneInv, Exclusive, locals
<1>9. WhereInv'
  <2>1. SUFFICES ASSUME NEW u \in Thread PROVE Where(u)'
    BY Zenon DEF WhereInv
  <2>2. Where(u) /\ byte_count[u] \in Nat
    BY <1>0, MemStreamAssumption, SMTT(60) DEF WhereInv, LocalsType, Position
  <2>3. cur[u] # NULL => byte_count[u] <= Len(data'[cur[u]])
    <3>1. SUFFICES ASSUME cur[u] # NULL PROVE byte_count[u] <= Len(data'[cur[u]])
      BY SMTT(60)
    <3>2. cur[u] \in Stream /\ byte_count[u] <= Len(data[cur[u]])
      BY <1>0, <2>2, <3>1, Zenon DEF Where, LocalsType
    <3>3. Len(data[cur[u]]) \in Nat /\ Len(data'[cur[u]]) \in Nat /\ Len(data[cur[u]]) <= Len(data'[cur[u]])
      <4>1. CASE cur[u] = s
        BY <1>0, <1>1, <1>2, <1>3, <4>1, ContentsType, Zenon DEF StreamsType
      <4>2. CASE cur[u] # s
        <5>1. data'[cur[u]] = data[cur[u]]
          BY <1>0, <1>1, <3>2, <4>2, Zenon DEF StreamsType
        <5>2. Len(data[cur[u]]) \in Nat
          BY <1>0, <3>2, ContentsType, Zenon DEF StreamsType
        <5> QED
          BY <5>1, <5>2, SMTT(60)
      <4> QED
        BY <4>1, <4>2, Zenon
    <3> QED
      BY <2>2, <3>2, <3>3, SMTT(60)
  <2> QED
    BY <1>1, <2>2, <2>3, Zenon DEF Where, locals
<1> QED
  BY <1>5, <1>6, <1>7, <1>8, <1>9, TypesTogether, PTL DEF TypeInv

LEMMA CallerType ==
    ASSUME TypeInv, NEW s \in Stream,
           (\E t \in Thread, p \in Position : fseek(t, s, p)) \/ FreePtr(s)
    PROVE  TypeInv'
<1>0. StreamsType /\ MemoryType /\ LocalsType /\ WhereInv /\ AloneInv /\ PosInv
  BY TypesTogether, Zenon DEF TypeInv
<1>1. UNCHANGED <<kind, data, locals, owner, listed, bufend, want>> /\ synced' = synced \ {s}
  BY Zenon DEF fseek, FreePtr, libc
<1>2. LocalsType' /\ WhereInv' /\ AloneInv'
  BY <1>0, <1>1 DEF LocalsType, WhereInv, Where, AloneInv, Exclusive, locals
<1>3. CASE \E t \in Thread, p \in Position : fseek(t, s, p)
  <2>1. PICK t \in Thread, p \in Position : fseek(t, s, p)
    BY <1>3, Zenon
  <2>2. /\ p <= Len(data[s]) /\ p <= Len(want[s]) /\ UNCHANGED memory
        /\ pos' = [pos EXCEPT ![s] = p] /\ wpos' = [wpos EXCEPT ![s] = p]
    BY <2>1 DEF fseek
  <2>3. StreamsType' /\ MemoryType' /\ PosInv'
    BY <1>0, <1>1, <2>2, Zenon DEF StreamsType, MemoryType, PosInv, memory
  <2> QED
    BY <1>2, <2>3, TypesTogether, PTL DEF TypeInv
<1>4. CASE FreePtr(s)
  <2>1. /\ heap' = [heap EXCEPT ![ptr[s]] = NULL] /\ ptr' = [ptr EXCEPT ![s] = NULL]
        /\ UNCHANGED <<pos, wpos, fixed, size, fault>>
    BY <1>4 DEF FreePtr, libc
  <2>2. StreamsType' /\ PosInv' /\ MemoryType'
    BY <1>0, <1>1, <2>1, Zenon DEF StreamsType, PosInv, MemoryType
  <2> QED
    BY <1>2, <2>2, TypesTogether, PTL DEF TypeInv
<1> QED
  BY <1>3, <1>4, Zenon

LEMMA EnterType ==
    ASSUME TypeInv, NEW t \in Thread, NEW s \in Stream, fflush(t, s) \/ fclose(t, s)
    PROVE  TypeInv'
<1>0. StreamsType /\ MemoryType /\ LocalsType /\ WhereInv /\ AloneInv /\ PosInv
  BY TypesTogether, SMTT(60) DEF TypeInv
<1>1. /\ UNCHANGED <<libc, memory, byte_count, new_buf, asked>>
      /\ listed' \subseteq listed /\ bufend' \subseteq bufend
  BY ZenonT(60) DEF fflush, fclose
<1>2. StreamsType' /\ MemoryType' /\ PosInv'
  BY <1>0, <1>1, ZenonT(60) DEF StreamsType, MemoryType, PosInv, libc, memory, asked
<1>3. /\ Where(t) /\ pc[t] = "user" /\ kind[s] # "none" /\ s # NULL
      /\ \A u \in Thread : cur[u] = s => ~Exclusive(u)
  BY <1>0, MemStreamAssumption, Zenon DEF WhereInv, fflush, fclose, Uses, Exclusive
<1>4. byte_count[t] <= Len(data[s])
  <2>1. byte_count[t] = 0 /\ Len(data[s]) \in Nat
    BY <1>0, <1>3, ContentsType, Zenon DEF Where, StreamsType
  <2> QED
    BY <2>1, SMTT(60)
<1>5. CASE fflush(t, s)
  <2>1. /\ LocalsType' /\ \A u \in Thread : u # t => Same(u)
        /\ pc'[t] = "ftell" /\ cur'[t] = s /\ closing'[t] = closing[t]
        /\ byte_count'[t] = byte_count[t] /\ new_buf'[t] = new_buf[t]
    BY <1>0, <1>5, Zenon DEF fflush, Goto, LocalsType, Label, Same
  <2>2. Where(t)'
    BY <1>1, <1>3, <1>4, <2>1, ZenonT(60) DEF Where, Filling, libc
  <2>3. WhereInv'
    BY <1>0, <1>1, <2>1, <2>2, WhereQuiet, ZenonT(60) DEF libc
  <2>4. ~Exclusive(t)'
    BY <1>3, <2>1, ZenonT(60) DEF Where, Exclusive
  <2>5. AloneInv'
    BY <1>0, <1>3, <2>1, <2>4, AloneStep, Zenon
  <2> QED
    BY <1>2, <2>1, <2>3, <2>5, TypesTogether, PTL DEF TypeInv
<1>6. CASE fclose(t, s)
  <2>1. /\ LocalsType' /\ \A u \in Thread : u # t => Same(u)
        /\ pc'[t] \in {"ftell", "real_fclose"} /\ cur'[t] = s /\ closing'[t] = TRUE
        /\ byte_count'[t] = byte_count[t] /\ new_buf'[t] = new_buf[t]
    BY <1>0, <1>6, ZenonT(60) DEF fclose, Goto, LocalsType, Label, Same
  <2>2. Where(t)'
    BY <1>1, <1>3, <1>4, <2>1, Zenon DEF Where, Filling, libc
  <2>3. WhereInv'
    BY <1>0, <1>1, <2>1, <2>2, WhereQuiet, Zenon DEF libc
  <2>4. \A u \in Thread : cur[u] # s
    BY <1>6, Zenon DEF fclose, Busy
  <2>5. AloneInv'
    BY <1>0, <1>3, <2>1, <2>4, AloneStep, Zenon
  <2> QED
    BY <1>2, <2>1, <2>3, <2>5, TypesTogether, PTL DEF TypeInv
<1> QED
  BY <1>5, <1>6, Zenon

------------------------------------------------------------------------------
(* The steps of memstream_sync change no contents and no kind. *)
LEMMA SyncType ==
    ASSUME TypeInv, NEW t \in Thread, StreamsType', MemoryType', LocalsType', PosInv',
           kind' = kind, data' = data, \A u \in Thread : u # t => Same(u), Where(t)',
           \/ cur'[t] = NULL
           \/ cur'[t] = cur[t] /\ closing'[t] = closing[t] /\ pc'[t] # "make_entry"
    PROVE  TypeInv'
<1>0. StreamsType /\ LocalsType /\ WhereInv /\ AloneInv
  BY TypesTogether, Zenon DEF TypeInv
<1>1. WhereInv'
  BY <1>0, WhereQuiet, Zenon
<1>2. AloneInv'
  BY <1>0, AloneStep, Zenon DEF Exclusive
<1> QED
  BY <1>1, <1>2, TypesTogether, PTL DEF TypeInv

LEMMA ftellType ==
    ASSUME TypeInv, NEW t \in Thread, ftell(t)
    PROVE  TypeInv'
<1>0. StreamsType /\ MemoryType /\ LocalsType /\ Where(t) /\ PosInv
  BY TypesTogether, Zenon DEF TypeInv, WhereInv
<1>1. UNCHANGED <<libc, listed, bufend, memory, asked>> /\ pc[t] = "ftell" /\ cur[t] \in Stream
  BY <1>0 DEF ftell, Where, LocalsType
<1>2. StreamsType' /\ MemoryType' /\ PosInv'
  BY <1>0, <1>1, Zenon DEF StreamsType, MemoryType, PosInv, libc, memory, asked
<1>3. CASE /\ byte_count' = [byte_count EXCEPT ![t] = pos[cur[t]]] /\ Goto(t, "rewind")
           /\ UNCHANGED <<cur, closing, new_buf>>
  <2>1. /\ LocalsType' /\ \A u \in Thread : u # t => Same(u)
        /\ pc'[t] = "rewind" /\ cur'[t] = cur[t] /\ closing'[t] = closing[t]
        /\ byte_count'[t] = pos[cur[t]] /\ new_buf'[t] = new_buf[t]
    BY <1>0, <1>1, <1>3, Zenon DEF Goto, LocalsType, StreamsType, Label, Same
  <2>2. Where(t)'
    BY <1>0, <1>1, <2>1, Zenon DEF Where, Filling, PosInv, libc
  <2> QED
    BY <1>1, <1>2, <2>1, <2>2, SyncType, Zenon DEF libc
<1>4. CASE SyncReturns(t)
  <2>1. Where(t)'
    BY <1>0, <1>1, <1>4, SyncReturnsStep, Zenon DEF Where, Filling, libc
  <2> QED
    BY <1>0, <1>1, <1>2, <1>4, <2>1, SyncReturnsStep, SyncType, Zenon DEF libc
<1> QED
  BY <1>3, <1>4, Zenon DEF ftell

LEMMA rewindType ==
    ASSUME TypeInv, NEW t \in Thread, rewind(t) \/ malloc_fails(t)
    PROVE  TypeInv'
<1>0. StreamsType /\ MemoryType /\ LocalsType /\ Where(t) /\ PosInv
  BY TypesTogether, Zenon DEF TypeInv, WhereInv
<1>1. /\ UNCHANGED <<kind, owner, data, listed, bufend, memory, cur, closing, byte_count, new_buf, asked>>
      /\ pc[t] \in {"rewind", "malloc"} /\ cur[t] \in Stream
      /\ pos' = pos \/ pos' = [pos EXCEPT ![cur[t]] = 0]
  BY <1>0, Zenon DEF rewind, malloc_fails, Where, LocalsType, libc
<1>2. 0 \in Position /\ \A s \in Stream : Len(data[s]) \in Nat
  BY <1>0, MemStreamAssumption, ContentsType, SMTT(60) DEF Position, StreamsType
<1>3. StreamsType' /\ MemoryType' /\ PosInv'
  <2>1. pos' \in [Stream -> Position] /\ \A s \in Stream : pos'[s] \in {0, pos[s]}
    BY <1>0, <1>1, <1>2, ZenonT(60) DEF StreamsType
  <2>2. StreamsType' /\ MemoryType'
    BY <1>0, <1>1, <2>1, Zenon DEF StreamsType, MemoryType, memory, asked
  <2>3. PosInv'
    BY <1>0, <1>1, <1>2, <2>1, RewoundPos, Zenon DEF PosInv, asked
  <2> QED
    BY <2>2, <2>3
<1>4. /\ LocalsType' /\ \A u \in Thread : u # t => Same(u)
      /\ pc'[t] \in {"fread_fixed", "malloc", "fseek"}
      /\ pc'[t] = "fseek" => pc[t] = "malloc"
  BY <1>0, <1>1, ZenonT(60) DEF rewind, malloc_fails, Goto, LocalsType, Label, Same
<1>5. Where(t)'
  BY <1>0, <1>1, <1>4, Zenon DEF Where, Filling
<1> QED
  BY <1>1, <1>3, <1>4, <1>5, SyncType, Zenon

LEMMA fread_fixedType ==
    ASSUME TypeInv, NEW t \in Thread, fread_fixed(t)
    PROVE  TypeInv'
<1>0. StreamsType /\ MemoryType /\ LocalsType /\ Where(t) /\ PosInv
  BY TypesTogether, Zenon DEF TypeInv, WhereInv
<1> DEFINE s == cur[t]
           n == IF byte_count[t] > FixedSize THEN FixedSize ELSE byte_count[t]
           got == Available(s, n)
<1>1. /\ UNCHANGED <<kind, owner, data, listed, bufend, ptr, size, heap, fault, cur, closing, byte_count, new_buf, want, wpos>>
      /\ pc[t] = "fread_fixed" /\ s \in Stream /\ Goto(t, "fseek")
      /\ pos' = [pos EXCEPT ![s] = pos[s] + got] /\ synced' = synced \cup {s}
      /\ fixed' = [fixed EXCEPT ![s] = [i \in 1..FixedSize |->
                     IF i <= got THEN data[s][pos[s] + i]
                     ELSE IF i = n + 1 THEN NUL ELSE fixed[s][i]]]
  BY <1>0, Zenon DEF fread_fixed, Where, LocalsType
<1>2. n \in Nat
  BY <1>0, MemStreamAssumption, SMTT(60) DEF LocalsType, Position
<1>3. /\ data[s] \in Contents /\ pos[s] \in Nat /\ pos[s] <= Len(data[s])
      /\ Len(data[s]) \in Nat /\ Len(data[s]) <= MaxLen /\ \A i \in 1..Len(data[s]) : data[s][i] \in Byte
  BY <1>0, <1>1, ReadBounds, Zenon
<1>4. got \in Nat /\ pos[s] + got <= Len(data[s]) /\ got <= n
  BY <1>1, <1>2, <1>3, AvailableType, Zenon
<1> HIDE DEF n, got
<1>5. pos[s] + got \in Position
  BY <1>3, <1>4, MemStreamAssumption, SMTT(60) DEF Position
<1>6. StreamsType'
  BY <1>0, <1>1, <1>5, ZenonT(60) DEF StreamsType
<1>7. PosInv'
  BY <1>0, <1>1, <1>4, ZenonT(60) DEF PosInv, StreamsType
<1>8. MemoryType'
  <2>1. \A i \in 1..FixedSize : i <= got => data[s][pos[s] + i] \in Byte
    BY <1>3, <1>4, MemStreamAssumption, SMTT(60)
  <2>4. \A i \in 1..FixedSize : fixed[s][i] \in Byte \cup {NUL, Old}
    BY <1>0, <1>1, ZenonT(60) DEF MemoryType
  <2>2. [i \in 1..FixedSize |-> IF i <= got THEN data[s][pos[s] + i]
                                ELSE IF i = n + 1 THEN NUL ELSE fixed[s][i]]
            \in [1..FixedSize -> Byte \cup {NUL, Old}]
    BY <2>1, <2>4
  <2>3. fixed' \in [Stream -> [1..FixedSize -> Byte \cup {NUL, Old}]]
    BY <1>0, <1>1, <2>2, ZenonT(60) DEF MemoryType
  <2> QED
    BY <1>0, <1>1, <2>3, Zenon DEF MemoryType
<1>9. LocalsType' /\ pc'[t] = "fseek" /\ \A u \in Thread : u # t => Same(u)
  BY <1>0, <1>1, Zenon DEF Goto, LocalsType, Label, Same
<1>10. Where(t)'
  BY <1>0, <1>1, <1>9, Zenon DEF Where, Filling
<1> QED
  BY <1>1, <1>6, <1>7, <1>8, <1>9, <1>10, SyncType, ZenonT(60)

LEMMA BlockType ==
    ASSUME NEW n \in Position, NEW f, \A i \in 1..n : f[i] \in Byte \cup {Junk}
    PROVE  [i \in 1..n |-> f[i]] \in Block
BY SMTT(60) DEF Block

LEMMA mallocType ==
    ASSUME TypeInv, NEW t \in Thread, NEW b \in Buf, malloc(t, b)
    PROVE  TypeInv'
<1>0. StreamsType /\ MemoryType /\ LocalsType /\ Where(t) /\ PosInv
  BY TypesTogether, Zenon DEF TypeInv, WhereInv
<1>1. /\ UNCHANGED <<libc, listed, bufend, fixed, ptr, size, fault, cur, closing, byte_count, asked>>
      /\ pc[t] = "malloc" /\ cur[t] # NULL /\ Goto(t, "fread") /\ b # NULL
      /\ new_buf' = [new_buf EXCEPT ![t] = b]
      /\ heap' = [heap EXCEPT ![b] = [i \in 1..byte_count[t] |-> Junk]]
  BY <1>0, MemStreamAssumption, ZenonT(60) DEF malloc, Where
<1>2. StreamsType' /\ PosInv'
  BY <1>0, <1>1, ZenonT(60) DEF StreamsType, PosInv, libc, asked
<1>3. [i \in 1..byte_count[t] |-> Junk] \in Block
  BY <1>0 DEF Block, LocalsType
<1>4. MemoryType'
  BY <1>0, <1>1, <1>3, Zenon DEF MemoryType
<1>5. /\ LocalsType' /\ pc'[t] = "fread" /\ new_buf'[t] = b /\ \A u \in Thread : u # t => Same(u)
  BY <1>0, <1>1, Zenon DEF Goto, LocalsType, Label, Same
<1>6. Where(t)'
  BY <1>0, <1>1, <1>5, Zenon DEF Where, Filling, libc
<1> QED
  BY <1>1, <1>2, <1>4, <1>5, <1>6, SyncType, ZenonT(60) DEF libc

(* What fread puts into the new block. *)
Read(t) == [i \in 1..byte_count[t] |->
               IF i <= Available(cur[t], byte_count[t]) THEN data[cur[t]][pos[cur[t]] + i] ELSE Junk]

LEMMA ReadType ==
    ASSUME StreamsType, LocalsType, PosInv, NEW t \in Thread, cur[t] \in Stream
    PROVE  Read(t) \in Block
<1> DEFINE s == cur[t]
           got == Available(s, byte_count[t])
<1>1. byte_count[t] \in Nat /\ byte_count[t] \in Position
  BY MemStreamAssumption, SMTT(60) DEF LocalsType, Position
<1>2. /\ data[s] \in Contents /\ pos[s] \in Nat /\ pos[s] <= Len(data[s])
      /\ Len(data[s]) \in Nat /\ \A i \in 1..Len(data[s]) : data[s][i] \in Byte
  BY ReadBounds, Zenon
<1>3. got \in Nat /\ pos[s] + got <= Len(data[s])
  BY <1>1, <1>2, AvailableType, Zenon
<1>4. Read(t) = [i \in 1..byte_count[t] |-> IF i <= got THEN data[s][pos[s] + i] ELSE Junk]
  BY Zenon DEF Read
<1> HIDE DEF got
<1>5. \A i \in 1..byte_count[t] : i <= got => data[s][pos[s] + i] \in Byte
  BY <1>1, <1>2, <1>3, SMTT(60)
<1> QED
  BY <1>1, <1>4, <1>5, SMTT(60) DEF Block

LEMMA freadType ==
    ASSUME TypeInv, NEW t \in Thread, fread(t)
    PROVE  TypeInv'
<1>0. StreamsType /\ MemoryType /\ LocalsType /\ Where(t) /\ PosInv
  BY TypesTogether DEF TypeInv, WhereInv
<1> DEFINE s == cur[t]
           got == Available(s, byte_count[t])
<1>1. /\ UNCHANGED <<kind, owner, data, listed, bufend, fixed, ptr, size, fault, cur, closing, byte_count, new_buf, asked>>
      /\ pc[t] = "fread" /\ s \in Stream /\ Goto(t, "free") /\ new_buf[t] \in Buf
      /\ pos' = [pos EXCEPT ![s] = pos[s] + got]
      /\ heap' = [heap EXCEPT ![new_buf[t]] = [i \in 1..byte_count[t] |->
                    IF i <= got THEN data[s][pos[s] + i] ELSE Junk]]
  BY <1>0, ZenonT(60) DEF fread, Where, LocalsType, Filling
<1>2. byte_count[t] \in Nat /\ byte_count[t] \in Position
  BY <1>0, MemStreamAssumption, SMTT(60) DEF LocalsType, Position
<1>3. /\ data[s] \in Contents /\ pos[s] \in Nat /\ pos[s] <= Len(data[s])
      /\ Len(data[s]) \in Nat /\ Len(data[s]) <= MaxLen /\ \A i \in 1..Len(data[s]) : data[s][i] \in Byte
  BY <1>0, <1>1, ReadBounds, Zenon
<1>4. got \in Nat /\ pos[s] + got <= Len(data[s]) /\ got <= byte_count[t]
  BY <1>1, <1>2, <1>3, AvailableType, ZenonT(60)
<1> HIDE DEF got
<1>5. pos[s] + got \in Position
  BY <1>3, <1>4, MemStreamAssumption, SMTT(60) DEF Position
<1>6. StreamsType'
  BY <1>0, <1>1, <1>5, ZenonT(60) DEF StreamsType, asked
<1>7. PosInv'
  BY <1>0, <1>1, <1>4 DEF PosInv, StreamsType, asked
<1>8. MemoryType'
  <2>1. heap' = [heap EXCEPT ![new_buf[t]] = Read(t)]
    BY Zenon DEF fread, Read
  <2>2. Read(t) \in Block
    BY <1>0, <1>1, ReadType, ZenonT(60)
  <2> QED
    BY <1>0, <1>1, <2>1, <2>2, ZenonT(60) DEF MemoryType
<1>9. LocalsType' /\ pc'[t] = "free" /\ \A u \in Thread : u # t => Same(u)
  BY <1>0, <1>1, ZenonT(60) DEF Goto, LocalsType, Label, Same
<1>10. Where(t)'
  BY <1>0, <1>1, <1>9, Zenon DEF Where, Filling
<1> QED
  BY <1>1, <1>6, <1>7, <1>8, <1>9, <1>10, SyncType, ZenonT(60)

LEMMA freeType ==
    ASSUME TypeInv, NEW t \in Thread, free(t) \/ assign(t)
    PROVE  TypeInv'
<1>0. StreamsType /\ MemoryType /\ LocalsType /\ Where(t) /\ PosInv
  BY TypesTogether DEF TypeInv, WhereInv
<1>1. /\ UNCHANGED <<libc, listed, bufend, fixed, cur, closing, byte_count, new_buf, want, wpos>>
      /\ pc[t] \in {"free", "assign"} /\ cur[t] \in Stream
      /\ Goto(t, "assign") \/ Goto(t, "fseek")
      /\ synced' \subseteq synced \cup {cur[t]}
  BY <1>0, ZenonT(60) DEF free, assign, Where, LocalsType, Filling, libc
<1>2. StreamsType' /\ PosInv'
  BY <1>0, <1>1, ZenonT(60) DEF StreamsType, PosInv, libc
<1>3. MemoryType'
  <2>1. CASE free(t)
    BY <1>0, <1>1, <2>1, Zenon DEF free, MemoryType
  <2>2. CASE assign(t)
    BY <1>0, <1>1, <2>2, Zenon DEF assign, MemoryType, LocalsType
  <2> QED
    BY <2>1, <2>2
<1>4. LocalsType' /\ pc'[t] \in {"assign", "fseek"} /\ \A u \in Thread : u # t => Same(u)
  BY <1>0, <1>1, Zenon DEF Goto, LocalsType, Label, Same
<1>5. Where(t)'
  BY <1>0, <1>1, <1>4, ZenonT(60) DEF Where, Filling, libc
<1> QED
  BY <1>1, <1>2, <1>3, <1>4, <1>5, SyncType, ZenonT(60) DEF libc

LEMMA fseek_to_endType ==
    ASSUME TypeInv, NEW t \in Thread, fseek_to_end(t)
    PROVE  TypeInv'
<1>0. StreamsType /\ MemoryType /\ LocalsType /\ Where(t) /\ PosInv
  BY TypesTogether DEF TypeInv, WhereInv
<1>1. /\ UNCHANGED <<kind, owner, data, listed, bufend, memory, asked>> /\ SyncReturns(t)
      /\ pc[t] = "fseek" /\ cur[t] \in Stream /\ pos' = [pos EXCEPT ![cur[t]] = byte_count[t]]
      /\ byte_count[t] <= Len(data[cur[t]]) /\ byte_count[t] \in Position
  BY <1>0, Zenon DEF fseek_to_end, Where, LocalsType
<1>2. StreamsType' /\ MemoryType' /\ PosInv'
  BY <1>0, <1>1, ZenonT(60) DEF StreamsType, MemoryType, PosInv, memory, asked
<1>3. Where(t)'
  BY <1>0, <1>1, SyncReturnsStep, ZenonT(60) DEF Where, Filling
<1> QED
  BY <1>0, <1>1, <1>2, <1>3, SyncReturnsStep, SyncType, ZenonT(60)

LEMMA TypeStep == TypeInv /\ [Next]_vars => TypeInv'
<1> SUFFICES ASSUME TypeInv, [Next]_vars PROVE TypeInv'
  BY SMTT(60)
<1>1. CASE UNCHANGED vars
  BY <1>1, Zenon DEF TypeInv, TypeOK, WhereInv, Where, AloneInv, Exclusive, PosInv, vars, libc, memory,
              locals, asked
<1>2. ASSUME NEW t \in Thread, NEW s \in Stream,
             \/ \E k \in Kind : Open(t, k, s)
             \/ \E b \in Byte : fputc(t, s, b)
             \/ \E q \in Position : fseek(t, s, q)
             \/ fflush(t, s) \/ fclose(t, s)
      PROVE  TypeInv'
  BY <1>2, OpenType, fputcType, CallerType, EnterType, Zenon
<1>3. ASSUME NEW t \in Thread, Inside(t) PROVE TypeInv'
  BY <1>3, EntryType, ftellType, rewindType, fread_fixedType, mallocType, freadType, freeType,
     fseek_to_endType, Zenon DEF Inside, Sync
<1>4. ASSUME NEW s \in Stream, FreePtr(s) PROVE TypeInv'
  BY <1>4, CallerType
<1> QED
  BY <1>1, <1>2, <1>3, <1>4, Zenon DEF Next

LEMMA TypeInvariant == Spec => []TypeInv
BY TypeInit, TypeStep, PTL DEF Spec

(* memstream.c:24 - every variable stays in its type: in particular the    *)
(* caller's fixed buffer never grows past the size given to fmemopen, and  *)
(* the position never passes the end of the temporary file.                *)
THEOREM MemStreamTypes == Spec => []TypeOK
<1>1. TypeInv => TypeOK
  BY DEF TypeInv
<1> QED
  BY <1>1, TypeInvariant, PTL

------------------------------------------------------------------------------
(* The list of entries.  A step of memstream_sync keeps the stream, or     *)
(* returns from fflush.                                                    *)
LEMMA SyncFrame ==
    ASSUME TypeInv, NEW t \in Thread, Sync(t)
    PROVE  /\ UNCHANGED <<kind, owner, data, listed, bufend, want, wpos>>
           /\ \A u \in Thread : u # t => Same(u)
           /\ cur[t] \in Stream /\ pc[t] \notin {"user", "make_entry", "real_fclose"}
           /\ \/ /\ cur'[t] = cur[t] /\ closing'[t] = closing[t]
                 /\ pc'[t] \notin {"user", "make_entry"}
              \/ cur'[t] = NULL /\ ~closing[t] /\ ~closing'[t] /\ pc'[t] = "user"
<1>0. LocalsType /\ Where(t)
  BY TypesTogether, Zenon DEF TypeInv, WhereInv
<1>1. UNCHANGED <<kind, owner, data, listed, bufend, want, wpos>>
  BY Zenon DEF Sync, ftell, rewind, fread_fixed, malloc, malloc_fails, fread, free, assign, fseek_to_end,
         libc, asked
<1>2. /\ pc[t] \notin {"user", "make_entry", "real_fclose"}
      /\ SyncReturns(t) \/ \E label \in Label \ {"user", "make_entry"} :
             Goto(t, label) /\ UNCHANGED <<cur, closing>> /\ \A u \in Thread : u # t =>
                 byte_count'[u] = byte_count[u] /\ new_buf'[u] = new_buf[u]
  <2>1. CASE ftell(t)
    BY <1>0, <2>1, Zenon DEF ftell, Label, LocalsType
  <2>2. CASE rewind(t)
    BY <2>2, Zenon DEF rewind, Label
  <2>3. CASE fread_fixed(t)
    BY <2>3, Zenon DEF fread_fixed, Label
  <2>4. CASE \E b \in Buf : malloc(t, b)
    BY <1>0, <2>4, Zenon DEF malloc, Label, LocalsType
  <2>5. CASE malloc_fails(t)
    BY <2>5, Zenon DEF malloc_fails, Label
  <2>6. CASE fread(t)
    BY <2>6, Zenon DEF fread, Label
  <2>7. CASE free(t)
    BY <2>7, ZenonT(60) DEF free, Label
  <2>8. CASE assign(t)
    BY <2>8, ZenonT(60) DEF assign, Label
  <2>9. CASE fseek_to_end(t)
    BY <2>9, Zenon DEF fseek_to_end
  <2> QED
    BY <2>1, <2>2, <2>3, <2>4, <2>5, <2>6, <2>7, <2>8, <2>9, ZenonT(60) DEF Sync
<1>3. cur[t] \in Stream
  BY <1>0, <1>2, Zenon DEF Where, LocalsType
<1>4. CASE SyncReturns(t)
  BY <1>0, <1>1, <1>2, <1>3, <1>4, SyncReturnsStep, Zenon
<1>5. CASE ~SyncReturns(t)
  <2>1. PICK label \in Label \ {"user", "make_entry"} :
             Goto(t, label) /\ UNCHANGED <<cur, closing>> /\ \A u \in Thread : u # t =>
                 byte_count'[u] = byte_count[u] /\ new_buf'[u] = new_buf[u]
    BY <1>2, <1>5, ZenonT(60)
  <2>2. pc'[t] = label /\ \A u \in Thread : u # t => pc'[u] = pc[u]
    BY <1>0, <2>1, GotoStep, Zenon
  <2> QED
    BY <1>1, <1>2, <1>3, <2>1, <2>2, Zenon DEF Same
<1> QED
  BY <1>4, <1>5, Zenon

LEMMA ListedMeans ==
    RegistryExact <=> \A s \in Stream :
        s \in listed <=> kind[s] # "none" /\ \A t \in Thread : cur[t] = s => ~Exclusive(t)
BY SMTT(60) DEF RegistryExact, Exclusive

LEMMA RegistryStep == TypeInv /\ RegistryExact /\ [Next]_vars => RegistryExact'
<1> SUFFICES ASSUME TypeInv, RegistryExact, [Next]_vars PROVE RegistryExact'
  OBVIOUS
<1>0. StreamsType /\ LocalsType /\ WhereInv /\ AloneInv
  BY TypesTogether DEF TypeInv
<1>1. \A r \in Stream :
        r \in listed <=> kind[r] # "none" /\ \A u \in Thread : cur[u] = r => ~Exclusive(u)
  BY ListedMeans, Zenon
<1>2. SUFFICES \A r \in Stream :
        r \in listed' <=> kind'[r] # "none" /\ \A u \in Thread : cur'[u] = r => ~Exclusive(u)'
  BY Zenon DEF RegistryExact, Exclusive
<1>3. CASE UNCHANGED <<listed, kind, pc, cur, closing>>
  BY <1>1, <1>3, Zenon DEF Exclusive
<1>4. ASSUME NEW t \in Thread, NEW s \in Stream, NEW k \in Kind, Open(t, k, s)
      PROVE  \A r \in Stream :
        r \in listed' <=> kind'[r] # "none" /\ \A u \in Thread : cur'[u] = r => ~Exclusive(u)'
  <2>1. /\ listed' = listed /\ kind'[s] = k /\ \A r \in Stream : r # s => kind'[r] = kind[r]
        /\ kind[s] = "none" /\ pc'[t] = "make_entry" /\ cur'[t] = s /\ pc[t] = "user"
        /\ \A u \in Thread : u # t => cur'[u] = cur[u] /\ (Exclusive(u)' <=> Exclusive(u))
    BY <1>0, <1>4, ZenonT(60) DEF Open, Goto, StreamsType, LocalsType, Exclusive
  <2>2. Exclusive(t)' /\ cur[t] = NULL
    BY <1>0, <2>1, ZenonT(60) DEF Exclusive, WhereInv, Where
  <2>3. NULL \notin Stream
    BY MemStreamAssumption, Zenon
  <2> QED
    BY <1>1, <2>1, <2>2, <2>3, SMTT(60)
<1>5. ASSUME NEW t \in Thread, make_entry(t) \/ make_entry_fails(t) \/ real_fclose(t)
      PROVE  \A r \in Stream :
        r \in listed' <=> kind'[r] # "none" /\ \A u \in Thread : cur'[u] = r => ~Exclusive(u)'
  <2>1. /\ pc[t] \in {"make_entry", "real_fclose"} /\ Back(t)
    BY <1>5, Zenon DEF make_entry, make_entry_fails, real_fclose
  <2>2. /\ cur[t] \in Stream /\ Exclusive(t) /\ kind[cur[t]] # "none" /\ NULL \notin Stream
    BY <1>0, <2>1, MemStreamAssumption, Zenon DEF WhereInv, Where, LocalsType, Exclusive
  <2>3. /\ cur'[t] = NULL
        /\ \A u \in Thread : u # t => cur'[u] = cur[u] /\ (Exclusive(u)' <=> Exclusive(u)) /\ cur[u] # cur[t]
    BY <1>0, <2>1, <2>2, BackStep, ZenonT(60) DEF Same, Exclusive, AloneInv
  <2>4. CASE make_entry(t)
    <3>1. kind' = kind /\ listed' = listed \cup {cur[t]}
      BY <2>4, Zenon DEF make_entry, libc
    <3> QED
      BY <1>1, <2>2, <2>3, <3>1, ZenonT(60)
  <2>5. CASE make_entry_fails(t) \/ real_fclose(t)
    <3>1. kind'[cur[t]] = "none" /\ listed' = listed /\ \A r \in Stream : r # cur[t] => kind'[r] = kind[r]
      BY <1>0, <2>2, <2>5, Zenon DEF make_entry_fails, real_fclose, StreamsType
    <3> QED
      BY <1>1, <2>2, <2>3, <3>1, SMTT(60)
  <2> QED
    BY <1>5, <2>4, <2>5, ZenonT(60)
<1>6. ASSUME NEW t \in Thread, NEW s \in Stream, fflush(t, s) \/ fclose(t, s)
      PROVE  \A r \in Stream :
        r \in listed' <=> kind'[r] # "none" /\ \A u \in Thread : cur'[u] = r => ~Exclusive(u)'
  <2>1. /\ kind' = kind /\ pc[t] = "user" /\ cur'[t] = s
        /\ \A u \in Thread : u # t => cur'[u] = cur[u] /\ (Exclusive(u)' <=> Exclusive(u))
    BY <1>0, <1>6, ZenonT(60) DEF fflush, fclose, Uses, Goto, libc, LocalsType, Exclusive
  <2>2. cur[t] = NULL /\ ~closing[t] /\ NULL \notin Stream
    BY <1>0, <2>1, MemStreamAssumption, ZenonT(60) DEF WhereInv, Where
  <2>3. CASE fflush(t, s)
    <3>1. listed' = listed /\ ~Exclusive(t)'
      BY <1>0, <2>2, <2>3, Zenon DEF fflush, Goto, LocalsType, Exclusive
    <3> QED
      BY <1>1, <2>1, <2>2, <3>1, ZenonT(60)
  <2>4. CASE fclose(t, s)
    <3>1. listed' = listed \ {s} /\ Exclusive(t)'
      BY <1>0, <2>4, Zenon DEF fclose, Goto, LocalsType, Exclusive
    <3> QED
      BY <1>1, <2>1, <2>2, <3>1, ZenonT(60)
  <2> QED
    BY <1>6, <2>3, <2>4, Zenon
<1>7. ASSUME NEW t \in Thread, Sync(t)
      PROVE  \A r \in Stream :
        r \in listed' <=> kind'[r] # "none" /\ \A u \in Thread : cur'[u] = r => ~Exclusive(u)'
  <2>1. /\ listed' = listed /\ kind' = kind /\ NULL \notin Stream
        /\ \A u \in Thread : u # t => cur'[u] = cur[u] /\ (Exclusive(u)' <=> Exclusive(u))
        /\ \/ cur'[t] = cur[t] /\ (Exclusive(t)' <=> Exclusive(t))
           \/ cur'[t] = NULL /\ ~Exclusive(t)
    BY <1>7, SyncFrame, MemStreamAssumption, Zenon DEF Same, Exclusive
  <2> QED
    BY <1>1, <2>1, ZenonT(60)
<1> QED
  <2>1. ASSUME NEW t \in Thread, NEW s \in Stream,
               (\E b \in Byte : fputc(t, s, b)) \/ (\E q \in Position : fseek(t, s, q))
        PROVE  UNCHANGED <<listed, kind, pc, cur, closing>>
    BY <2>1, Zenon DEF fputc, fseek, locals
  <2>2. ASSUME NEW s \in Stream, FreePtr(s)
        PROVE  UNCHANGED <<listed, kind, pc, cur, closing>>
    BY <2>2, Zenon DEF FreePtr, locals, libc
  <2>3. UNCHANGED vars => UNCHANGED <<listed, kind, pc, cur, closing>>
    BY DEF vars, libc, locals
  <2> QED
    BY <1>3, <1>4, <1>5, <1>6, <1>7, <2>1, <2>2, <2>3, ZenonT(60) DEF Next, Inside

(* memstream.c:307 - the list holds exactly the streams that are open and  *)
(* not being opened or closed, however many threads use one stream.        *)
THEOREM ListIsExact == Spec => []RegistryExact
<1>1. Init => RegistryExact
  BY SMTT(60) DEF Init, RegistryExact
<1> QED
  BY <1>1, TypeInvariant, RegistryStep, PTL DEF Spec

------------------------------------------------------------------------------
(* Threads that keep to their own streams, step by step. *)
LEMMA AskCaller ==
    ASSUME ~Shared, TypeInv, TypeInv', AskInv, NEW t \in Thread, NEW s \in Stream,
           (\E b \in Byte : fputc(t, s, b)) \/ (\E p \in Position : fseek(t, s, p))
    PROVE  AskInv'
<1>0. StreamsType /\ LocalsType /\ WhereInv /\ LocalsType'
  BY TypesTogether, PTL DEF TypeInv
<1>1. Uses(t, s) /\ UNCHANGED <<kind, owner, locals>>
  BY DEF fputc, fseek
<1>2. /\ cur[t] = NULL /\ kind[s] # "none" /\ owner[s] = t
      /\ \A u \in Thread : cur[u] # s
  <2>1. cur[t] = NULL /\ kind[s] # "none" /\ owner[s] = t
    BY <1>0, <1>1, ZenonT(60) DEF Uses, WhereInv, Where
  <2> QED
    BY <2>1, MemStreamAssumption, ZenonT(60) DEF AskInv, OwnInv
<1>3. data[s] = want[s] /\ pos[s] = wpos[s]
  BY <1>2, ZenonT(60) DEF AskInv, DataInv, IdleInv, Busy
<1>4. data'[s] = want'[s] /\ pos'[s] = wpos'[s]
  BY <1>0, <1>3, SMTT(60) DEF fputc, fseek, StreamsType
<1>5. \A r \in Stream : r # s =>
          data'[r] = data[r] /\ pos'[r] = pos[r] /\ want'[r] = want[r] /\ wpos'[r] = wpos[r]
  BY <1>0, ZenonT(60) DEF fputc, fseek, StreamsType
<1>6. StepAt(t)' /\ cur'[t] = NULL /\ \A u \in Thread : u # t => Same(u) /\ cur[u] # s
  BY <1>1, <1>2, ZenonT(60) DEF StepAt, locals, Same
<1> QED
  BY <1>0, <1>1, <1>2, <1>4, <1>5, <1>6, AskStep, MemStreamAssumption, ZenonT(60)

LEMMA AskEnter ==
    ASSUME ~Shared, TypeInv, TypeInv', AskInv, NEW t \in Thread, NEW s \in Stream,
           (\E k \in Kind : Open(t, k, s)) \/ fflush(t, s) \/ fclose(t, s)
    PROVE  AskInv'
<1>0. StreamsType /\ LocalsType /\ WhereInv /\ LocalsType'
  BY TypesTogether, PTL DEF TypeInv
<1>1. cur[t] = NULL /\ pc[t] = "user" /\ ~closing[t] /\ s # NULL
  BY <1>0, MemStreamAssumption, ZenonT(60) DEF Open, fflush, fclose, Uses, WhereInv, Where
<1>2. CASE \E k \in Kind : Open(t, k, s)
  <2>1. PICK k \in Kind : Open(t, k, s)
    BY <1>2, Zenon
  <2>2. /\ \A u \in Thread : u # t => Same(u) /\ cur[u] # s
        /\ cur'[t] = s /\ pc'[t] = "make_entry"
    BY <1>0, <2>1, ZenonT(60) DEF Open, Goto, Busy, Same, LocalsType
  <2>3. /\ owner'[s] = t /\ data'[s] = want'[s] /\ pos'[s] = wpos'[s]
        /\ \A r \in Stream : r # s =>
               /\ kind'[r] = kind[r] /\ owner'[r] = owner[r] /\ data'[r] = data[r]
               /\ pos'[r] = pos[r] /\ want'[r] = want[r] /\ wpos'[r] = wpos[r]
    BY <1>0, <2>1, ZenonT(60) DEF Open, StreamsType
  <2>4. StepAt(t)'
    BY <2>2, <2>3, ZenonT(60) DEF StepAt, Filling
  <2> QED
    BY <1>0, <1>1, <2>2, <2>3, <2>4, AskStep, Zenon
<1>3. CASE fflush(t, s) \/ fclose(t, s)
  <2>1. /\ UNCHANGED <<kind, owner, data, pos, want, wpos>>
        /\ owner[s] = t /\ kind[s] # "none"
        /\ \A u \in Thread : u # t => Same(u)
        /\ cur'[t] = s /\ pc'[t] \in {"ftell", "real_fclose"}
    BY <1>0, <1>3, ZenonT(60) DEF fflush, fclose, Uses, Goto, Same, LocalsType, libc, asked
  <2>2. \A u \in Thread : cur[u] # s
    BY <1>0, <1>1, <2>1, Zenon DEF AskInv, OwnInv
  <2>3. data[s] = want[s] /\ pos[s] = wpos[s]
    BY <2>1, <2>2, Zenon DEF AskInv, DataInv, IdleInv, Busy
  <2>4. StepAt(t)'
    BY <2>1, <2>3, Zenon DEF StepAt, Filling
  <2> QED
    BY <1>0, <1>1, <2>1, <2>2, <2>3, <2>4, AskStep, ZenonT(60)
<1> QED
  BY <1>2, <1>3, Zenon

LEMMA AskEntry ==
    ASSUME TypeInv, TypeInv', AskInv, NEW t \in Thread,
           make_entry(t) \/ make_entry_fails(t) \/ real_fclose(t)
    PROVE  AskInv'
<1>0. StreamsType /\ LocalsType /\ WhereInv /\ LocalsType'
  BY TypesTogether, PTL DEF TypeInv
<1> DEFINE s == cur[t]
<1>1. /\ pc[t] \in {"make_entry", "real_fclose"} /\ Back(t)
      /\ UNCHANGED <<owner, data, pos, want, wpos>>
  BY Zenon DEF make_entry, make_entry_fails, real_fclose, libc, asked
<1>2. s \in Stream /\ s # NULL
  BY <1>0, <1>1, MemStreamAssumption, ZenonT(60) DEF WhereInv, Where, LocalsType
<1>3. kind'[s] # "none" => kind'[s] = kind[s]
  BY <1>0, <1>2, ZenonT(60) DEF make_entry, make_entry_fails, real_fclose, libc, StreamsType
<1>4. \A r \in Stream : r # s => kind'[r] = kind[r]
  BY <1>0, <1>2, ZenonT(60) DEF make_entry, make_entry_fails, real_fclose, libc, StreamsType
<1>5. pos[s] = wpos[s] /\ (kind[s] # "none" => data[s] = want[s])
  BY <1>1, <1>2, Zenon DEF AskInv, StepInv, StepAt, DataInv
<1>6. cur'[t] = NULL /\ \A u \in Thread : u # t => Same(u) /\ cur[u] # s
  BY <1>0, <1>1, <1>2, BackStep, OneOnStream, ZenonT(60) DEF AskInv
<1>7. StepAt(t)'
  BY <1>6, ZenonT(60) DEF StepAt
<1> HIDE DEF s
<1>8. cur[t] = s
  BY SMTT(60) DEF s
<1> QED
  BY <1>0, <1>1, <1>2, <1>3, <1>4, <1>5, <1>6, <1>7, <1>8, AskStep, Zenon

LEMMA AskSync ==
    ASSUME TypeInv, TypeInv', AskInv, NEW t \in Thread, Sync(t)
    PROVE  AskInv'
<1>0. StreamsType /\ LocalsType /\ WhereInv /\ LocalsType'
  BY TypesTogether, PTL DEF TypeInv
<1> DEFINE s == cur[t]
<1>1. /\ UNCHANGED <<kind, owner, data, listed, bufend, want, wpos>>
      /\ \A u \in Thread : u # t => Same(u)
      /\ s \in Stream /\ cur'[t] \in {s, NULL} /\ pc[t] # "user"
  BY SyncFrame, ZenonT(60)
<1>2. s # NULL /\ kind[s] # "none" /\ owner[s] = t /\ data[s] = want[s]
      /\ \A u \in Thread : u # t => cur[u] # s
  BY <1>0, <1>1, OneOnStream, MemStreamAssumption, ZenonT(60) DEF AskInv, DataInv, WhereInv, Where, OwnInv
<1>3. StepAt(t)
  BY Zenon DEF AskInv, StepInv
<1>4. \A r \in Stream : r # s => pos'[r] = pos[r]
  BY <1>0, <1>1, Zenon DEF Sync, ftell, rewind, fread_fixed, malloc, malloc_fails, fread, free, assign,
         fseek_to_end, libc, StreamsType
<1>5. StepAt(t)' /\ (cur'[t] # s => pos'[s] = wpos[s])
  <2>1. CASE ftell(t)
    <3>1. pos' = pos /\ pos[s] = wpos[s] /\ pc[t] = "ftell"
      BY <1>2, <1>3, <2>1, Zenon DEF ftell, StepAt, libc
    <3>2. CASE /\ byte_count' = [byte_count EXCEPT ![t] = pos[s]]
               /\ Goto(t, "rewind") /\ UNCHANGED <<cur, closing, new_buf>>
      BY <1>0, <1>1, <3>1, <3>2, ZenonT(60) DEF StepAt, Goto, Filling, LocalsType
    <3>3. CASE SyncReturns(t)
      BY <1>0, <1>1, <3>1, <3>3, SyncReturnsStep, ZenonT(60) DEF StepAt, Filling
    <3> QED
      BY <2>1, <3>2, <3>3, Zenon DEF ftell
  <2>2. CASE rewind(t)
    <3>1. /\ pos'[s] = 0 /\ byte_count[t] = wpos[s] /\ UNCHANGED <<cur, byte_count>>
          /\ pc'[t] = IF kind[s] \in Fixed THEN "fread_fixed" ELSE "malloc"
      BY <1>0, <1>1, <1>2, <1>3, <2>2, Zenon DEF rewind, StepAt, Goto, StreamsType, LocalsType
    <3> QED
      BY <1>1, <3>1, Zenon DEF StepAt, Filling
  <2>3. CASE fread_fixed(t) \/ malloc_fails(t) \/ assign(t)
    <3>1. byte_count[t] = wpos[s] /\ pc'[t] = "fseek" /\ UNCHANGED <<cur, byte_count>>
      BY <1>0, <1>2, <1>3, <2>3, ZenonT(60) DEF fread_fixed, malloc_fails, assign, StepAt, Goto, LocalsType, Filling
    <3> QED
      BY <1>1, <3>1, ZenonT(60) DEF StepAt, Filling
  <2>4. CASE \E b \in Buf : malloc(t, b)
    <3>1. /\ byte_count[t] = wpos[s] /\ pc'[t] = "fread" /\ UNCHANGED <<cur, byte_count>>
          /\ pos' = pos /\ pos[s] = 0 /\ kind[s] \notin Fixed
      BY <1>0, <1>2, <1>3, <2>4, ZenonT(60) DEF malloc, StepAt, Goto, LocalsType, Filling, libc
    <3> QED
      BY <1>1, <3>1, Zenon DEF StepAt, Filling
  <2>5. CASE fread(t) \/ free(t)
    <3>1. /\ byte_count[t] = wpos[s] /\ pc'[t] \in {"free", "assign"} /\ UNCHANGED <<cur, byte_count>>
          /\ kind[s] \notin Fixed
      BY <1>0, <1>2, <1>3, <2>5, Zenon DEF fread, free, StepAt, Goto, LocalsType, Filling, libc
    <3> QED
      BY <1>1, <3>1, Zenon DEF StepAt, Filling
  <2>6. CASE fseek_to_end(t)
    <3>1. pos'[s] = wpos[s] /\ SyncReturns(t)
      BY <1>0, <1>1, <1>2, <1>3, <2>6, ZenonT(60) DEF fseek_to_end, StepAt, StreamsType
    <3> QED
      BY <1>0, <1>1, <3>1, SyncReturnsStep, ZenonT(60) DEF StepAt, Filling
  <2> QED
    BY <2>1, <2>2, <2>3, <2>4, <2>5, <2>6, Zenon DEF Sync
<1> HIDE DEF s
<1>6. cur[t] = s
  BY Zenon DEF s
<1> QED
  BY <1>0, <1>1, <1>2, <1>4, <1>5, <1>6, AskStep, ZenonT(60)

LEMMA AskStays == ASSUME ~Shared PROVE TypeInv /\ TypeInv' /\ AskInv /\ [Next]_vars => AskInv'
<1> SUFFICES ASSUME TypeInv, TypeInv', AskInv, [Next]_vars PROVE AskInv'
  BY SMTT(60)
<1>1. CASE UNCHANGED <<libc, locals, want, wpos>>
  BY <1>1, ZenonT(60) DEF AskInv, OwnInv, DataInv, StepInv, StepAt, IdleInv, Busy, libc, locals
<1>2. ASSUME NEW s \in Stream, FreePtr(s) PROVE AskInv'
  BY <1>1, <1>2, Zenon DEF FreePtr
<1>3. ASSUME UNCHANGED vars PROVE AskInv'
  BY <1>1, <1>3 DEF vars, asked
<1> QED
  BY <1>2, <1>3, AskCaller, AskEnter, AskEntry, AskSync, Zenon DEF Next, Inside

LEMMA AskInvariant == ASSUME ~Shared PROVE Spec => []AskInv
<1>1. Init => AskInv
  BY DEF Init, AskInv, OwnInv, DataInv, StepInv, StepAt, IdleInv
<1>2. TypeInv /\ TypeInv' /\ AskInv /\ [Next]_vars => AskInv'
  BY AskStays
<1> QED
  BY <1>1, <1>2, TypeInvariant, PTL DEF Spec

(* memstream.c:125 - for threads that keep to the streams they opened,     *)
(* memstream_sync leaves each stream as it found it: outside a copy the    *)
(* contents and the position are the ones the callers asked for.           *)
THEOREM SyncIsTransparent == ASSUME ~Shared PROVE Spec => []Transparent
<1>1. TypeInv /\ AskInv => Transparent
  <2>1. SUFFICES ASSUME TypeInv, AskInv, NEW s \in Stream, kind[s] # "none", ~Syncing(s)
                 PROVE  data[s] = want[s] /\ pos[s] = wpos[s]
    BY Zenon DEF Transparent
  <2>2. CASE Busy(s)
    BY <2>1, <2>2, MemStreamAssumption, ZenonT(60) DEF AskInv, DataInv, StepInv, StepAt, Busy, Syncing
  <2>3. CASE ~Busy(s)
    BY <2>1, <2>3 DEF AskInv, DataInv, IdleInv
  <2> QED
    BY <2>2, <2>3, Zenon
<1> QED
  BY <1>1, TypeInvariant, AskInvariant, PTL
------------------------------------------------------------------------------

(* Which blocks are whose. *)
BlockInv ==
    /\ \A s \in Stream : kind[s] \in {"r", "w", "a"} => ptr[s] = NULL
    /\ \A t \in Thread : pc[t] = "assign" => kind[cur[t]] = "mem" \/ fault # "none"
    /\ \A t \in Thread : pc[t] \in Filling =>
          /\ heap[new_buf[t]] # NULL
          /\ \A s \in Stream : Held(s) => ptr[s] # new_buf[t]
          /\ \A u \in Thread : pc[u] \in Filling /\ new_buf[u] = new_buf[t] => u = t
    /\ \A t \in Thread : pc[t] \in {"fseek", "real_fclose"} /\ new_buf[t] # NULL =>
          ptr[cur[t]] = new_buf[t]

HeapInv == BlockInv /\ HeapSound

(* What the callers' memory holds, and the blocks that are about to be     *)
(* assigned.                                                               *)
Snap(s) ==
    IF kind[s] \in Fixed
    THEN \A i \in 1..FixedSize :
            /\ i <= wpos[s] => fixed[s][i] = want[s][i]
            /\ i = wpos[s] + 1 => fixed[s][i] = NUL
    ELSE ptr[s] # NULL => size[s] = wpos[s] /\ heap[ptr[s]] = SubSeq(want[s], 1, wpos[s])

CopyAt(t) ==
    /\ pc[t] \in {"make_entry", "assign"} => cur[t] \notin synced
    /\ pc[t] \in {"free", "assign"} =>
           heap[new_buf[t]] = SubSeq(want[cur[t]], 1, wpos[cur[t]])

SnapInv == (\A s \in synced : Snap(s)) /\ (\A t \in Thread : CopyAt(t))

------------------------------------------------------------------------------
(* What a step on the stream s, of the thread t, has to establish for the  *)
(* copies.  What has been copied is held by the caller.                    *)
LEMMA CopyWhere ==
    ASSUME LocalsType, WhereInv, NEW u \in Thread,
           pc[u] \in {"make_entry", "free", "assign"}
    PROVE  cur[u] \in Stream
BY DEF WhereInv, Where, LocalsType

LEMMA SubSeqMeans ==
    ASSUME NEW S, NEW q \in Seq(S), NEW n \in Nat, n <= Len(q)
    PROVE  SubSeq(q, 1, n) = [i \in 1..n |-> q[i]]
<1>1. SubSeq(q, 1, n) = [i \in 1..n |-> q[1 + i - 1]]
  OBVIOUS
<1>2. \A i \in 1..n : 1 + i - 1 = i
  OBVIOUS
<1> QED
  BY <1>1, <1>2, Zenon

LEMMA FromZero == ASSUME NEW n \in Nat PROVE \A i \in 1..n : i <= n /\ 0 + i = i
OBVIOUS

LEMMA FromZeroFits ==
    ASSUME NEW n \in Nat, NEW m \in Nat, NEW k \in Nat, n <= m, m <= k
    PROVE  0 + n <= k
  OBVIOUS

(* The bytes a fixed buffer of m bytes has room for. *)
Cut(count, m) == IF count > m THEN m ELSE count

(* Byte i is copied, or is the terminator, as it would be with no bound. *)
CutAt(i, w, n) == (i <= w => i <= n) /\ (i = w + 1 => i = n + 1 /\ ~(i <= n))

LEMMA CutMeans ==
    ASSUME NEW w \in Nat, NEW m \in Nat, NEW n, n = Cut(w, m)
    PROVE  /\ n \in Nat /\ n <= w
           /\ \A i \in 1..m : CutAt(i, w, n)
  BY DEF Cut, CutAt

LEMMA SyncedHeld ==
    ASSUME SnapInv, NEW s \in synced, ptr[s] # NULL
    PROVE  Held(s)
BY Zenon DEF SnapInv, CopyAt, Held

LEMMA SnapStep ==
    ASSUME TypeInv, TypeInv', SnapInv, NEW t \in Thread, NEW s \in Stream,
           \A u \in Thread : u # t => Same(u) /\ cur[u] # s,
           \A r \in Stream : r # s =>
               /\ r \in synced' => r \in synced
               /\ kind'[r] = kind[r] /\ fixed'[r] = fixed[r] /\ ptr'[r] = ptr[r]
               /\ size'[r] = size[r] /\ want'[r] = want[r] /\ wpos'[r] = wpos[r]
               /\ Held(r) => heap'[ptr[r]] = heap[ptr[r]],
           \A u \in Thread : u # t /\ pc[u] \in {"free", "assign"} =>
               heap'[new_buf[u]] = heap[new_buf[u]],
           s \in synced' => Snap(s)',
           CopyAt(t)'
    PROVE  SnapInv'
<1>0. StreamsType /\ LocalsType /\ WhereInv /\ StreamsType'
  BY TypesTogether, PTL DEF TypeInv
<1>1. ASSUME NEW r \in synced' PROVE Snap(r)'
  <2>1. CASE r = s
    BY <1>1, <2>1, Zenon
  <2>2. CASE r # s
    <3>1. r \in Stream /\ r \in synced /\ Snap(r)
      BY <1>0, <1>1, <2>2, ZenonT(60) DEF StreamsType, SnapInv
    <3>2. ptr[r] # NULL => heap'[ptr[r]] = heap[ptr[r]]
      BY <2>2, <3>1, SyncedHeld, Zenon
    <3>3. CASE kind[r] \in Fixed
      BY <2>2, <3>1, <3>3, ZenonT(60) DEF Snap
    <3>4. CASE kind[r] \notin Fixed
      BY <2>2, <3>1, <3>2, <3>4, Zenon DEF Snap
    <3> QED
      BY <3>3, <3>4, Zenon
  <2> QED
    BY <2>1, <2>2, Zenon
<1>2. ASSUME NEW u \in Thread PROVE CopyAt(u)'
  <2>1. CASE u = t
    BY <2>1, Zenon
  <2>2. CASE u # t
    <3>1. CopyAt(u) /\ Same(u) /\ cur[u] # s
      BY <2>2, ZenonT(60) DEF SnapInv
    <3>2. pc[u] \in {"make_entry", "free", "assign"} => cur[u] \in Stream
      BY <1>0, CopyWhere, Zenon
    <3>3. pc'[u] \in {"make_entry", "assign"} => cur'[u] \notin synced'
      BY <3>1, <3>2, Zenon DEF CopyAt, Same
    <3>4. pc'[u] \in {"free", "assign"} =>
              heap'[new_buf'[u]] = SubSeq(want'[cur'[u]], 1, wpos'[cur'[u]])
      <4>1. SUFFICES ASSUME pc'[u] \in {"free", "assign"}
                     PROVE  heap'[new_buf'[u]] = SubSeq(want'[cur'[u]], 1, wpos'[cur'[u]])
        BY ZenonT(60)
      <4>2. /\ pc[u] \in {"free", "assign"} /\ cur'[u] = cur[u] /\ new_buf'[u] = new_buf[u]
            /\ want'[cur[u]] = want[cur[u]] /\ wpos'[cur[u]] = wpos[cur[u]]
            /\ heap'[new_buf[u]] = heap[new_buf[u]]
        BY <2>2, <3>1, <3>2, <4>1, Zenon DEF Same
      <4>3. heap[new_buf[u]] = SubSeq(want[cur[u]], 1, wpos[cur[u]])
        BY <3>1, <4>2, Zenon DEF CopyAt
      <4> QED
        BY <4>2, <4>3, ZenonT(60)
    <3> QED
      BY <3>3, <3>4, SMTT(60) DEF CopyAt
  <2> QED
    BY <2>1, <2>2, Zenon
<1> QED
  BY <1>1, <1>2, Zenon DEF SnapInv

------------------------------------------------------------------------------
(* The heap.  A step that is not about assigning leaves *ptr the caller's. *)
LEMMA HeldSame ==
    ASSUME NEW t \in Thread, \A u \in Thread : u # t => Same(u),
           pc[t] # "assign", pc'[t] # "assign",
           NEW s \in Stream, ptr'[s] = ptr[s]
    PROVE  Held(s)' <=> Held(s)
BY DEF Held, Same

LEMMA HeldAside ==
    ASSUME NEW t \in Thread, \A u \in Thread : u # t => Same(u),
           NEW s \in Stream, cur[t] # s, cur'[t] # s, ptr'[s] = ptr[s]
    PROVE  Held(s)' <=> Held(s)
BY DEF Held, Same

LEMMA FillingBlock ==
    ASSUME LocalsType, WhereInv, HeapInv, NEW u \in Thread, pc[u] \in Filling
    PROVE  /\ new_buf[u] \in Buf /\ new_buf[u] # NULL /\ heap[new_buf[u]] # NULL
           /\ \A r \in Stream : Held(r) => ptr[r] # new_buf[u]
           /\ \A v \in Thread : pc[v] \in Filling /\ new_buf[v] = new_buf[u] => v = u
<1>1. new_buf[u] # NULL /\ new_buf[u] \in Buf \cup {NULL}
  BY Zenon DEF WhereInv, Where, LocalsType
<1> QED
  BY <1>1, Zenon DEF HeapInv, BlockInv

LEMMA HeapQuiet ==
    ASSUME LocalsType, LocalsType', MemoryType, HeapInv, NEW t \in Thread,
           \A u \in Thread : u # t => Same(u),
           ptr' = ptr, heap' = heap, fault' = fault,
           pc[t] \notin Filling, pc'[t] \notin Filling,
           \A s \in Stream : kind'[s] \in {"r", "w", "a"} => ptr[s] = NULL,
           \A u \in Thread : u # t /\ pc[u] = "assign" => kind'[cur[u]] = kind[cur[u]],
           \/ /\ new_buf'[t] = new_buf[t]
              /\ pc'[t] \in {"fseek", "real_fclose"} /\ new_buf[t] # NULL =>
                     pc[t] \in {"fseek", "real_fclose"} /\ cur'[t] = cur[t]
           \/ /\ new_buf'[t] = NULL
              /\ new_buf[t] # NULL => cur[t] \in Stream /\ Held(cur[t]) /\ ptr[cur[t]] = new_buf[t]
    PROVE  HeapInv'
<1>1. \A s \in Stream : Held(s)' <=> Held(s)
  BY HeldSame DEF Filling
<1>2. BlockInv'
  <2>1. \A u \in Thread : pc'[u] \in Filling => u # t /\ pc[u] \in Filling /\ new_buf'[u] = new_buf[u]
    BY ZenonT(60) DEF Same
  <2>2. \A u \in Thread : pc'[u] \in Filling =>
          /\ heap'[new_buf'[u]] # NULL
          /\ \A s \in Stream : Held(s)' => ptr'[s] # new_buf'[u]
          /\ \A v \in Thread : pc'[v] \in Filling /\ new_buf'[v] = new_buf'[u] => v = u
    <3> SUFFICES ASSUME NEW u \in Thread, pc'[u] \in Filling
                 PROVE  /\ heap'[new_buf'[u]] # NULL
                        /\ \A s \in Stream : Held(s)' => ptr'[s] # new_buf'[u]
                        /\ \A v \in Thread : pc'[v] \in Filling /\ new_buf'[v] = new_buf'[u] => v = u
      BY Zenon
    <3>1. /\ pc[u] \in Filling /\ new_buf'[u] = new_buf[u] /\ heap[new_buf[u]] # NULL
          /\ \A s \in Stream : Held(s) => ptr[s] # new_buf[u]
          /\ \A v \in Thread : pc[v] \in Filling /\ new_buf[v] = new_buf[u] => v = u
      BY <2>1, Zenon DEF HeapInv, BlockInv
    <3>2. \A s \in Stream : Held(s)' => ptr'[s] # new_buf'[u]
      BY <1>1, <3>1, Zenon
    <3>3. \A v \in Thread : pc'[v] \in Filling /\ new_buf'[v] = new_buf'[u] => v = u
      BY <2>1, <3>1, Zenon
    <3> QED
      BY <3>1, <3>2, <3>3, Zenon
  <2>3. \A u \in Thread : pc'[u] = "assign" => kind'[cur'[u]] = "mem" \/ fault' # "none"
    BY DEF HeapInv, BlockInv, Same, Filling
  <2>4. \A u \in Thread : pc'[u] \in {"fseek", "real_fclose"} /\ new_buf'[u] # NULL =>
          ptr'[cur'[u]] = new_buf'[u]
    BY DEF HeapInv, BlockInv, Same
  <2> QED
    BY <2>2, <2>3, <2>4, Zenon DEF BlockInv
<1>3. HeapSound'
  <2>1. \A b \in Buf : heap'[b] # NULL => (\E s \in Stream : Held(s)' /\ ptr'[s] = b)
                                          \/ (\E u \in Thread : new_buf'[u] = b)
    <3>1. SUFFICES ASSUME NEW b \in Buf, heap'[b] # NULL
                   PROVE  (\E s \in Stream : Held(s)' /\ ptr'[s] = b) \/ (\E u \in Thread : new_buf'[u] = b)
      BY ZenonT(60)
    <3>2. CASE \E s \in Stream : Held(s) /\ ptr[s] = b
      BY <1>1, <3>2, Zenon
    <3>3. CASE \E u \in Thread : new_buf[u] = b
      BY <1>1, <3>3, MemStreamAssumption, ZenonT(60) DEF Same
    <3> QED
      BY <3>1, <3>2, <3>3, Zenon DEF HeapInv, HeapSound
  <2> QED
    BY <1>1, <2>1, Zenon DEF HeapInv, HeapSound
<1> QED
  BY <1>2, <1>3, Zenon DEF HeapInv

(* Where t is on a stream of its own and not assigning, *ptr is held. *)
LEMMA OwnHeld ==
    ASSUME OwnInv, NEW t \in Thread, cur[t] \in Stream, cur[t] # NULL, pc[t] # "assign",
           ptr[cur[t]] # NULL
    PROVE  Held(cur[t])
BY OneOnStream, Zenon DEF Held

LEMMA HeapCaller ==
    ASSUME TypeInv, TypeInv', AskInv, HeapInv, NEW t \in Thread, NEW s \in Stream,
           (\E k \in Kind : Open(t, k, s)) \/ fflush(t, s) \/ fclose(t, s)
    PROVE  HeapInv'
<1>0. StreamsType /\ MemoryType /\ LocalsType /\ WhereInv /\ LocalsType'
  BY TypesTogether, PTL DEF TypeInv
<1>1. /\ pc[t] = "user" /\ cur[t] = NULL /\ new_buf[t] = NULL
  BY <1>0, Zenon DEF Open, fflush, fclose, Uses, WhereInv, Where
<1>2. /\ \A u \in Thread : u # t => Same(u)
      /\ UNCHANGED <<ptr, heap, fault, new_buf>>
      /\ pc'[t] \in {"make_entry", "ftell", "real_fclose"}
  <2>1. \E l \in {"make_entry", "ftell", "real_fclose"} : Goto(t, l)
    BY Zenon DEF Open, fflush, fclose
  <2>2. /\ cur' = [cur EXCEPT ![t] = s] /\ UNCHANGED <<ptr, heap, fault, byte_count, new_buf>>
        /\ closing' = closing \/ closing' = [closing EXCEPT ![t] = TRUE]
    BY Zenon DEF Open, fflush, fclose, memory
  <2>3. \A u \in Thread : u # t => Same(u)
    BY <1>0, <2>1, <2>2, Zenon DEF Goto, LocalsType, Same
  <2>4. pc'[t] \in {"make_entry", "ftell", "real_fclose"}
    BY <1>0, <2>1, Zenon DEF Goto, LocalsType
  <2> QED
    BY <2>2, <2>3, <2>4, Zenon
<1>3. /\ \A r \in Stream : kind'[r] \in {"r", "w", "a"} => ptr[r] = NULL
      /\ \A u \in Thread : u # t /\ pc[u] = "assign" => kind'[cur[u]] = kind[cur[u]]
  <2>1. CASE \E k \in Kind : Open(t, k, s)
    <3>1. /\ ptr[s] = NULL /\ \A u \in Thread : cur[u] # s
          /\ \A r \in Stream : r # s => kind'[r] = kind[r]
      BY <1>0, <2>1, Zenon DEF Open, Busy, StreamsType
    <3>2. \A u \in Thread : pc[u] = "assign" => cur[u] \in Stream
      BY <1>0, Zenon DEF WhereInv, Where, LocalsType
    <3> QED
      BY <3>1, <3>2, Zenon DEF HeapInv, BlockInv
  <2>2. CASE fflush(t, s) \/ fclose(t, s)
    BY <2>2, Zenon DEF fflush, fclose, libc, HeapInv, BlockInv
  <2> QED
    BY <2>1, <2>2, Zenon
<1> QED
  BY <1>0, <1>1, <1>2, <1>3, HeapQuiet, Zenon DEF Filling

LEMMA HeapFreePtr ==
    ASSUME TypeInv, HeapInv, NEW s \in Stream, FreePtr(s)
    PROVE  HeapInv'
<1>0. MemoryType /\ LocalsType /\ WhereInv
  BY TypesTogether DEF TypeInv
<1>1. /\ ptr[s] \in Buf /\ \A u \in Thread : cur[u] # s
      /\ heap' = [heap EXCEPT ![ptr[s]] = NULL] /\ ptr' = [ptr EXCEPT ![s] = NULL]
      /\ UNCHANGED <<kind, fault, pc, cur, new_buf>>
  BY <1>0, Zenon DEF FreePtr, MemoryType, Busy, locals, libc
<1>2. /\ Held(s) /\ ~Held(s)' /\ ptr'[s] = NULL /\ heap'[ptr[s]] = NULL
      /\ \A r \in Stream : r # s => ptr'[r] = ptr[r] /\ (Held(r)' <=> Held(r))
      /\ \A b \in Buf : b # ptr[s] => heap'[b] = heap[b]
  BY <1>0, <1>1, MemStreamAssumption, Zenon DEF Held, MemoryType
<1>3. \A r \in Stream : Held(r)' => r # s /\ Held(r) /\ ptr[r] \in Buf /\ ptr[r] # ptr[s]
  <2>1. \A r \in Stream : Held(r) => ptr[r] \in Buf
    BY <1>0, Zenon DEF Held, MemoryType
  <2>2. \A r \in Stream : r # s /\ Held(r) => ptr[r] # ptr[s]
    BY <1>2, Zenon DEF HeapInv, HeapSound
  <2> QED
    BY <1>2, <2>1, <2>2, Zenon
<1>4. \A u \in Thread : pc[u] \in Filling =>
          /\ new_buf[u] \in Buf /\ new_buf[u] # ptr[s] /\ heap[new_buf[u]] # NULL
          /\ \A r \in Stream : Held(r) => ptr[r] # new_buf[u]
          /\ \A v \in Thread : pc[v] \in Filling /\ new_buf[v] = new_buf[u] => v = u
  BY <1>0, <1>2, FillingBlock, Zenon
<1>5. HeapSound'
  <2>1. ASSUME NEW b \in Buf, heap'[b] # NULL
        PROVE  (\E r \in Stream : Held(r)' /\ ptr'[r] = b) \/ (\E u \in Thread : new_buf'[u] = b)
    <3>1. b # ptr[s] /\ heap[b] # NULL
      BY <1>2, <2>1, Zenon
    <3>2. (\E r \in Stream : Held(r) /\ ptr[r] = b) \/ (\E u \in Thread : new_buf[u] = b)
      BY <3>1, Zenon DEF HeapInv, HeapSound
    <3>3. CASE \E r \in Stream : Held(r) /\ ptr[r] = b
      <4>1. PICK r \in Stream : Held(r) /\ ptr[r] = b
        BY <3>3, Zenon
      <4>2. Held(r)' /\ ptr'[r] = b
        BY <1>2, <3>1, <4>1, Zenon
      <4> QED
        BY <4>2, Zenon
    <3> QED
      BY <1>1, <3>2, <3>3, Zenon
  <2>2. ASSUME NEW r \in Stream, Held(r)' PROVE heap'[ptr'[r]] # NULL
    <3>1. Held(r) /\ ptr'[r] = ptr[r] /\ heap'[ptr[r]] = heap[ptr[r]]
      BY <1>2, <1>3, <2>2, Zenon
    <3> QED
      BY <3>1, Zenon DEF HeapInv, HeapSound
  <2>3. ASSUME NEW q \in Stream, NEW r \in Stream, q # r, Held(q)', Held(r)' PROVE ptr'[q] # ptr'[r]
    <3>1. Held(q) /\ Held(r) /\ ptr'[q] = ptr[q] /\ ptr'[r] = ptr[r]
      BY <1>2, <1>3, <2>3, Zenon
    <3> QED
      BY <2>3, <3>1, Zenon DEF HeapInv, HeapSound
  <2> QED
    BY <1>1, <2>1, <2>2, <2>3, Zenon DEF HeapInv, HeapSound
<1>6. BlockInv'
  <2>1. \A r \in Stream : kind'[r] \in {"r", "w", "a"} => ptr'[r] = NULL
    BY <1>1, <1>2, Zenon DEF HeapInv, BlockInv
  <2>2. \A u \in Thread : pc'[u] \in Filling =>
          /\ heap'[new_buf'[u]] # NULL
          /\ \A r \in Stream : Held(r)' => ptr'[r] # new_buf'[u]
          /\ \A v \in Thread : pc'[v] \in Filling /\ new_buf'[v] = new_buf'[u] => v = u
    <3>1. SUFFICES ASSUME NEW u \in Thread, pc'[u] \in Filling
                   PROVE  /\ heap'[new_buf'[u]] # NULL
                          /\ \A r \in Stream : Held(r)' => ptr'[r] # new_buf'[u]
                          /\ \A v \in Thread : pc'[v] \in Filling /\ new_buf'[v] = new_buf'[u] => v = u
      BY Zenon
    <3>2. pc[u] \in Filling /\ new_buf'[u] = new_buf[u] /\ heap'[new_buf[u]] = heap[new_buf[u]]
      BY <1>1, <1>2, <1>4, <3>1, Zenon
    <3>3. \A r \in Stream : Held(r)' => ptr'[r] # new_buf[u]
      <4>1. \A r \in Stream : Held(r) => ptr[r] # new_buf[u]
        BY <1>4, <3>2, Zenon
      <4>2. \A r \in Stream : Held(r)' => Held(r) /\ ptr'[r] = ptr[r]
        BY <1>2, <1>3, Zenon
      <4> QED
        BY <4>1, <4>2, Zenon
    <3> QED
      BY <1>1, <1>4, <3>2, <3>3, Zenon
  <2>3. \A u \in Thread : pc'[u] \in {"fseek", "real_fclose"} /\ new_buf'[u] # NULL =>
          ptr'[cur'[u]] = new_buf'[u]
    <3>1. \A u \in Thread : pc[u] \in {"fseek", "real_fclose"} => cur[u] \in Stream /\ cur[u] # s
      BY <1>0, <1>1, Zenon DEF WhereInv, Where, LocalsType
    <3> QED
      BY <1>1, <1>2, <3>1, ZenonT(60) DEF HeapInv, BlockInv
  <2> QED
    BY <1>1, <2>1, <2>2, <2>3, Zenon DEF HeapInv, BlockInv
<1> QED
  BY <1>5, <1>6, Zenon DEF HeapInv

LEMMA HeapEntry ==
    ASSUME TypeInv, TypeInv', AskInv, HeapInv, NEW t \in Thread,
           make_entry(t) \/ make_entry_fails(t) \/ real_fclose(t)
    PROVE  HeapInv'
<1>0. StreamsType /\ MemoryType /\ LocalsType /\ WhereInv /\ LocalsType'
  BY TypesTogether, PTL DEF TypeInv
<1>1. /\ pc[t] \in {"make_entry", "real_fclose"} /\ Back(t) /\ UNCHANGED <<ptr, heap, fault>>
  BY Zenon DEF make_entry, make_entry_fails, real_fclose, memory
<1>2. /\ \A u \in Thread : u # t => Same(u)
      /\ pc'[t] = "user" /\ new_buf'[t] = NULL
  BY <1>0, <1>1, BackStep, Zenon
<1>3. /\ cur[t] \in Stream /\ cur[t] # NULL
      /\ new_buf[t] # NULL => ptr[cur[t]] = new_buf[t]
  BY <1>0, <1>1, ZenonT(60) DEF WhereInv, Where, LocalsType, HeapInv, BlockInv
<1>4. new_buf[t] # NULL => Held(cur[t])
  BY <1>1, <1>3, OwnHeld DEF AskInv
<1>5. \A r \in Stream : kind'[r] \in {kind[r], "none"} /\ (r # cur[t] => kind'[r] = kind[r])
  BY <1>0, <1>3, Zenon DEF make_entry, make_entry_fails, real_fclose, libc, StreamsType
<1>6. \A u \in Thread : u # t /\ pc[u] = "assign" => cur[u] \in Stream /\ cur[u] # cur[t]
  BY <1>0, <1>3, OneOnStream, Zenon DEF WhereInv, Where, LocalsType, AskInv
<1>7. \A r \in Stream : kind'[r] \in {"r", "w", "a"} => ptr[r] = NULL
  BY <1>5, Zenon DEF HeapInv, BlockInv
<1> QED
  BY <1>0, <1>1, <1>2, <1>3, <1>4, <1>5, <1>6, <1>7, HeapQuiet, Zenon DEF Filling

LEMMA HeapReturn ==
    ASSUME TypeInv, TypeInv', AskInv, HeapInv, NEW t \in Thread,
           ftell(t) \/ rewind(t) \/ fread_fixed(t) \/ malloc_fails(t) \/ fseek_to_end(t)
    PROVE  HeapInv'
<1>0. StreamsType /\ MemoryType /\ LocalsType /\ Where(t) /\ LocalsType'
  <2>1. StreamsType /\ MemoryType /\ LocalsType /\ WhereInv /\ LocalsType'
    BY TypesTogether, PTL DEF TypeInv
  <2> QED
    BY <2>1 DEF WhereInv
<1>1. /\ kind' = kind /\ \A u \in Thread : u # t => Same(u)
      /\ cur[t] \in Stream /\ cur[t] # NULL
  BY SyncFrame, MemStreamAssumption, Zenon DEF Sync
<1>2. UNCHANGED <<ptr, heap, fault>>
  BY DEF ftell, rewind, fread_fixed, malloc_fails, fseek_to_end, memory
<1>3. pc[t] # "fseek" => new_buf[t] = NULL
  BY <1>0, ZenonT(60) DEF ftell, rewind, fread_fixed, malloc_fails, fseek_to_end, Where
<1>4. new_buf[t] # NULL => Held(cur[t]) /\ ptr[cur[t]] = new_buf[t]
  <2>1. new_buf[t] # NULL => pc[t] = "fseek" /\ ptr[cur[t]] = new_buf[t]
    BY <1>3, ZenonT(60) DEF HeapInv, BlockInv
  <2> QED
    BY <1>1, <2>1, OwnHeld, Zenon DEF AskInv
<1>5. /\ pc[t] \notin Filling /\ pc'[t] \notin Filling
      /\ \/ new_buf'[t] = new_buf[t] /\ (new_buf[t] # NULL => cur'[t] = cur[t])
         \/ new_buf'[t] = NULL
  <2>1. CASE SyncReturns(t)
    BY <1>0, <2>1, SyncReturnsStep, Zenon DEF Filling, ftell, rewind, fread_fixed, malloc_fails, fseek_to_end
  <2>2. CASE ~SyncReturns(t)
    BY <1>0, <2>2, Zenon DEF Filling, ftell, rewind, fread_fixed, malloc_fails, fseek_to_end, Goto, LocalsType
  <2> QED
    BY <2>1, <2>2, Zenon
<1>6. \A s \in Stream : kind'[s] \in {"r", "w", "a"} => ptr[s] = NULL
  BY <1>1, Zenon DEF HeapInv, BlockInv
<1> QED
  BY <1>0, <1>1, <1>2, <1>3, <1>4, <1>5, <1>6, HeapQuiet, Zenon

(* What t's step makes of the other threads that fill a block, and of the  *)
(* blocks that have been assigned.                                         *)
LEMMA HeapFill ==
    ASSUME TypeInv, TypeInv', HeapInv, NEW t \in Thread, NEW b \in Buf, NEW v \in Block,
           heap' = [heap EXCEPT ![b] = v], UNCHANGED <<kind, ptr, fault>>,
           \A u \in Thread : u # t => Same(u), pc'[t] \in {"fread", "free"}, pc[t] # "assign",
           new_buf'[t] = b, new_buf[t] \in {b, NULL},
           \A s \in Stream : Held(s) => ptr[s] # b,
           \A u \in Thread : u # t /\ pc[u] \in Filling => new_buf[u] # b
    PROVE  HeapInv'
<1>0. MemoryType /\ LocalsType /\ LocalsType' /\ v # NULL /\ WhereInv
  <2>1. MemoryType /\ LocalsType /\ LocalsType' /\ WhereInv
    BY TypesTogether, PTL DEF TypeInv
  <2> QED
    BY <2>1, NullAssumption, Zenon
<1>1. \A s \in Stream : Held(s)' <=> Held(s)
  BY HeldSame, Zenon
<1>2. heap'[b] # NULL /\ \A c \in Buf : c # b => heap'[c] = heap[c]
  BY <1>0, Zenon DEF MemoryType
<1>3. \A s \in Stream : Held(s) => ptr[s] \in Buf
  BY <1>0, Zenon DEF Held, MemoryType
<1>4. \A u \in Thread : u # t /\ pc'[u] \in Filling =>
          pc[u] \in Filling /\ new_buf'[u] = new_buf[u] /\ new_buf[u] \in Buf /\ new_buf[u] # b
  BY <1>0, SMTT(60) DEF Same, WhereInv, Where, LocalsType
<1>5. HeapSound'
  <2>1. ASSUME NEW c \in Buf, heap'[c] # NULL
        PROVE  (\E s \in Stream : Held(s)' /\ ptr'[s] = c) \/ (\E u \in Thread : new_buf'[u] = c)
    <3>1. CASE c = b
      BY <3>1, Zenon
    <3>2. CASE c # b
      <4>1. (\E s \in Stream : Held(s) /\ ptr[s] = c) \/ (\E u \in Thread : new_buf[u] = c)
        BY <1>2, <2>1, <3>2, Zenon DEF HeapInv, HeapSound
      <4>2. CASE \E s \in Stream : Held(s) /\ ptr[s] = c
        BY <1>1, <4>2, Zenon
      <4>3. CASE \E u \in Thread : new_buf[u] = c
        BY <3>2, <4>3, MemStreamAssumption, ZenonT(60) DEF Same
      <4> QED
        BY <4>1, <4>2, <4>3, Zenon
    <3> QED
      BY <3>1, <3>2, Zenon
  <2>2. \A s \in Stream : Held(s)' => heap'[ptr'[s]] # NULL
    BY <1>1, <1>2, <1>3, ZenonT(60) DEF HeapInv, HeapSound
  <2> QED
    BY <1>1, <2>1, <2>2, Zenon DEF HeapInv, HeapSound
<1>6. BlockInv'
  <2>1. ASSUME NEW u \in Thread, pc'[u] \in Filling
        PROVE  /\ heap'[new_buf'[u]] # NULL
               /\ \A s \in Stream : Held(s)' => ptr'[s] # new_buf'[u]
               /\ \A w \in Thread : pc'[w] \in Filling /\ new_buf'[w] = new_buf'[u] => w = u
    <3>1. CASE u = t
      BY <1>1, <1>2, <1>4, <3>1, Zenon
    <3>2. CASE u # t
      <4>1. heap'[new_buf'[u]] # NULL /\ \A s \in Stream : Held(s)' => ptr'[s] # new_buf'[u]
        BY <1>1, <1>2, <1>4, <2>1, <3>2, SMTT(60) DEF HeapInv, BlockInv
      <4>2. \A w \in Thread : pc'[w] \in Filling /\ new_buf'[w] = new_buf'[u] => w = u
        BY <1>4, <2>1, <3>2, Zenon DEF HeapInv, BlockInv
      <4> QED
        BY <4>1, <4>2, Zenon
    <3> QED
      BY <3>1, <3>2, Zenon
  <2>2. \A u \in Thread : pc'[u] \in {"fseek", "real_fclose"} /\ new_buf'[u] # NULL =>
          ptr'[cur'[u]] = new_buf'[u]
    BY SMTT(60) DEF HeapInv, BlockInv, Same
  <2>3. \A u \in Thread : pc'[u] = "assign" => kind'[cur'[u]] = "mem" \/ fault' # "none"
    BY SMTT(60) DEF HeapInv, BlockInv, Same
  <2> QED
    BY <2>1, <2>2, <2>3, Zenon DEF HeapInv, BlockInv
<1> QED
  BY <1>5, <1>6, Zenon DEF HeapInv

LEMMA HeapMalloc ==
    ASSUME TypeInv, TypeInv', HeapInv, NEW t \in Thread, (\E b \in Buf : malloc(t, b)) \/ fread(t)
    PROVE  HeapInv'
<1>0. StreamsType /\ LocalsType /\ Where(t) /\ PosInv
  BY TypesTogether, Zenon DEF TypeInv, WhereInv
<1>1. kind' = kind /\ \A u \in Thread : u # t => Same(u)
  BY SyncFrame, Zenon DEF Sync
<1>2. CASE \E b \in Buf : malloc(t, b)
  <2>1. PICK b \in Buf : malloc(t, b)
    BY <1>2
  <2>2. /\ pc[t] = "malloc" /\ heap[b] = NULL /\ new_buf'[t] = b /\ pc'[t] = "fread"
        /\ UNCHANGED <<ptr, fault>> /\ new_buf[t] = NULL
        /\ heap' = [heap EXCEPT ![b] = [i \in 1..byte_count[t] |-> Junk]]
    BY <1>0, <2>1, Zenon DEF malloc, Goto, LocalsType, Where
  <2>3. [i \in 1..byte_count[t] |-> Junk] \in Block
    BY <1>0 DEF LocalsType, Block
  <2>4. \A s \in Stream : Held(s) => ptr[s] # b
    BY <2>2, Zenon DEF HeapInv, HeapSound
  <2>5. \A u \in Thread : u # t /\ pc[u] \in Filling => new_buf[u] # b
    BY <2>2 DEF HeapInv, BlockInv
  <2> QED
    BY <1>1, <2>2, <2>3, <2>4, <2>5, HeapFill, ZenonT(60)
<1>3. CASE fread(t)
  <2> DEFINE b == new_buf[t]
  <2>1. /\ pc[t] = "fread" /\ pc[t] \in Filling /\ cur[t] \in Stream /\ b \in Buf
        /\ new_buf'[t] = b /\ pc'[t] = "free"
        /\ UNCHANGED <<ptr, fault>> /\ heap' = [heap EXCEPT ![b] = Read(t)]
    BY <1>0, <1>3 DEF fread, Goto, LocalsType, Where, Filling, Read
  <2>2. Read(t) \in Block
    BY <1>0, <2>1, ReadType, Zenon
  <2>3. /\ \A s \in Stream : Held(s) => ptr[s] # b
        /\ \A u \in Thread : u # t /\ pc[u] \in Filling => new_buf[u] # b
    BY <2>1, Zenon DEF HeapInv, BlockInv
  <2> QED
    BY <1>1, <2>1, <2>2, <2>3, HeapFill, ZenonT(60)
<1> QED
  BY <1>2, <1>3, Zenon

LEMMA HeapFree ==
    ASSUME TypeInv, TypeInv', AskInv, HeapInv, NEW t \in Thread, free(t)
    PROVE  HeapInv'
<1>0. StreamsType /\ MemoryType /\ LocalsType /\ WhereInv
  BY TypesTogether, Zenon DEF TypeInv
<1>a. cur[t] \in Stream
  BY SyncFrame, Zenon DEF Sync
<1>b. PICK s \in Stream : s = cur[t]
  BY <1>a, Zenon
<1>1. /\ UNCHANGED <<kind, ptr, cur, new_buf>> /\ \A u \in Thread : u # t => Same(u)
      /\ pc[t] = "free" /\ pc[t] \in Filling /\ pc'[t] = "assign" /\ s \in Stream
  BY <1>0, <1>b, SyncFrame, ZenonT(60) DEF Sync, free, Goto, LocalsType, Filling, libc
<1>2. /\ s # NULL /\ kind[s] \notin Fixed \cup {"none"}
      /\ \A u \in Thread : u # t => cur[u] # s
  BY <1>0, <1>1, <1>b, OneOnStream, MemStreamAssumption, ZenonT(60) DEF AskInv, StepInv, StepAt, WhereInv, Where
<1>3. ptr[s] # NULL => Held(s) /\ ptr[s] \in Buf /\ heap[ptr[s]] # NULL
  <2>1. ptr[s] # NULL => Held(s) /\ ptr[s] \in Buf
    BY <1>0, <1>1, <1>2, <1>b, OwnHeld, Zenon DEF AskInv, MemoryType
  <2> QED
    BY <1>1, <2>1, Zenon DEF HeapInv, HeapSound
<1>4. /\ ptr[s] # NULL => heap'[ptr[s]] = NULL
      /\ \A b \in Buf : b # ptr[s] => heap'[b] = heap[b]
  <2>1. kind[s] = "r" => ptr[s] = NULL
    BY <1>1, Zenon DEF HeapInv, BlockInv
  <2> QED
    BY <1>0, <1>3, <1>b, <2>1, Zenon DEF free, MemoryType
<1>5. fault' \in {fault, "null"} /\ (fault' # "none" \/ kind[s] = "mem")
  <2>1. kind[s] = "r" \/ kind[s] = "mem"
    BY <1>0, <1>1, <1>2, Zenon DEF StreamsType, Kind, Fixed
  <2>2. kind[s] = "r" => fault' = "null"
    BY <1>b, Zenon DEF free
  <2>3. kind[s] # "r" => fault' = fault
    BY <1>3, <1>b, ZenonT(60) DEF free
  <2> QED
    BY <2>1, <2>2, <2>3, Zenon
<1>6. ~Held(s)' /\ \A r \in Stream : r # s => (Held(r)' <=> Held(r))
  BY <1>1, <1>b, ZenonT(60) DEF Held, Same
<1>7. \A u \in Thread : pc'[u] \in Filling =>
          pc[u] \in Filling /\ new_buf[u] \in Buf /\ new_buf[u] # ptr[s]
  <2>1. \A u \in Thread : pc'[u] \in Filling => pc[u] \in Filling /\ new_buf[u] \in Buf
    BY <1>0, <1>1, Zenon DEF Same, WhereInv, Where, LocalsType
  <2>2. \A u \in Thread : pc[u] \in Filling => \A r \in Stream : Held(r) => ptr[r] # new_buf[u]
    BY Zenon DEF HeapInv, BlockInv
  <2>3. NULL \notin Buf
    BY MemStreamAssumption, Zenon
  <2> QED
    BY <1>1, <1>3, <2>1, <2>2, <2>3, Zenon
<1>8. HeapSound'
  <2>1. ASSUME NEW b \in Buf, heap'[b] # NULL
        PROVE  (\E r \in Stream : Held(r)' /\ ptr'[r] = b) \/ (\E u \in Thread : new_buf'[u] = b)
    <3>1. b # ptr[s] /\ heap[b] # NULL
      BY <1>4, <2>1, MemStreamAssumption, Zenon
    <3>2. (\E r \in Stream : Held(r) /\ ptr[r] = b) \/ (\E u \in Thread : new_buf[u] = b)
      BY <3>1, Zenon DEF HeapInv, HeapSound
    <3>3. CASE \E r \in Stream : Held(r) /\ ptr[r] = b
      <4>1. PICK r \in Stream : Held(r) /\ ptr[r] = b
        BY <3>3, Zenon
      <4>2. Held(r)' /\ ptr'[r] = b
        BY <1>1, <1>6, <3>1, <4>1, Zenon
      <4> QED
        BY <4>2, Zenon
    <3> QED
      BY <1>1, <3>2, <3>3, Zenon
  <2>2. ASSUME NEW r \in Stream, Held(r)' PROVE heap'[ptr'[r]] # NULL
    <3>1. Held(r) /\ r # s
      BY <1>6, <2>2, Zenon
    <3>2. ptr[r] \in Buf /\ ptr[r] # NULL /\ heap[ptr[r]] # NULL
      BY <1>0, <3>1, MemStreamAssumption, Zenon DEF Held, MemoryType, HeapInv, HeapSound
    <3>3. ptr[r] # ptr[s]
      BY <1>1, <1>3, <3>1, <3>2, Zenon DEF HeapInv, HeapSound
    <3> QED
      BY <1>1, <1>4, <3>2, <3>3, Zenon
  <2>3. ASSUME NEW q \in Stream, NEW r \in Stream, q # r, Held(q)', Held(r)' PROVE ptr'[q] # ptr'[r]
    <3>1. Held(q) /\ Held(r)
      BY <1>6, <2>3, Zenon
    <3> QED
      BY <1>1, <2>3, <3>1, Zenon DEF HeapInv, HeapSound
  <2>4. fault' # "double free"
    BY <1>5, ZenonT(60) DEF HeapInv, HeapSound
  <2> QED
    BY <2>1, <2>2, <2>3, <2>4, Zenon DEF HeapSound
<1>9. BlockInv'
  <2>1. \A u \in Thread : pc'[u] \in Filling =>
          /\ heap'[new_buf'[u]] # NULL
          /\ \A r \in Stream : Held(r)' => ptr'[r] # new_buf'[u]
          /\ \A v \in Thread : pc'[v] \in Filling /\ new_buf'[v] = new_buf'[u] => v = u
    BY <1>1, <1>4, <1>6, <1>7, ZenonT(60) DEF HeapInv, BlockInv
  <2>2. \A u \in Thread : pc'[u] \in {"fseek", "real_fclose"} /\ new_buf'[u] # NULL =>
          ptr'[cur'[u]] = new_buf'[u]
    BY <1>1, Zenon DEF HeapInv, BlockInv, Same
  <2>3. \A u \in Thread : pc'[u] = "assign" => kind'[cur'[u]] = "mem" \/ fault' # "none"
    BY <1>1, <1>5, <1>b, ZenonT(60) DEF HeapInv, BlockInv, Same
  <2> QED
    BY <1>1, <2>1, <2>2, <2>3, Zenon DEF HeapInv, BlockInv
<1> QED
  BY <1>8, <1>9, Zenon DEF HeapInv

LEMMA HeapAssign ==
    ASSUME TypeInv, TypeInv', AskInv, HeapInv, NEW t \in Thread, assign(t)
    PROVE  HeapInv'
<1>0. StreamsType /\ MemoryType /\ LocalsType /\ WhereInv
  BY TypesTogether DEF TypeInv
<1> DEFINE s == cur[t]
<1>1. /\ UNCHANGED <<kind, cur, new_buf, heap, fault>> /\ \A u \in Thread : u # t => Same(u)
      /\ pc[t] = "assign" /\ pc[t] \in Filling /\ pc'[t] = "fseek" /\ s \in Stream
      /\ ptr' = [ptr EXCEPT ![s] = new_buf[t]] /\ fault = "none"
  BY <1>0, SyncFrame, ZenonT(60) DEF Sync, assign, Goto, LocalsType, Filling, libc
<1>2. /\ s # NULL /\ new_buf[t] \in Buf /\ \A u \in Thread : u # t => cur[u] # s
      /\ kind[s] = "mem"
  BY <1>0, <1>1, OneOnStream, MemStreamAssumption, ZenonT(60) DEF AskInv, WhereInv, Where, LocalsType, HeapInv,
     BlockInv
<1>3. /\ ptr'[s] = new_buf[t] /\ \A r \in Stream : r # s => ptr'[r] = ptr[r]
  BY <1>0, <1>1, Zenon DEF MemoryType
<1>4. /\ ~Held(s) /\ \A r \in Stream : r # s => (Held(r)' <=> Held(r))
  <2>1. ~Held(s)
    BY <1>1, Zenon DEF Held
  <2>2. \A r \in Stream : r # s => (Held(r)' <=> Held(r))
    BY <1>1, <1>3, HeldAside, Zenon
  <2> QED
    BY <2>1, <2>2, Zenon
<1>5. \A u \in Thread : pc'[u] \in Filling => u # t /\ pc[u] \in Filling /\ new_buf[u] # new_buf[t]
  BY <1>1, Zenon DEF Same, HeapInv, BlockInv, Filling
<1>6. heap[new_buf[t]] # NULL /\ \A r \in Stream : Held(r) => ptr[r] # new_buf[t]
  BY <1>1, Zenon DEF HeapInv, BlockInv
<1> HIDE DEF s
<1>7. HeapSound'
  <2>1. ASSUME NEW b \in Buf, heap'[b] # NULL
        PROVE  (\E r \in Stream : Held(r)' /\ ptr'[r] = b) \/ (\E u \in Thread : new_buf'[u] = b)
    <3>1. heap[b] # NULL
      BY <1>1, <2>1, Zenon
    <3>2. (\E r \in Stream : Held(r) /\ ptr[r] = b) \/ (\E u \in Thread : new_buf[u] = b)
      BY <3>1, Zenon DEF HeapInv, HeapSound
    <3>3. CASE \E r \in Stream : Held(r) /\ ptr[r] = b
      <4>1. PICK r \in Stream : Held(r) /\ ptr[r] = b
        BY <3>3, Zenon
      <4>2. Held(r)' /\ ptr'[r] = b
        BY <1>3, <1>4, <4>1, Zenon
      <4> QED
        BY <4>2, Zenon
    <3> QED
      BY <1>1, <3>2, <3>3, Zenon
  <2>2. ASSUME NEW r \in Stream, Held(r)' PROVE heap'[ptr'[r]] # NULL
    BY <1>1, <1>3, <1>4, <1>6, <2>2, Zenon DEF HeapInv, HeapSound
  <2>3. ASSUME NEW q \in Stream, NEW r \in Stream, q # r, Held(q)', Held(r)' PROVE ptr'[q] # ptr'[r]
    <3>1. CASE q # s /\ r # s
      BY <1>3, <1>4, <2>3, <3>1, Zenon DEF HeapInv, HeapSound
    <3>2. CASE q = s \/ r = s
      BY <1>3, <1>4, <1>6, <2>3, <3>2, Zenon
    <3> QED
      BY <3>1, <3>2, Zenon
  <2> QED
    BY <1>1, <2>1, <2>2, <2>3, Zenon DEF HeapInv, HeapSound
<1>8. BlockInv'
  <2>1. ASSUME NEW u \in Thread, pc'[u] \in Filling
        PROVE  /\ heap'[new_buf'[u]] # NULL
               /\ \A r \in Stream : Held(r)' => ptr'[r] # new_buf'[u]
               /\ \A v \in Thread : pc'[v] \in Filling /\ new_buf'[v] = new_buf'[u] => v = u
    <3>1. u # t /\ pc[u] \in Filling /\ new_buf[u] # new_buf[t] /\ new_buf'[u] = new_buf[u]
      BY <1>1, <1>5, <2>1, Zenon DEF Same
    <3>2. /\ heap[new_buf[u]] # NULL
          /\ \A r \in Stream : Held(r) => ptr[r] # new_buf[u]
          /\ \A v \in Thread : pc[v] \in Filling /\ new_buf[v] = new_buf[u] => v = u
      BY <3>1, Zenon DEF HeapInv, BlockInv
    <3>3. \A v \in Thread : pc'[v] \in Filling => pc[v] \in Filling /\ new_buf'[v] = new_buf[v]
      BY <1>1, <1>5, Zenon DEF Same
    <3>4. \A r \in Stream : Held(r)' => ptr'[r] # new_buf[u]
      BY <1>3, <1>4, <3>1, <3>2, Zenon
    <3> QED
      BY <1>1, <3>1, <3>2, <3>3, <3>4, Zenon
  <2>2. \A u \in Thread : pc'[u] \in {"fseek", "real_fclose"} /\ new_buf'[u] # NULL =>
          ptr'[cur'[u]] = new_buf'[u]
    <3>1. \A u \in Thread : u # t /\ pc[u] \in {"fseek", "real_fclose"} => cur[u] \in Stream /\ cur[u] # s
      BY <1>0, <1>2, Zenon DEF WhereInv, Where, LocalsType
    <3>2. ASSUME NEW u \in Thread, pc'[u] \in {"fseek", "real_fclose"}, new_buf'[u] # NULL
          PROVE  ptr'[cur'[u]] = new_buf'[u]
      <4>1. CASE u = t
        <5>1. cur'[u] = s /\ new_buf'[u] = new_buf[t]
          BY <1>1, <4>1, Zenon DEF s
        <5> QED
          BY <1>3, <5>1, Zenon
      <4>2. CASE u # t
        <5>1. /\ pc[u] \in {"fseek", "real_fclose"} /\ new_buf[u] # NULL
              /\ cur'[u] = cur[u] /\ new_buf'[u] = new_buf[u]
          BY <1>1, <3>2, <4>2, Zenon DEF Same
        <5>2. ptr[cur[u]] = new_buf[u]
          BY <5>1, Zenon DEF HeapInv, BlockInv
        <5> QED
          BY <1>3, <3>1, <4>2, <5>1, <5>2, Zenon
      <4> QED
        BY <4>1, <4>2, Zenon
    <3> QED
      BY <3>2, Zenon
  <2>3. \A u \in Thread : pc'[u] = "assign" => kind'[cur'[u]] = "mem" \/ fault' # "none"
    BY <1>1, ZenonT(60) DEF HeapInv, BlockInv, Same
  <2>4. \A r \in Stream : kind'[r] \in {"r", "w", "a"} => ptr'[r] = NULL
    BY <1>1, <1>2, <1>3, ZenonT(60) DEF HeapInv, BlockInv
  <2> QED
    BY <2>1, <2>2, <2>3, <2>4, Zenon DEF BlockInv
<1> QED
  BY <1>7, <1>8, Zenon DEF HeapInv

LEMMA HeapStays ==
    TypeInv /\ TypeInv' /\ AskInv /\ HeapInv /\ [Next]_vars => HeapInv'
<1> SUFFICES ASSUME TypeInv, TypeInv', AskInv, HeapInv, [Next]_vars PROVE HeapInv'
  OBVIOUS
<1>1. CASE UNCHANGED <<kind, ptr, heap, fault, locals>>
  <2>1. \A s \in Stream : Held(s)' <=> Held(s)
    BY <1>1 DEF Held, locals
  <2>2. HeapSound'
    BY <1>1, <2>1, Zenon DEF HeapInv, HeapSound, locals
  <2>3. BlockInv'
    BY <1>1, <2>1, SMTT(60) DEF HeapInv, BlockInv, locals
  <2> QED
    BY <2>2, <2>3 DEF HeapInv
<1>2. ASSUME NEW t \in Thread, NEW s \in Stream,
             (\E b \in Byte : fputc(t, s, b)) \/ (\E q \in Position : fseek(t, s, q))
      PROVE  HeapInv'
  BY <1>1, <1>2 DEF fputc, fseek, memory
<1>3. ASSUME UNCHANGED vars PROVE HeapInv'
  BY <1>1, <1>3 DEF vars, libc, memory
<1>4. ASSUME NEW t \in Thread, Inside(t) PROVE HeapInv'
  BY <1>4, HeapEntry, HeapReturn, HeapMalloc, HeapFree, HeapAssign DEF Inside, Sync
<1> QED
  BY <1>2, <1>3, <1>4, HeapCaller, HeapFreePtr DEF Next

LEMMA HeapInvariant == ASSUME ~Shared PROVE Spec => []HeapInv
<1>1. Init => HeapInv
  BY DEF Init, HeapInv, BlockInv, HeapSound, Held, Filling
<1> QED
  BY <1>1, HeapStays, TypeInvariant, AskInvariant, PTL DEF Spec

(* memstream.c:161 - for threads that keep to the streams they opened,     *)
(* nothing is freed twice, each *ptr names an allocated block of its own,  *)
(* and no block is lost.                                                   *)
THEOREM HeapIsSound == ASSUME ~Shared PROVE Spec => []HeapSound
<1>1. HeapInv => HeapSound
  BY DEF HeapInv
<1> QED
  BY <1>1, HeapInvariant, PTL

------------------------------------------------------------------------------
(* The copies, step by step. *)
LEMMA SnapCaller ==
    ASSUME ~Shared, TypeInv, TypeInv', AskInv, SnapInv, NEW t \in Thread, NEW s \in Stream,
           \/ \E k \in Kind : Open(t, k, s)
           \/ \E b \in Byte : fputc(t, s, b)
           \/ \E p \in Position : fseek(t, s, p)
    PROVE  SnapInv'
<1>0. StreamsType /\ MemoryType /\ LocalsType /\ WhereInv
  BY TypesTogether, Zenon DEF TypeInv
<1>1. /\ pc[t] = "user" /\ cur[t] = NULL /\ s # NULL /\ \A u \in Thread : cur[u] # s
  <2>1. pc[t] = "user" /\ cur[t] = NULL /\ s # NULL
    BY <1>0, MemStreamAssumption, ZenonT(60) DEF Open, fputc, fseek, Uses, WhereInv, Where
  <2>2. CASE \E k \in Kind : Open(t, k, s)
    BY <2>1, <2>2, Zenon DEF Open, Busy
  <2>3. CASE owner[s] = t
    BY <2>1, <2>3, Zenon DEF AskInv, OwnInv
  <2> QED
    BY <2>1, <2>2, <2>3, ZenonT(60) DEF fputc, fseek, Uses
<1>2. /\ heap' = heap /\ synced' = synced \ {s} /\ \A u \in Thread : u # t => Same(u)
      /\ pc'[t] \in {"user", "make_entry"} /\ (pc'[t] = "make_entry" => cur'[t] = s)
  BY <1>0, <1>1, ZenonT(60) DEF Open, fputc, fseek, memory, locals, Goto, LocalsType, Same
<1>3. \A r \in Stream : r # s =>
          /\ kind'[r] = kind[r] /\ fixed'[r] = fixed[r] /\ ptr'[r] = ptr[r]
          /\ size'[r] = size[r] /\ want'[r] = want[r] /\ wpos'[r] = wpos[r]
  <2>1. CASE \E k \in Kind : Open(t, k, s)
    BY <1>0, <2>1, ZenonT(60) DEF Open, StreamsType, MemoryType
  <2>2. CASE \E b \in Byte : fputc(t, s, b)
    BY <1>0, <2>2, ZenonT(60) DEF fputc, memory, StreamsType
  <2>3. CASE \E p \in Position : fseek(t, s, p)
    BY <1>0, <2>3, ZenonT(60) DEF fseek, memory, StreamsType
  <2> QED
    BY <2>1, <2>2, <2>3, Zenon
<1>4. CopyAt(t)'
  BY <1>2, ZenonT(60) DEF CopyAt
<1> QED
  BY <1>1, <1>2, <1>3, <1>4, SnapStep, Zenon

LEMMA SnapEnter ==
    ASSUME ~Shared, TypeInv, TypeInv', AskInv, SnapInv, NEW t \in Thread, NEW s \in Stream,
           fflush(t, s) \/ fclose(t, s)
    PROVE  SnapInv'
<1>0. LocalsType
  BY TypesTogether, SMTT(60) DEF TypeInv
<1>1. /\ UNCHANGED <<libc, memory, new_buf, asked>> /\ \A u \in Thread : u # t => Same(u)
      /\ pc'[t] \in {"ftell", "real_fclose"}
  BY <1>0, ZenonT(60) DEF fflush, fclose, Goto, LocalsType, Same
<1>2. \A r \in synced' : Snap(r)'
  BY <1>1, Zenon DEF SnapInv, Snap, libc, memory, asked
<1>3. \A u \in Thread : CopyAt(u)'
  BY <1>1, ZenonT(60) DEF SnapInv, CopyAt, Same, libc, memory, asked
<1> QED
  BY <1>2, <1>3 DEF SnapInv

LEMMA SnapEntry ==
    ASSUME TypeInv, TypeInv', AskInv, HeapInv, SnapInv, NEW t \in Thread,
           make_entry(t) \/ make_entry_fails(t) \/ real_fclose(t)
    PROVE  SnapInv'
<1>0. StreamsType /\ MemoryType /\ LocalsType /\ WhereInv
  BY TypesTogether, SMTT(60) DEF TypeInv
<1>1. /\ pc[t] \in {"make_entry", "real_fclose"} /\ Back(t)
      /\ UNCHANGED <<ptr, size, heap, want, wpos, synced>>
  BY ZenonT(60) DEF make_entry, make_entry_fails, real_fclose, memory, asked
<1>2. /\ \A u \in Thread : u # t => Same(u)
      /\ pc'[t] = "user"
  BY <1>0, <1>1, BackStep, ZenonT(60)
<1>3. cur[t] \in Stream /\ cur[t] # NULL
  BY <1>0, <1>1, MemStreamAssumption, Zenon DEF WhereInv, Where, LocalsType
<1>4. PICK s \in Stream : s = cur[t]
  BY <1>3
<1>5. \A u \in Thread : u # t => cur[u] # s
  BY <1>3, <1>4, OneOnStream DEF AskInv
<1>6. \A r \in Stream : r # s => kind'[r] = kind[r] /\ fixed'[r] = fixed[r]
  BY <1>0, <1>4, Zenon DEF make_entry, make_entry_fails, real_fclose, libc, memory, StreamsType, MemoryType
<1>7. s \in synced' => Snap(s)'
  <2>1. SUFFICES ASSUME s \in synced' PROVE Snap(s)'
    OBVIOUS
  <2>2. s \in synced /\ Snap(s) /\ pc[t] # "make_entry"
    BY <1>1, <1>4, <2>1, ZenonT(60) DEF SnapInv, CopyAt
  <2>3. kind'[s] = "none"
    BY <1>0, <1>4, <2>2, ZenonT(60) DEF make_entry, make_entry_fails, real_fclose, StreamsType
  <2>4. ptr[s] # NULL => kind[s] \notin Fixed
    BY ZenonT(60) DEF HeapInv, BlockInv, Fixed
  <2> QED
    BY <1>1, <2>2, <2>3, <2>4, Zenon DEF Snap, Fixed
<1>8. CopyAt(t)'
  BY <1>2 DEF CopyAt
<1> QED
  BY <1>1, <1>2, <1>5, <1>6, <1>7, <1>8, SnapStep, Zenon

LEMMA SnapFreePtr ==
    ASSUME TypeInv, HeapInv, SnapInv, NEW s \in Stream, FreePtr(s)
    PROVE  SnapInv'
<1>0. StreamsType /\ MemoryType /\ LocalsType /\ WhereInv
  BY TypesTogether DEF TypeInv
<1>1. /\ ptr[s] \in Buf /\ \A u \in Thread : cur[u] # s
      /\ heap' = [heap EXCEPT ![ptr[s]] = NULL] /\ ptr' = [ptr EXCEPT ![s] = NULL]
      /\ UNCHANGED <<kind, fixed, size, want, wpos, pc, cur, new_buf>> /\ synced' = synced \ {s}
  BY <1>0, Zenon DEF FreePtr, MemoryType, Busy, locals, libc
<1>2. Held(s) /\ \A b \in Buf : b # ptr[s] => heap'[b] = heap[b]
  BY <1>0, <1>1, MemStreamAssumption, ZenonT(60) DEF Held, MemoryType
<1>3. ASSUME NEW r \in synced' PROVE Snap(r)'
  <2>1. r \in Stream /\ r \in synced /\ r # s /\ Snap(r) /\ ptr'[r] = ptr[r]
    BY <1>0, <1>1, <1>3, Zenon DEF StreamsType, MemoryType, SnapInv
  <2>2. ptr[r] # NULL => heap'[ptr[r]] = heap[ptr[r]]
    <3>1. ptr[r] # NULL => ptr[r] \in Buf /\ Held(r)
      BY <1>0, <2>1, SyncedHeld, Zenon DEF MemoryType
    <3>2. ptr[r] # NULL => ptr[r] # ptr[s]
      BY <1>2, <2>1, <3>1, ZenonT(60) DEF HeapInv, HeapSound
    <3> QED
      BY <1>2, <3>1, <3>2, Zenon
  <2> QED
    BY <1>1, <2>1, <2>2 DEF Snap
<1>4. ASSUME NEW u \in Thread PROVE CopyAt(u)'
  <2>1. pc[u] \in {"free", "assign"} => heap'[new_buf[u]] = heap[new_buf[u]]
    <3>1. pc[u] \in {"free", "assign"} => new_buf[u] \in Buf /\ pc[u] \in Filling
      BY <1>0, Zenon DEF WhereInv, Where, LocalsType, Filling
    <3>2. pc[u] \in {"free", "assign"} => new_buf[u] # ptr[s]
      BY <1>2, <3>1, ZenonT(60) DEF HeapInv, BlockInv
    <3> QED
      BY <1>2, <3>1, <3>2, Zenon
  <2>2. CopyAt(u)
    BY Zenon DEF SnapInv
  <2> QED
    BY <1>1, <2>1, <2>2, Zenon DEF CopyAt
<1> QED
  BY <1>3, <1>4 DEF SnapInv

(* The steps of memstream_sync that touch neither the heap nor the         *)
(* caller's memory.                                                        *)
LEMMA SnapQuiet ==
    ASSUME TypeInv, SnapInv, NEW t \in Thread,
           ftell(t) \/ rewind(t) \/ malloc_fails(t) \/ fseek_to_end(t)
    PROVE  SnapInv'
<1>0. LocalsType
  BY TypesTogether DEF TypeInv
<1>1. UNCHANGED <<kind, want, wpos>> /\ \A u \in Thread : u # t => Same(u)
  BY SyncFrame, Zenon DEF Sync
<1>2. UNCHANGED <<memory, synced>>
  BY Zenon DEF ftell, rewind, malloc_fails, fseek_to_end, asked
<1>3. pc'[t] \notin {"make_entry", "free", "assign"}
  <2>1. CASE SyncReturns(t)
    BY <1>0, <2>1, SyncReturnsStep, ZenonT(60)
  <2>2. CASE ~SyncReturns(t)
    BY <1>0, <2>2, ZenonT(60) DEF ftell, rewind, malloc_fails, fseek_to_end, Goto, LocalsType
  <2> QED
    BY <2>1, <2>2, Zenon
<1>4. \A r \in synced' : Snap(r)'
  BY <1>1, <1>2, ZenonT(60) DEF SnapInv, Snap, memory
<1>5. ASSUME NEW u \in Thread PROVE CopyAt(u)'
  <2>1. CASE u = t
    BY <1>3, <2>1, Zenon DEF CopyAt
  <2>2. CASE u # t
    <3>1. Same(u) /\ CopyAt(u)
      BY <1>1, <2>2, Zenon DEF SnapInv
    <3> QED
      BY <1>1, <1>2, <3>1, Zenon DEF CopyAt, Same, memory
  <2> QED
    BY <2>1, <2>2, Zenon
<1> QED
  BY <1>4, <1>5, Zenon DEF SnapInv

(* fread has all of what was written before it. *)
LEMMA ReadsAll ==
    ASSUME TypeInv, AskInv, NEW t \in Thread, pc[t] \in {"fread_fixed", "fread"}
    PROVE  /\ cur[t] \in Stream /\ data[cur[t]] = want[cur[t]] /\ pos[cur[t]] = 0
           /\ byte_count[t] = wpos[cur[t]] /\ byte_count[t] \in Nat
           /\ want[cur[t]] \in Seq(Byte) /\ byte_count[t] <= Len(want[cur[t]])
           /\ \A n \in Nat : n <= byte_count[t] => Available(cur[t], n) = n
           /\ Available(cur[t], byte_count[t]) = byte_count[t]
<1>0. StreamsType /\ LocalsType /\ Where(t) /\ PosInv
  BY TypesTogether, Zenon DEF TypeInv, WhereInv
<1>1. cur[t] \in Stream /\ cur[t] # NULL /\ kind[cur[t]] # "none"
  BY <1>0, MemStreamAssumption, Zenon DEF Where, LocalsType
<1>2. /\ data[cur[t]] = want[cur[t]] /\ pos[cur[t]] = 0 /\ byte_count[t] = wpos[cur[t]]
  BY <1>1, Zenon DEF AskInv, DataInv, StepInv, StepAt, Filling
<1>3. /\ byte_count[t] \in Nat /\ want[cur[t]] \in Contents /\ byte_count[t] <= Len(want[cur[t]])
  BY <1>0, <1>1, <1>2, MemStreamAssumption, SMTT(60) DEF StreamsType, LocalsType, PosInv, Position
<1>4. want[cur[t]] \in Seq(Byte) /\ Len(want[cur[t]]) \in Nat
  BY <1>3, ContentsType, Zenon
<1>5. ASSUME NEW n \in Nat, n <= byte_count[t] PROVE Available(cur[t], n) = n
  <2>1. pos[cur[t]] + n <= Len(data[cur[t]])
    BY <1>2, <1>3, <1>4, <1>5, FromZeroFits, Zenon
  <2> QED
    BY <2>1, Zenon DEF Available
<1>6. byte_count[t] <= byte_count[t]
  BY <1>3
<1> QED
  BY <1>1, <1>2, <1>3, <1>4, <1>5, <1>6, Zenon

LEMMA SnapFixed ==
    ASSUME TypeInv, TypeInv', AskInv, SnapInv, NEW t \in Thread, fread_fixed(t)
    PROVE  SnapInv'
<1>0. StreamsType /\ MemoryType /\ LocalsType
  BY TypesTogether DEF TypeInv
<1>1. /\ UNCHANGED <<kind, want, wpos>> /\ \A u \in Thread : u # t => Same(u)
      /\ cur[t] \in Stream /\ cur[t] # NULL /\ pc[t] = "fread_fixed"
  BY SyncFrame, MemStreamAssumption, Zenon DEF Sync, fread_fixed
<1>2. PICK s \in Stream : s = cur[t]
  BY <1>1, Zenon
<1>3. \A u \in Thread : u # t => cur[u] # s
  BY <1>1, <1>2, OneOnStream, Zenon DEF AskInv
<1>4. PICK n : n = Cut(byte_count[t], FixedSize)
  BY Zenon
<1>5. /\ data[s] = want[s] /\ pos[s] = 0 /\ wpos[s] \in Nat /\ n \in Nat /\ Available(s, n) = n
      /\ n = Cut(wpos[s], FixedSize)
  <2>1. /\ data[s] = want[s] /\ pos[s] = 0 /\ byte_count[t] = wpos[s] /\ wpos[s] \in Nat
        /\ \A m \in Nat : m <= byte_count[t] => Available(s, m) = m
    BY <1>1, <1>2, ReadsAll, Zenon
  <2>2. n \in Nat /\ n <= byte_count[t]
    BY <1>4, <2>1, MemStreamAssumption, CutMeans, Zenon
  <2> QED
    BY <1>4, <2>1, <2>2, Zenon
<1>6. /\ UNCHANGED <<ptr, size, heap>> /\ synced' = synced \cup {s} /\ pc'[t] = "fseek"
      /\ fixed' = [fixed EXCEPT ![s] = [i \in 1..FixedSize |->
             IF i <= n THEN want[s][i] ELSE IF i = n + 1 THEN NUL ELSE fixed[s][i]]]
  <2>1. /\ UNCHANGED <<ptr, size, heap>> /\ synced' = synced \cup {s} /\ pc'[t] = "fseek"
    BY <1>0, <1>2 DEF fread_fixed, Goto, LocalsType
  <2>2. fixed' = [fixed EXCEPT ![s] = [i \in 1..FixedSize |->
             IF i <= Available(s, n) THEN data[s][pos[s] + i] ELSE IF i = n + 1 THEN NUL ELSE fixed[s][i]]]
    BY <1>2, <1>4, Zenon DEF fread_fixed, Cut
  <2>3. \A i \in 1..FixedSize : 0 + i = i
    BY MemStreamAssumption, FromZero, Zenon
  <2> QED
    BY <1>5, <2>1, <2>2, <2>3, ZenonT(60)
<1>7. Snap(s)'
  <2>1. kind'[s] \in Fixed
    BY <1>1, <1>2, Zenon DEF AskInv, StepInv, StepAt
  <2>2. \A i \in 1..FixedSize : fixed'[s][i] =
             IF i <= n THEN want[s][i] ELSE IF i = n + 1 THEN NUL ELSE fixed[s][i]
    BY <1>0, <1>6, Zenon DEF MemoryType
  <2>3. \A i \in 1..FixedSize : CutAt(i, wpos[s], n)
    BY <1>5, MemStreamAssumption, CutMeans, Zenon
  <2> QED
    BY <1>1, <2>1, <2>2, <2>3, Zenon DEF Snap, CutAt
<1>8. \A r \in Stream : r # s => fixed'[r] = fixed[r]
  BY <1>0, <1>6, Zenon DEF MemoryType
<1>9. CopyAt(t)'
  BY <1>6, Zenon DEF CopyAt
<1> QED
  BY <1>1, <1>3, <1>6, <1>7, <1>8, <1>9, SnapStep, ZenonT(60)

LEMMA SnapMalloc ==
    ASSUME TypeInv, TypeInv', AskInv, HeapInv, SnapInv, NEW t \in Thread, NEW b \in Buf, malloc(t, b)
    PROVE  SnapInv'
<1>0. StreamsType /\ MemoryType /\ LocalsType /\ WhereInv
  BY TypesTogether DEF TypeInv
<1>1. /\ UNCHANGED <<kind, want, wpos>> /\ \A u \in Thread : u # t => Same(u)
      /\ cur[t] \in Stream /\ cur[t] # NULL
  BY SyncFrame, MemStreamAssumption, Zenon DEF Sync
<1>2. PICK s \in Stream : s = cur[t]
  BY <1>1
<1>3. \A u \in Thread : u # t => cur[u] # s
  BY <1>1, <1>2, OneOnStream, Zenon DEF AskInv
<1>4. /\ UNCHANGED <<fixed, ptr, size, synced>> /\ pc'[t] = "fread" /\ heap[b] = NULL
      /\ \A c \in Buf : c # b => heap'[c] = heap[c]
  BY <1>0, Zenon DEF malloc, Goto, LocalsType, MemoryType, asked
<1>5. \A r \in Stream : Held(r) => heap'[ptr[r]] = heap[ptr[r]]
  <2>1. \A r \in Stream : Held(r) => ptr[r] \in Buf
    BY <1>0, Zenon DEF Held, MemoryType
  <2>2. \A r \in Stream : Held(r) => ptr[r] # b
    BY <1>4, ZenonT(60) DEF HeapInv, HeapSound
  <2> QED
    BY <1>4, <2>1, <2>2, Zenon
<1>6. \A u \in Thread : pc[u] \in {"free", "assign"} => heap'[new_buf[u]] = heap[new_buf[u]]
  BY <1>0, <1>4, ZenonT(60) DEF HeapInv, BlockInv, WhereInv, Where, LocalsType, Filling
<1>7. s \in synced' => Snap(s)'
  <2>1. SUFFICES ASSUME s \in synced' PROVE Snap(s)'
    OBVIOUS
  <2>2. s \in synced /\ Snap(s) /\ (ptr[s] # NULL => Held(s))
    BY <1>4, <2>1, SyncedHeld, Zenon DEF SnapInv
  <2> QED
    BY <1>1, <1>4, <1>5, <2>2, Zenon DEF Snap
<1>8. CopyAt(t)'
  BY <1>4, Zenon DEF CopyAt
<1> QED
  BY <1>1, <1>3, <1>4, <1>5, <1>6, <1>7, <1>8, SnapStep, ZenonT(60)

LEMMA SnapFread ==
    ASSUME TypeInv, TypeInv', AskInv, HeapInv, SnapInv, NEW t \in Thread, fread(t)
    PROVE  SnapInv'
<1>0. StreamsType /\ MemoryType /\ LocalsType /\ WhereInv
  BY TypesTogether DEF TypeInv
<1>1. /\ UNCHANGED <<kind, want, wpos>> /\ \A u \in Thread : u # t => Same(u)
      /\ cur[t] \in Stream /\ cur[t] # NULL /\ pc[t] = "fread"
  BY SyncFrame, MemStreamAssumption, Zenon DEF Sync, fread
<1>2. PICK s \in Stream : s = cur[t]
  BY <1>1, Zenon
<1>3. \A u \in Thread : u # t => cur[u] # s
  BY <1>1, <1>2, OneOnStream, ZenonT(60) DEF AskInv
<1>4. PICK b \in Buf : b = new_buf[t]
  BY <1>0, <1>1 DEF WhereInv, Where, LocalsType, Filling
<1>5. /\ UNCHANGED <<fixed, ptr, size, synced, cur, new_buf>> /\ pc'[t] = "free"
      /\ heap'[b] = Read(t) /\ \A c \in Buf : c # b => heap'[c] = heap[c]
  BY <1>0, <1>4, Zenon DEF fread, Goto, LocalsType, MemoryType, asked, Read
<1>6. /\ \A r \in Stream : Held(r) => ptr[r] # b
      /\ \A u \in Thread : u # t /\ pc[u] \in Filling => new_buf[u] # b
  BY <1>1, <1>4, ZenonT(60) DEF HeapInv, BlockInv, Filling
<1>7. \A r \in Stream : Held(r) => heap'[ptr[r]] = heap[ptr[r]]
  <2>1. \A r \in Stream : Held(r) => ptr[r] \in Buf
    BY <1>0, ZenonT(60) DEF Held, MemoryType
  <2> QED
    BY <1>5, <1>6, <2>1, ZenonT(60)
<1>8. \A u \in Thread : u # t /\ pc[u] \in {"free", "assign"} => heap'[new_buf[u]] = heap[new_buf[u]]
  BY <1>0, <1>5, <1>6, ZenonT(60) DEF WhereInv, Where, LocalsType, Filling
<1>9. s \in synced' => Snap(s)'
  <2>1. SUFFICES ASSUME s \in synced' PROVE Snap(s)'
    OBVIOUS
  <2>2. s \in synced /\ Snap(s) /\ (ptr[s] # NULL => Held(s))
    BY <1>5, <2>1, SyncedHeld, ZenonT(60) DEF SnapInv
  <2> QED
    BY <1>1, <1>5, <1>7, <2>2, Zenon DEF Snap
<1>10. CopyAt(t)'
  <2>1. /\ data[s] = want[s] /\ pos[s] = 0 /\ byte_count[t] = wpos[s] /\ byte_count[t] \in Nat
        /\ want[s] \in Seq(Byte) /\ wpos[s] <= Len(want[s])
        /\ Available(s, byte_count[t]) = byte_count[t]
    BY <1>1, <1>2, ReadsAll, Zenon
  <2>2. Read(t) = [i \in 1..wpos[s] |-> want[s][i]]
    <3>1. Read(t) = [i \in 1..wpos[s] |-> IF i <= wpos[s] THEN want[s][0 + i] ELSE Junk]
      BY <1>2, <2>1, Zenon DEF Read
    <3>2. \A i \in 1..wpos[s] : i <= wpos[s] /\ 0 + i = i
      BY <2>1, FromZero, Zenon
    <3> QED
      BY <3>1, <3>2, Zenon
  <2>3. SubSeq(want[s], 1, wpos[s]) = [i \in 1..wpos[s] |-> want[s][i]]
    BY <2>1, SubSeqMeans, Zenon
  <2>4. heap'[new_buf'[t]] = SubSeq(want'[cur'[t]], 1, wpos'[cur'[t]])
    BY <1>1, <1>2, <1>4, <1>5, <2>2, <2>3, Zenon
  <2> QED
    BY <1>5, <2>4, ZenonT(60) DEF CopyAt
<1> QED
  BY <1>1, <1>3, <1>5, <1>7, <1>8, <1>9, <1>10, SnapStep, ZenonT(60)

LEMMA SnapFree ==
    ASSUME TypeInv, TypeInv', AskInv, HeapInv, SnapInv, NEW t \in Thread, free(t)
    PROVE  SnapInv'
<1>0. StreamsType /\ MemoryType /\ LocalsType /\ WhereInv
  BY TypesTogether DEF TypeInv
<1>1. /\ UNCHANGED <<kind, want, wpos>> /\ \A u \in Thread : u # t => Same(u)
      /\ cur[t] \in Stream /\ cur[t] # NULL /\ pc[t] = "free"
  BY SyncFrame, MemStreamAssumption, Zenon DEF Sync, free
<1>2. PICK s \in Stream : s = cur[t]
  BY <1>1, Zenon
<1>3. \A u \in Thread : u # t => cur[u] # s
  BY <1>1, <1>2, OneOnStream, Zenon DEF AskInv
<1>4. /\ UNCHANGED <<fixed, ptr, size, cur, new_buf>> /\ pc'[t] = "assign" /\ synced' = synced \ {s}
  BY <1>0, <1>2, Zenon DEF free, Goto, LocalsType
<1>5. ptr[s] # NULL => Held(s) /\ ptr[s] \in Buf
  BY <1>0, <1>1, <1>2, OwnHeld, Zenon DEF AskInv, MemoryType
<1>6. \A b \in Buf : b # ptr[s] => heap'[b] = heap[b]
  BY <1>0, <1>2, <1>5, ZenonT(60) DEF free, MemoryType
<1>7. \A r \in Stream : r # s /\ Held(r) => heap'[ptr[r]] = heap[ptr[r]]
  <2>1. \A r \in Stream : Held(r) => ptr[r] \in Buf
    BY <1>0, Zenon DEF Held, MemoryType
  <2>2. \A r \in Stream : r # s /\ Held(r) => ptr[r] # ptr[s]
    BY <1>5, <2>1, MemStreamAssumption, ZenonT(60) DEF HeapInv, HeapSound
  <2> QED
    BY <1>6, <2>1, <2>2, Zenon
<1>8. \A u \in Thread : pc[u] \in {"free", "assign"} => heap'[new_buf[u]] = heap[new_buf[u]]
  <2>1. \A u \in Thread : pc[u] \in {"free", "assign"} => new_buf[u] \in Buf /\ pc[u] \in Filling
    BY <1>0, Zenon DEF WhereInv, Where, LocalsType, Filling
  <2>2. \A u \in Thread : pc[u] \in {"free", "assign"} => new_buf[u] # ptr[s]
    BY <1>0, <1>5, <2>1, FillingBlock, Zenon
  <2> QED
    BY <1>6, <2>1, <2>2
<1>9. CopyAt(t)'
  <2>1. heap[new_buf[t]] = SubSeq(want[cur[t]], 1, wpos[cur[t]])
    BY <1>1, Zenon DEF SnapInv, CopyAt
  <2> QED
    BY <1>1, <1>2, <1>4, <1>8, <2>1, ZenonT(60) DEF CopyAt
<1> QED
  BY <1>1, <1>3, <1>4, <1>7, <1>8, <1>9, SnapStep, Zenon

LEMMA SnapAssign ==
    ASSUME TypeInv, TypeInv', AskInv, HeapInv, SnapInv, NEW t \in Thread, assign(t)
    PROVE  SnapInv'
<1>0. StreamsType /\ MemoryType /\ LocalsType /\ WhereInv
  BY TypesTogether DEF TypeInv
<1>1. /\ UNCHANGED <<kind, want, wpos>> /\ \A u \in Thread : u # t => Same(u)
      /\ cur[t] \in Stream /\ cur[t] # NULL /\ pc[t] = "assign" /\ fault = "none"
  BY SyncFrame, MemStreamAssumption, ZenonT(60) DEF Sync, assign
<1>2. PICK s \in Stream : s = cur[t]
  BY <1>1, Zenon
<1>3. \A u \in Thread : u # t => cur[u] # s
  BY <1>1, <1>2, OneOnStream, Zenon DEF AskInv
<1>4. /\ UNCHANGED <<fixed, heap, cur, new_buf>> /\ pc'[t] = "fseek" /\ synced' = synced \cup {s}
      /\ ptr'[s] = new_buf[t] /\ size'[s] = byte_count[t]
      /\ \A r \in Stream : r # s => ptr'[r] = ptr[r] /\ size'[r] = size[r]
  BY <1>0, <1>2, Zenon DEF assign, Goto, LocalsType, MemoryType
<1>5. Snap(s)'
  <2>1. kind[s] = "mem" /\ byte_count[t] = wpos[s]
    BY <1>1, <1>2, ZenonT(60) DEF HeapInv, BlockInv, AskInv, StepInv, StepAt, Filling
  <2>2. heap[new_buf[t]] = SubSeq(want[s], 1, wpos[s])
    BY <1>1, <1>2, ZenonT(60) DEF SnapInv, CopyAt
  <2> QED
    BY <1>1, <1>4, <2>1, <2>2, ZenonT(60) DEF Snap, Fixed
<1>6. CopyAt(t)'
  BY <1>4, ZenonT(60) DEF CopyAt
<1> QED
  BY <1>1, <1>3, <1>4, <1>5, <1>6, SnapStep, ZenonT(60)

LEMMA SnapStays ==
    ASSUME ~Shared
    PROVE  TypeInv /\ TypeInv' /\ AskInv /\ HeapInv /\ SnapInv /\ [Next]_vars => SnapInv'
<1> SUFFICES ASSUME TypeInv, TypeInv', AskInv, HeapInv, SnapInv, [Next]_vars PROVE SnapInv'
  OBVIOUS
<1>1. CASE UNCHANGED vars
  <2>1. \A s \in synced' : Snap(s)'
    BY <1>1, Zenon DEF SnapInv, Snap, vars, libc, memory, asked
  <2>2. \A t \in Thread : CopyAt(t)'
    BY <1>1, Zenon DEF SnapInv, CopyAt, vars, memory, locals, asked
  <2> QED
    BY <2>1, <2>2, Zenon DEF SnapInv
<1>2. ASSUME NEW t \in Thread, Inside(t) PROVE SnapInv'
  BY <1>2, SnapEntry, SnapQuiet, SnapFixed, SnapMalloc, SnapFread, SnapFree, SnapAssign, Zenon DEF Inside, Sync
<1> QED
  BY <1>1, <1>2, SnapCaller, SnapEnter, SnapFreePtr, Zenon DEF Next

LEMMA WholeSeq ==
    ASSUME NEW S, NEW s \in Seq(S)
    PROVE  SubSeq(s, 1, Len(s)) = s
OBVIOUS

(* memstream.c:69-75 - for threads that keep to the streams they opened,   *)
(* what fflush and fclose leave in the caller's memory of a stream that    *)
(* stands at its end is all that was written, cut to the size of a fixed   *)
(* buffer and followed by a NUL if there is room.  The invariant says of   *)
(* every stream that the copy is what was written up to its position.      *)
THEOREM CopyIsExact == ASSUME ~Shared PROVE Spec => []Snapshot
<1>1. Init => SnapInv
  BY DEF Init, SnapInv, CopyAt
<1>2. TypeInv /\ TypeInv' /\ AskInv /\ HeapInv /\ SnapInv /\ [Next]_vars => SnapInv'
  BY SnapStays, Zenon
<1>3. TypeInv /\ SnapInv => Snapshot
  <2>1. SUFFICES ASSUME TypeInv, SnapInv, NEW s \in synced, wpos[s] = Len(want[s])
                 PROVE  IF kind[s] \in Fixed
                        THEN \A i \in 1..FixedSize :
                                /\ i <= Len(want[s]) => fixed[s][i] = want[s][i]
                                /\ i = Len(want[s]) + 1 => fixed[s][i] = NUL
                        ELSE ptr[s] # NULL => size[s] = Len(want[s]) /\ heap[ptr[s]] = want[s]
    BY Zenon DEF Snapshot
  <2>2. want[s] \in Seq(Byte)
    <3>1. want[s] \in Contents
      BY <2>1, Zenon DEF TypeInv, TypeOK
    <3> QED
      BY <3>1, ContentsType, Zenon
  <2>3. SubSeq(want[s], 1, wpos[s]) = want[s]
    BY <2>1, <2>2, WholeSeq
  <2> QED
    BY <2>1, <2>3, Zenon DEF SnapInv, Snap
<1> QED
  BY <1>1, <1>2, <1>3, TypeInvariant, AskInvariant, HeapInvariant, PTL DEF Spec
==============================================================================
