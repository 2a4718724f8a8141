------------------------- MODULE SharedStateProofs --------------------------
(***************************************************************************)
(* The inductive invariants of AtomicFences (what the store buffers hold,  *)
(* in which order, and what has reached memory when) and of Random (what   *)
(* holds of each thread and how many of them have the device or the        *)
(* generator in hand).  The theorems about them are in ProcessesProofs.    *)
(***************************************************************************)
EXTENDS AtomicFences, TLAPS

Entry == {BARRIER} \cup [loc : Loc, val : Nat]

(* The stores that are in a buffer. *)
In(b) == {b[i] : i \in 1 .. Len(b)} \ {BARRIER}

(* The order in which a thread makes its stores. *)
Rank(e) ==
    IF e.loc[1] = "data" THEN 1 ELSE IF e.loc[1] = "flag" THEN 2
    ELSE IF e.loc[1] = "counter" THEN 3 ELSE 4

(* Stores in the order they were made, with a barrier after each but       *)
(* perhaps the last.                                                       *)
InOrder(b) ==
    /\ b \in Seq(Entry)
    /\ Len(b) > 0 => b[1] # BARRIER
    /\ \A i \in 1 .. (Len(b) - 1) : b[i] = BARRIER <=> b[i + 1] # BARRIER
    /\ \A i, j \in 1 .. Len(b) :
          i < j /\ b[i] # BARRIER /\ b[j] # BARRIER => Rank(b[i]) < Rank(b[j])

Fenced(b) == Len(b) > 0 => b[Len(b)] = BARRIER

LEMMA NoBarrier == \A l, v : [loc |-> l, val |-> v] # BARRIER
BY DEF BARRIER

LEMMA Empty == InOrder(<<>>) /\ In(<<>>) = {} /\ Fenced(<<>>)
<1>1. <<>> \in Seq(Entry) /\ Len(<<>>) = 0
  OBVIOUS
<1> QED
  BY <1>1 DEF InOrder, In, Fenced

LEMMA Rest ==
    ASSUME NEW b \in Seq(Entry), Len(b) > 1, b[2] = BARRIER
    PROVE  Without(b, 1) = Tail(Tail(b))
<1>1. SubSeq(b, 1, 1 - 1) = <<>> /\ SubSeq(b, 1 + 1, Len(b)) = Tail(b)
  OBVIOUS
<1>2. Len(Tail(b)) > 0 /\ Tail(b)[1] = BARRIER /\ Tail(b) \in Seq(Entry)
  OBVIOUS
<1>3. Tail(b) # <<>>
  <2>1. Len(<<>>) = 0
    OBVIOUS
  <2>2. ~(Len(Tail(b)) = 0)
    BY <1>2
  <2> QED
    BY <2>1, <2>2, Zenon
<1>4. SubSeq(b, 1, 1 - 1) \o SubSeq(b, 1 + 1, Len(b)) = Tail(b)
  BY <1>1, <1>2
<1> QED
  BY <1>2, <1>3, <1>4, Zenon DEF Without

LEMMA RestOfOne ==
    ASSUME NEW b \in Seq(Entry), Len(b) > 0, Len(b) <= 1
    PROVE  Without(b, 1) = <<>>
<1>1. SubSeq(b, 1, 1 - 1) = <<>> /\ SubSeq(b, 1 + 1, Len(b)) = <<>>
  OBVIOUS
<1> QED
  BY <1>1 DEF Without

(* Only the oldest store of such a buffer may reach memory; the others     *)
(* stay, in their order.                                                   *)
LEMMA OldestFirst ==
    ASSUME NEW b, InOrder(b), NEW i \in DOMAIN b, Ready(b, i)
    PROVE  /\ i = 1 /\ Len(b) > 0 /\ b[1] \in In(b)
           /\ \A e \in In(b) : e # b[1] => Rank(b[1]) < Rank(e)
           /\ InOrder(Without(b, 1)) /\ In(Without(b, 1)) = In(b) \ {b[1]}
           /\ Fenced(b) => Fenced(Without(b, 1))
<1>1. b \in Seq(Entry) /\ Len(b) \in Nat /\ i \in 1 .. Len(b) /\ b[1] # BARRIER /\ DOMAIN b = 1 .. Len(b)
  BY DEF InOrder
<1>2. i = 1
  <2>1. b[i] # BARRIER /\ \A j \in 1 .. (i - 1) : b[j] # BARRIER /\ ordering = "PSO"
    BY DEF Ready
  <2>2. ASSUME i > 1
        PROVE  FALSE
    <3>1. i - 1 \in 1 .. (Len(b) - 1) /\ i - 1 \in 1 .. (i - 1) /\ (i - 1) + 1 = i
      BY <1>1, <2>2
    <3> QED
      BY <2>1, <3>1 DEF InOrder
  <2> QED
    BY <1>1, <2>2
<1>3. b[1] \in In(b)
  BY <1>1, <1>2 DEF In
<1>4. \A e \in In(b) : e # b[1] => Rank(b[1]) < Rank(e)
  <2>1. SUFFICES ASSUME NEW e \in In(b), e # b[1]
                 PROVE  Rank(b[1]) < Rank(e)
    OBVIOUS
  <2>2. PICK j \in 1 .. Len(b) : e = b[j] /\ b[j] # BARRIER
    BY DEF In
  <2>3. 1 < j /\ 1 \in 1 .. Len(b)
    BY <1>1, <2>1, <2>2
  <2> QED
    BY <1>1, <2>2, <2>3 DEF InOrder
<1>5. CASE Len(b) <= 1
  <2>1. Without(b, 1) = <<>>
    BY <1>1, <1>5, RestOfOne
  <2>2. In(b) \subseteq {b[1]}
    BY <1>1, <1>5 DEF In
  <2> QED
    BY <1>1, <1>2, <1>3, <1>4, <2>1, <2>2, Empty
<1>6. CASE Len(b) > 1
  <2>1. b[2] = BARRIER
    <3>1. 1 \in 1 .. (Len(b) - 1) /\ 1 + 1 = 2
      BY <1>1, <1>6
    <3> QED
      BY <1>1, <3>1 DEF InOrder
  <2>2. PICK r : r = Tail(Tail(b))
    BY Zenon
  <2>3. /\ Without(b, 1) = r /\ r \in Seq(Entry) /\ Len(r) \in Nat /\ Len(r) = Len(b) - 2
        /\ \A j \in 1 .. Len(r) : r[j] = b[j + 2]
    <3>1. PICK c : c = Tail(b)
      BY Zenon
    <3>2. c \in Seq(Entry) /\ Len(c) = Len(b) - 1 /\ \A j \in 1 .. Len(c) : c[j] = b[j + 1]
      BY <1>1, <1>6, <3>1
    <3>3. r = Tail(c) /\ Len(c) > 0 /\ Len(c) \in Nat
      BY <1>1, <1>6, <2>2, <3>1, <3>2
    <3>4. r \in Seq(Entry) /\ Len(r) = Len(c) - 1 /\ \A j \in 1 .. Len(r) : r[j] = c[j + 1]
      BY <3>2, <3>3
    <3>5. \A j \in 1 .. Len(r) : j + 1 \in 1 .. Len(c) /\ (j + 1) + 1 = j + 2
      BY <3>2, <3>3, <3>4
    <3>6. \A j \in 1 .. Len(r) : r[j] = b[j + 2]
      BY <3>2, <3>4, <3>5
    <3>7. Len(r) \in Nat /\ Len(r) = Len(b) - 2
      <4>1. PICK n \in Nat : n = Len(b)
        BY <1>1, Zenon
      <4>2. Len(c) = n - 1 /\ n > 1
        BY <1>6, <3>2, <4>1
      <4>3. Len(r) = n - 2
        BY <3>4, <4>2
      <4> QED
        BY <4>1, <4>2, <4>3
    <3> QED
      BY <1>1, <1>6, <2>1, <2>2, <3>4, <3>6, <3>7, Rest, Zenon
  <2>4. InOrder(r)
    <3>1. \A j \in 1 .. (Len(r) - 1) : r[j] = BARRIER <=> r[j + 1] # BARRIER
      <4>1. SUFFICES ASSUME NEW j \in 1 .. (Len(r) - 1)
                     PROVE  r[j] = BARRIER <=> r[j + 1] # BARRIER
        OBVIOUS
      <4>2. /\ j \in 1 .. Len(r) /\ j + 1 \in 1 .. Len(r) /\ j + 2 \in 1 .. (Len(b) - 1)
            /\ (j + 1) + 2 = (j + 2) + 1
        BY <2>3
      <4>3. r[j] = b[j + 2] /\ r[j + 1] = b[(j + 2) + 1]
        BY <2>3, <4>2
      <4> QED
        BY <4>2, <4>3, Zenon DEF InOrder
    <3>2. Len(r) > 0 => r[1] # BARRIER
      <4>1. SUFFICES ASSUME Len(r) > 0
                     PROVE  r[1] # BARRIER
        OBVIOUS
      <4>2. 1 \in 1 .. Len(r) /\ 2 \in 1 .. (Len(b) - 1) /\ 1 + 2 = 2 + 1
        BY <2>3, <4>1
      <4>3. r[1] = b[2 + 1]
        BY <2>3, <4>2
      <4> QED
        BY <2>1, <4>2, <4>3 DEF InOrder
    <3>3. \A j, k \in 1 .. Len(r) :
             j < k /\ r[j] # BARRIER /\ r[k] # BARRIER => Rank(r[j]) < Rank(r[k])
      <4>1. SUFFICES ASSUME NEW j \in 1 .. Len(r), NEW k \in 1 .. Len(r), j < k,
                            r[j] # BARRIER, r[k] # BARRIER
                     PROVE  Rank(r[j]) < Rank(r[k])
        OBVIOUS
      <4>2. j + 2 \in 1 .. Len(b) /\ k + 2 \in 1 .. Len(b) /\ j + 2 < k + 2
        BY <2>3, <4>1
      <4>3. r[j] = b[j + 2] /\ r[k] = b[k + 2]
        BY <2>3, Zenon
      <4> QED
        BY <4>1, <4>2, <4>3 DEF InOrder
    <3> QED
      BY <2>3, <3>1, <3>2, <3>3, Zenon DEF InOrder
  <2>5. In(r) = In(b) \ {b[1]}
    <3>1. ASSUME NEW e \in In(r)
          PROVE  e \in In(b) \ {b[1]}
      <4>1. PICK j \in 1 .. Len(r) : e = r[j] /\ e # BARRIER
        BY <3>1 DEF In
      <4>2. j + 2 \in 1 .. Len(b) /\ e = b[j + 2] /\ 1 < j + 2 /\ 1 \in 1 .. Len(b)
        BY <1>1, <2>3, <4>1
      <4>3. Rank(b[1]) < Rank(e)
        BY <1>1, <4>1, <4>2 DEF InOrder
      <4>4. Rank(b[1]) \in Nat
        BY DEF Rank
      <4> QED
        BY <4>1, <4>2, <4>3, <4>4, SMTT(60) DEF In
    <3>2. ASSUME NEW e \in In(b), e # b[1]
          PROVE  e \in In(r)
      <4>1. PICK j \in 1 .. Len(b) : e = b[j] /\ e # BARRIER
        BY <3>2 DEF In
      <4>2. j # 1 /\ j # 2
        BY <2>1, <3>2, <4>1
      <4>3. j - 2 \in 1 .. Len(r) /\ (j - 2) + 2 = j
        BY <1>1, <2>3, <4>2
      <4>4. r[j - 2] = e
        BY <2>3, <4>1, <4>3, Zenon
      <4> QED
        BY <4>1, <4>3, <4>4 DEF In
    <3> QED
      BY <3>1, <3>2
  <2>6. Fenced(b) => Fenced(r)
    <3>1. SUFFICES ASSUME b[Len(b)] = BARRIER, Len(r) > 0
                   PROVE  r[Len(r)] = BARRIER
      BY <1>6 DEF Fenced
    <3>2. Len(r) \in 1 .. Len(r) /\ Len(r) + 2 = Len(b)
      BY <1>1, <2>3, <3>1
    <3> QED
      BY <2>3, <3>1, <3>2
  <2> QED
    BY <1>1, <1>2, <1>3, <1>4, <1>6, <2>3, <2>4, <2>5, <2>6
<1> QED
  BY <1>1, <1>5, <1>6

(* sst_store_barrier fences a buffer and leaves its stores. *)
LEMMA Fences ==
    ASSUME NEW b, InOrder(b)
    PROVE  LET c == sst_store_barrier(b) IN InOrder(c) /\ In(c) = In(b) /\ Fenced(c)
<1>1. b \in Seq(Entry) /\ Len(b) \in Nat
  BY DEF InOrder
<1>2. CASE b = <<>> \/ b[Len(b)] = BARRIER
  BY <1>2, Empty DEF sst_store_barrier, Fenced
<1>3. CASE b # <<>> /\ b[Len(b)] # BARRIER
  <2>1. PICK c : c = Append(b, BARRIER)
    BY Zenon
  <2>2. /\ sst_store_barrier(b) = c /\ c \in Seq(Entry) /\ Len(c) = Len(b) + 1 /\ Len(b) > 0
        /\ c[Len(b) + 1] = BARRIER /\ \A j \in 1 .. Len(b) : c[j] = b[j]
    BY <1>1, <1>3, <2>1 DEF sst_store_barrier, Entry
  <2>3. \A j \in 1 .. (Len(c) - 1) : c[j] = BARRIER <=> c[j + 1] # BARRIER
    <3>1. SUFFICES ASSUME NEW j \in 1 .. Len(b)
                   PROVE  c[j] = BARRIER <=> c[j + 1] # BARRIER
      BY <1>1, <2>2
    <3>2. CASE j = Len(b)
      BY <1>3, <2>2, <3>2
    <3>3. CASE j # Len(b)
      <4>1. j \in 1 .. (Len(b) - 1) /\ j + 1 \in 1 .. Len(b)
        BY <1>1, <3>3
      <4> QED
        BY <2>2, <4>1 DEF InOrder
    <3> QED
      BY <3>2, <3>3
  <2>4. \A j, k \in 1 .. Len(c) :
           j < k /\ c[j] # BARRIER /\ c[k] # BARRIER => Rank(c[j]) < Rank(c[k])
    <3>1. \A j \in 1 .. Len(c) : c[j] # BARRIER => j \in 1 .. Len(b)
      BY <1>1, <2>2
    <3> QED
      BY <2>2, <3>1 DEF InOrder
  <2>5. InOrder(c)
    <3>1. c[1] # BARRIER
      BY <1>1, <2>2 DEF InOrder
    <3> QED
      BY <2>2, <2>3, <2>4, <3>1 DEF InOrder
  <2>6. In(c) = In(b)
    <3>1. \A j \in 1 .. Len(b) : j \in 1 .. Len(c) /\ c[j] = b[j]
      BY <1>1, <2>2
    <3>2. \A j \in 1 .. Len(c) : c[j] # BARRIER => j \in 1 .. Len(b)
      BY <1>1, <2>2
    <3> QED
      BY <3>1, <3>2, Zenon DEF In
  <2> QED
    BY <2>2, <2>5, <2>6 DEF Fenced
<1> QED
  BY <1>2, <1>3

(* A store after a barrier. *)
LEMMA Puts ==
    ASSUME NEW b, InOrder(b), Fenced(b), NEW l \in Loc, NEW v \in Nat,
           \A e \in In(b) : Rank(e) < Rank([loc |-> l, val |-> v])
    PROVE  InOrder(Put(b, l, v)) /\ In(Put(b, l, v)) = In(b) \cup {[loc |-> l, val |-> v]}
<1>1. b \in Seq(Entry) /\ Len(b) \in Nat
  BY DEF InOrder
<1>2. PICK s \in Entry : s = [loc |-> l, val |-> v] /\ s # BARRIER
  BY NoBarrier DEF Entry
<1>3. PICK c : c = Append(b, s)
  BY Zenon
<1>4. /\ Put(b, l, v) = c /\ c \in Seq(Entry) /\ Len(c) = Len(b) + 1
      /\ c[Len(b) + 1] = s /\ \A j \in 1 .. Len(b) : c[j] = b[j]
  BY <1>1, <1>2, <1>3 DEF Put
<1>5. \A j \in 1 .. (Len(c) - 1) : c[j] = BARRIER <=> c[j + 1] # BARRIER
  <2>1. SUFFICES ASSUME NEW j \in 1 .. Len(b)
                 PROVE  c[j] = BARRIER <=> c[j + 1] # BARRIER
    BY <1>1, <1>4
  <2>2. CASE j = Len(b)
    <3>1. Len(b) > 0 /\ b[Len(b)] = BARRIER
      BY <2>2 DEF Fenced
    <3> QED
      BY <1>2, <1>4, <2>2, <3>1
  <2>3. CASE j # Len(b)
    <3>1. j \in 1 .. (Len(b) - 1) /\ j + 1 \in 1 .. Len(b)
      BY <1>1, <2>3
    <3> QED
      BY <1>4, <3>1 DEF InOrder
  <2> QED
    BY <2>2, <2>3
<1>6. \A j, k \in 1 .. Len(c) :
         j < k /\ c[j] # BARRIER /\ c[k] # BARRIER => Rank(c[j]) < Rank(c[k])
  <2>1. SUFFICES ASSUME NEW j \in 1 .. Len(c), NEW k \in 1 .. Len(c),
                        j < k, c[j] # BARRIER, c[k] # BARRIER
                 PROVE  Rank(c[j]) < Rank(c[k])
    OBVIOUS
  <2>2. j \in 1 .. Len(b) /\ (k \in 1 .. Len(b) \/ k = Len(b) + 1)
    BY <1>1, <1>4, <2>1
  <2>3. CASE k \in 1 .. Len(b)
    BY <1>4, <2>1, <2>2, <2>3, Zenon DEF InOrder
  <2>4. CASE k = Len(b) + 1
    <3>1. b[j] \in In(b)
      BY <1>4, <2>1, <2>2 DEF In
    <3> QED
      BY <1>2, <1>4, <2>2, <2>4, <3>1
  <2> QED
    BY <2>2, <2>3, <2>4
<1>7. Len(c) > 0 /\ c[1] # BARRIER
  <2>1. CASE Len(b) = 0
    BY <1>2, <1>4, <2>1
  <2>2. CASE Len(b) > 0
    BY <1>1, <1>4, <2>2 DEF InOrder
  <2> QED
    BY <1>1, <1>4, <2>1, <2>2
<1>8. In(c) = In(b) \cup {s}
  <2>1. \A j \in 1 .. Len(b) : j \in 1 .. Len(c) /\ c[j] = b[j]
    BY <1>1, <1>4
  <2>2. \A j \in 1 .. Len(c) : j \in 1 .. Len(b) \/ j = Len(b) + 1
    BY <1>1, <1>4
  <2>3. Len(b) + 1 \in 1 .. Len(c)
    BY <1>1, <1>4
  <2> QED
    BY <1>2, <1>4, <2>1, <2>2, <2>3, SMTT(60) DEF In
<1> QED
  BY <1>2, <1>4, <1>5, <1>6, <1>7, <1>8 DEF InOrder

------------------------------------------------------------------------------
(* The stores of a thread, in their order, and those it has made.          *)
DataOf(t) == [loc |-> <<"data", t>>, val |-> 1]
FlagOf(t) == [loc |-> <<"flag", t>>, val |-> 1]
CountOf(t) == [loc |-> <<"counter">>, val |-> got[t].counter + 1]
Release == [loc |-> <<"byte">>, val |-> 0]

Place == {"data", "flag", "sync", "load_flag", "load_data", "lock", "fetch", "add", "unlock", "done"}

Issued(t) ==
    (IF pc[t] = "data" THEN {} ELSE {DataOf(t)})
    \cup (IF pc[t] \in {"data", "flag"} THEN {} ELSE {FlagOf(t)})
    \cup (IF pc[t] \in {"unlock", "done"} THEN {CountOf(t)} ELSE {})
    \cup (IF pc[t] = "done" THEN {Release} ELSE {})

Shapes ==
    /\ pc \in [Thread -> Place] /\ mem \in [Loc -> Nat] /\ DOMAIN buf = Thread
    /\ other \in [Thread -> Thread] /\ \A t \in Thread : other[t] # t
    /\ got \in [Thread -> [flag : Nat, data : Nat, counter : Nat]]

(* A buffer has stores its thread has made, in order, and from the fence   *)
(* to the store of the counter ends with a barrier if it is not empty.     *)
BufferInv(t) ==
    /\ InOrder(buf[t]) /\ In(buf[t]) \subseteq Issued(t)
    /\ pc[t] \in {"load_flag", "load_data", "lock", "fetch", "add"} => Fenced(buf[t])

(* A store that has been made and is not in the buffer is in memory, the   *)
(* datum before the flag and on v9 the flag before the loads.              *)
Published(t) ==
    /\ DataOf(t) \in Issued(t) \ In(buf[t]) => mem[<<"data", t>>] = 1
    /\ FlagOf(t) \in Issued(t) \ In(buf[t]) => mem[<<"flag", t>>] = 1
    /\ mem[<<"flag", t>>] = 1 => mem[<<"data", t>>] = 1
    /\ build = "v9" /\ pc[t] \notin {"data", "flag", "sync"} => mem[<<"flag", t>>] = 1
    /\ LoadedFlag(t) /\ got[t].flag = 1 => mem[<<"flag", other[t]>>] = 1

(* Who has the stripe: until its release leaves the buffer. *)
Holder(t) == pc[t] \in {"fetch", "add", "unlock"} \/ (pc[t] = "done" /\ Release \in In(buf[t]))

OneHolder ==
    /\ \A t \in Thread : Holder(t) => mem[<<"byte">>] # 0
    /\ \A t, u \in Thread : Holder(t) /\ Holder(u) => t = u
    /\ \A t \in Thread : pc[t] = "done" /\ CountOf(t) \in In(buf[t]) => Release \in In(buf[t])

Done == {t \in Thread : pc[t] = "done"}

(* Whether the counter that t has added to is still to reach memory. *)
Adding(t) == pc[t] = "unlock" \/ (pc[t] = "done" /\ CountOf(t) \in In(buf[t]))

Counted ==
    /\ \A t \in Thread : pc[t] \in {"add", "unlock"} => got[t].counter = Cardinality(Done)
    /\ \A t \in Thread : pc[t] = "done" /\ Adding(t) => got[t].counter + 1 = Cardinality(Done)
    /\ \A t \in Thread : pc[t] = "unlock" /\ CountOf(t) \notin In(buf[t]) =>
          mem[<<"counter">>] = Cardinality(Done) + 1
    /\ (\A t \in Thread : ~Adding(t)) => mem[<<"counter">>] = Cardinality(Done)

FenceInv ==
    /\ Shapes /\ (\A t \in Thread : BufferInv(t) /\ Published(t))
    /\ OneHolder /\ Counted /\ FullFence /\ Publication

LEMMA Locs ==
    /\ <<"counter">> \in Loc /\ <<"byte">> \in Loc /\ <<"counter">> # <<"byte">>
    /\ \A t \in Thread : <<"data", t>> \in Loc /\ <<"flag", t>> \in Loc
    /\ \A t, u \in Thread :
          /\ <<"data", t>> # <<"flag", u>>
          /\ <<"data", t>> = <<"data", u>> => t = u
          /\ <<"flag", t>> = <<"flag", u>> => t = u
    /\ \A t \in Thread : \A l \in {<<"data", t>>, <<"flag", t>>} : l # <<"counter">> /\ l # <<"byte">>
<1>1. \A t : <<"data", t>>[1] = "data" /\ <<"flag", t>>[1] = "flag"
  OBVIOUS
<1>2. <<"counter">>[1] = "counter" /\ <<"byte">>[1] = "byte"
  OBVIOUS
<1>3. \A t \in Thread : \A l \in {<<"data", t>>, <<"flag", t>>} : l # <<"counter">> /\ l # <<"byte">>
  BY <1>1, <1>2, Zenon
<1>4. <<"counter">> # <<"byte">>
  BY <1>2
<1> QED
  BY <1>3, <1>4 DEF Loc

LEMMA StoreFacts ==
    ASSUME NEW t \in Thread
    PROVE  /\ DataOf(t).loc = <<"data", t>> /\ DataOf(t).val = 1 /\ Rank(DataOf(t)) = 1
           /\ FlagOf(t).loc = <<"flag", t>> /\ FlagOf(t).val = 1 /\ Rank(FlagOf(t)) = 2
           /\ CountOf(t).loc = <<"counter">> /\ CountOf(t).val = got[t].counter + 1
           /\ Rank(CountOf(t)) = 3
           /\ Release.loc = <<"byte">> /\ Release.val = 0 /\ Rank(Release) = 4
           /\ DataOf(t) # FlagOf(t) /\ DataOf(t) # CountOf(t) /\ DataOf(t) # Release
           /\ FlagOf(t) # CountOf(t) /\ FlagOf(t) # Release /\ CountOf(t) # Release
<1>1. /\ DataOf(t).loc = <<"data", t>> /\ DataOf(t).val = 1 /\ FlagOf(t).loc = <<"flag", t>> /\ FlagOf(t).val = 1
      /\ CountOf(t).loc = <<"counter">> /\ CountOf(t).val = got[t].counter + 1
      /\ Release.loc = <<"byte">> /\ Release.val = 0
  BY DEF DataOf, FlagOf, CountOf, Release
<1>2. /\ DataOf(t).loc[1] = "data" /\ FlagOf(t).loc[1] = "flag"
      /\ CountOf(t).loc[1] = "counter" /\ Release.loc[1] = "byte"
  BY <1>1
<1>3. Rank(DataOf(t)) = 1 /\ Rank(FlagOf(t)) = 2 /\ Rank(CountOf(t)) = 3 /\ Rank(Release) = 4
  BY <1>2 DEF Rank
<1> QED
  BY <1>1, <1>3

(* What the first store of a buffer changes, wherever it goes. *)
LEMMA Drained ==
    ASSUME FenceInv, NEW t \in Thread, Drain(t)
    PROVE  \E e \in In(buf[t]) :
             /\ mem' = [mem EXCEPT ![e.loc] = e.val]
             /\ \A f \in In(buf[t]) : f # e => Rank(e) < Rank(f)
             /\ InOrder(buf'[t]) /\ In(buf'[t]) = In(buf[t]) \ {e}
             /\ Fenced(buf[t]) => Fenced(buf'[t])
             /\ DOMAIN buf' = Thread /\ \A u \in Thread : u # t => buf'[u] = buf[u]
             /\ UNCHANGED <<build, ordering, pc, other, got>>
<1>1. PICK i \in DOMAIN buf[t] :
        /\ Ready(buf[t], i)
        /\ mem' = [mem EXCEPT ![buf[t][i].loc] = buf[t][i].val]
        /\ buf' = [buf EXCEPT ![t] = Without(@, i)]
        /\ UNCHANGED <<machine, pc, other, got>>
  BY Zenon DEF Drain
<1>2. InOrder(buf[t]) /\ DOMAIN buf = Thread
  BY DEF FenceInv, BufferInv, Shapes
<1>3. PICK b : b = buf[t]
  OBVIOUS
<1>4. /\ i = 1 /\ b[1] \in In(b)
      /\ \A e \in In(b) : e # b[1] => Rank(b[1]) < Rank(e)
      /\ InOrder(Without(b, 1)) /\ In(Without(b, 1)) = In(b) \ {b[1]}
      /\ Fenced(b) => Fenced(Without(b, 1))
  BY <1>1, <1>2, <1>3, OldestFirst
<1>5. /\ buf'[t] = Without(b, 1) /\ DOMAIN buf' = Thread /\ \A u \in Thread : u # t => buf'[u] = buf[u]
  BY <1>1, <1>2, <1>3, <1>4
<1>6. UNCHANGED <<build, ordering, pc, other, got>>
  BY <1>1 DEF machine
<1> QED
  BY <1>1, <1>3, <1>4, <1>5, <1>6, Zenon

LEMMA DrainKeeps ==
    ASSUME FenceInv, NEW t \in Thread, Drain(t)
    PROVE  FenceInv'
<1>1. PICK e \in In(buf[t]) :
         /\ mem' = [mem EXCEPT ![e.loc] = e.val]
         /\ \A f \in In(buf[t]) : f # e => Rank(e) < Rank(f)
         /\ InOrder(buf'[t]) /\ In(buf'[t]) = In(buf[t]) \ {e}
         /\ Fenced(buf[t]) => Fenced(buf'[t])
         /\ DOMAIN buf' = Thread /\ \A u \in Thread : u # t => buf'[u] = buf[u]
         /\ UNCHANGED <<build, ordering, pc, other, got>>
  BY Drained
<1>2. /\ Shapes /\ OneHolder /\ Counted /\ FullFence /\ Publication
      /\ \A u \in Thread : BufferInv(u) /\ Published(u)
  BY DEF FenceInv
<1>3. /\ mem \in [Loc -> Nat] /\ pc \in [Thread -> Place]
      /\ got \in [Thread -> [flag : Nat, data : Nat, counter : Nat]]
      /\ other \in [Thread -> Thread]
  BY <1>2 DEF Shapes
<1>4. e \in Issued(t)
  BY <1>2, Zenon DEF BufferInv
<1>5. \A u \in Thread : CountOf(u)' = CountOf(u) /\ Issued(u)' = Issued(u)
  BY <1>1 DEF CountOf, Issued
<1>6. e \in {DataOf(t), FlagOf(t), CountOf(t), Release} /\ e.loc \in Loc /\ e.val \in Nat
  <2>1. e \in {DataOf(t), FlagOf(t), CountOf(t), Release}
    BY <1>4 DEF Issued
  <2>2. got[t].counter + 1 \in Nat
    BY <1>3
  <2>3. e.loc \in Loc
    BY <2>1, StoreFacts, Locs, Zenon
  <2>4. e.val \in Nat
    <3>1. CASE e = CountOf(t)
      BY <2>2, <3>1, StoreFacts
    <3>2. CASE e # CountOf(t)
      BY <2>1, <3>2, StoreFacts
    <3> QED
      BY <3>1, <3>2
  <2> QED
    BY <2>1, <2>3, <2>4
<1>7. \A l \in Loc : mem'[l] = IF l = e.loc THEN e.val ELSE mem[l]
  BY <1>1, <1>3, <1>6
<1>8. Shapes'
  <2>1. mem' \in [Loc -> Nat]
    BY <1>1, <1>3, <1>6
  <2> QED
    BY <1>1, <1>2, <2>1 DEF Shapes
<1>9. ASSUME NEW u \in Thread
      PROVE  BufferInv(u)'
  BY <1>1, <1>2, <1>5, <1>9 DEF BufferInv
<1>10. ASSUME NEW u \in Thread
       PROVE  /\ mem[<<"data", u>>] = 1 => mem'[<<"data", u>>] = 1
              /\ mem[<<"flag", u>>] = 1 => mem'[<<"flag", u>>] = 1
  BY <1>6, <1>7, <1>10, StoreFacts, Locs, SMTT(60)
<1>11. ASSUME NEW u \in Thread
       PROVE  Published(u)'
  <2>1. DataOf(u) \in Issued(u) \ In(buf'[u]) => mem'[<<"data", u>>] = 1
    <3>1. CASE u = t /\ e = DataOf(t)
      BY <1>6, <1>7, <3>1, StoreFacts, Locs
    <3>2. CASE ~(u = t /\ e = DataOf(t))
      <4>1. DataOf(u) \in In(buf[u]) => DataOf(u) \in In(buf'[u])
        BY <1>1, <1>11, <3>2
      <4>2. DataOf(u) \in Issued(u) \ In(buf[u]) => mem[<<"data", u>>] = 1
        BY <1>2, <1>11, Zenon DEF Published
      <4> QED
        BY <1>10, <1>11, <4>1, <4>2, Zenon
    <3> QED
      BY <3>1, <3>2, Zenon
  <2>2. FlagOf(u) \in Issued(u) \ In(buf'[u]) => mem'[<<"flag", u>>] = 1
    <3>1. CASE u = t /\ e = FlagOf(t)
      BY <1>6, <1>7, <3>1, StoreFacts, Locs
    <3>2. CASE ~(u = t /\ e = FlagOf(t))
      <4>1. FlagOf(u) \in In(buf[u]) => FlagOf(u) \in In(buf'[u])
        BY <1>1, <1>11, <3>2
      <4>2. FlagOf(u) \in Issued(u) \ In(buf[u]) => mem[<<"flag", u>>] = 1
        BY <1>2, <1>11, Zenon DEF Published
      <4> QED
        BY <1>10, <1>11, <4>1, <4>2, Zenon
    <3> QED
      BY <3>1, <3>2, Zenon
  <2>3. mem'[<<"flag", u>>] = 1 => mem'[<<"data", u>>] = 1
    <3>1. CASE u = t /\ e = FlagOf(t)
      <4>1. DataOf(t) \notin In(buf[t])
        BY <1>1, <3>1, StoreFacts
      <4>2. DataOf(t) \in Issued(t)
        BY <1>4, <3>1, StoreFacts DEF Issued
      <4> QED
        BY <1>2, <1>10, <3>1, <4>1, <4>2, Zenon DEF Published
    <3>2. CASE ~(u = t /\ e = FlagOf(t))
      <4>1. mem'[<<"flag", u>>] = mem[<<"flag", u>>]
        BY <1>6, <1>7, <1>11, <3>2, StoreFacts, Locs
      <4> QED
        BY <1>2, <1>10, <1>11, <4>1, Zenon DEF Published
    <3> QED
      BY <3>1, <3>2
  <2>4. build = "v9" /\ pc[u] \notin {"data", "flag", "sync"} => mem'[<<"flag", u>>] = 1
    BY <1>2, <1>10, <1>11, Zenon DEF Published
  <2>5. LoadedFlag(u) /\ got[u].flag = 1 => mem'[<<"flag", other[u]>>] = 1
    BY <1>2, <1>3, <1>10, <1>11, Zenon DEF Published
  <2>6. (DataOf(u) \in Issued(u) \ In(buf[u]))' = (DataOf(u) \in Issued(u) \ In(buf'[u]))
    BY <1>5 DEF DataOf, In
  <2>7. (FlagOf(u) \in Issued(u) \ In(buf[u]))' = (FlagOf(u) \in Issued(u) \ In(buf'[u]))
    BY <1>5, Zenon DEF FlagOf, In
  <2> QED
    BY <1>1, <2>1, <2>2, <2>3, <2>4, <2>5, <2>6, <2>7 DEF Published, LoadedFlag
<1>12. \A u \in Thread :
         /\ In(buf'[u]) \subseteq In(buf[u])
         /\ ~(u = t /\ e = CountOf(t)) =>
              (CountOf(u) \in In(buf'[u]) <=> CountOf(u) \in In(buf[u]))
  BY <1>1
<1>13. ASSUME NEW u \in Thread, Holder(u)'
       PROVE  Holder(u)
  BY <1>1, <1>12, <1>13 DEF Holder
<1>14. OneHolder'
  <2>1. \A u, v \in Thread : Holder(u)' /\ Holder(v)' => u = v
    BY <1>2, <1>13, Zenon DEF OneHolder
  <2>2. CASE e = Release
    <3>1. pc[t] = "done"
      BY <1>4, <2>2, StoreFacts, Zenon DEF Issued
    <3>2. Holder(t) /\ ~Holder(t)'
      BY <1>1, <2>2, <3>1, Zenon DEF Holder
    <3>3. CountOf(t) \notin In(buf[t])
      BY <1>1, <2>2, StoreFacts, SMTT(60)
    <3>4. \A u \in Thread : ~Holder(u)'
      BY <1>2, <1>13, <3>2, Zenon DEF OneHolder
    <3> QED
      BY <1>1, <1>2, <1>5, <1>12, <2>1, <3>3, <3>4, Zenon DEF OneHolder
  <2>3. CASE e # Release
    <3>1. mem'[<<"byte">>] = mem[<<"byte">>]
      BY <1>6, <1>7, <2>3, StoreFacts, Locs, SMTT(60)
    <3>2. \A u \in Thread : Release \in In(buf[u]) => Release \in In(buf'[u])
      BY <1>1, <2>3
    <3>3. \A u \in Thread : Holder(u)' => mem'[<<"byte">>] # 0
      BY <1>2, <1>13, <3>1 DEF OneHolder
    <3> QED
      BY <1>1, <1>2, <1>5, <1>12, <2>1, <3>2, <3>3, ZenonT(60) DEF OneHolder
  <2> QED
    BY <2>2, <2>3
<1>15. Counted'
  <2>1. Done' = Done
    BY <1>1, Zenon DEF Done
  <2>2. CASE e # CountOf(t)
    <3>1. mem'[<<"counter">>] = mem[<<"counter">>]
      BY <1>6, <1>7, <2>2, StoreFacts, Locs, SMTT(60)
    <3>2. \A u \in Thread : Adding(u)' = Adding(u)
      BY <1>1, <1>5, <1>12, <2>2, Zenon DEF Adding
    <3> QED
      BY <1>1, <1>2, <1>5, <1>12, <2>1, <2>2, <3>1, <3>2, Zenon DEF Counted
  <2>3. CASE e = CountOf(t)
    <3>1. pc[t] \in {"unlock", "done"}
      BY <1>4, <2>3, StoreFacts, Zenon DEF Issued
    <3>2. Holder(t) /\ Adding(t)
      BY <1>1, <1>2, <2>3, <3>1, Zenon DEF Holder, OneHolder, Adding
    <3>3. \A u \in Thread : u # t => pc[u] \notin {"fetch", "add", "unlock"}
      BY <1>2, <3>2, Zenon DEF OneHolder, Holder
    <3>4. mem'[<<"counter">>] = got[t].counter + 1
      BY <1>6, <1>7, <2>3, StoreFacts, Locs, Zenon
    <3>5. \A u \in Thread : Adding(u)' => Adding(u)
      BY <1>1, <1>5, <1>12, Zenon DEF Adding
    <3>6. /\ pc[t] = "unlock" => got[t].counter = Cardinality(Done)
          /\ pc[t] = "done" => got[t].counter + 1 = Cardinality(Done)
      BY <1>2, <3>1, <3>2, Zenon DEF Counted
    <3>7. \A u \in Thread : pc'[u] \in {"add", "unlock"} => got'[u].counter = Cardinality(Done')
      BY <1>1, <1>2, <2>1, Zenon DEF Counted
    <3>8. \A u \in Thread : pc'[u] = "done" /\ Adding(u)' => got'[u].counter + 1 = Cardinality(Done')
      BY <1>1, <1>2, <2>1, <3>5, Zenon DEF Counted
    <3>9. \A u \in Thread : pc'[u] = "unlock" => mem'[<<"counter">>] = Cardinality(Done') + 1
      BY <1>1, <2>1, <3>1, <3>3, <3>4, <3>6, Zenon
    <3>10. (\A u \in Thread : ~Adding(u)') => mem'[<<"counter">>] = Cardinality(Done')
      <4>1. SUFFICES ASSUME ~Adding(t)'
                     PROVE  mem'[<<"counter">>] = Cardinality(Done')
        BY SMTT(60)
      <4>2. pc[t] = "done"
        BY <1>1, <3>1, <4>1, Zenon DEF Adding
      <4> QED
        BY <2>1, <3>4, <3>6, <4>2
    <3> QED
      BY <1>1, <3>7, <3>8, <3>9, <3>10, Zenon DEF Counted
  <2> QED
    BY <2>2, <2>3
<1>16. FullFence' /\ Publication'
  BY <1>1, <1>2, ZenonT(60) DEF FullFence, Publication, LoadedFlag, LoadedData
<1> QED
  BY <1>8, <1>9, <1>11, <1>14, <1>15, <1>16, Zenon DEF FenceInv

(* A step of t leaves the other threads where they are, if of memory it    *)
(* changes the stripe's byte at most.                                      *)
LEMMA OthersStay ==
    ASSUME FenceInv, NEW t \in Thread, NEW u \in Thread, u # t,
           pc'[u] = pc[u], buf'[u] = buf[u], got'[u] = got[u],
           UNCHANGED <<build, other>>, \A l \in Loc : l # <<"byte">> => mem'[l] = mem[l]
    PROVE  /\ BufferInv(u)' /\ Published(u)' /\ CountOf(u)' = CountOf(u)
           /\ Holder(u)' = Holder(u) /\ Adding(u)' = Adding(u)
<1>1. BufferInv(u) /\ Published(u) /\ other[u] \in Thread
  BY Zenon DEF FenceInv, Shapes
<1>2. CountOf(u)' = CountOf(u) /\ Issued(u)' = Issued(u)
  BY DEF CountOf, Issued
<1>3. DataOf(u)' = DataOf(u) /\ FlagOf(u)' = FlagOf(u)
  BY DEF DataOf, FlagOf
<1>4. \A v \in Thread : mem'[<<"data", v>>] = mem[<<"data", v>>] /\ mem'[<<"flag", v>>] = mem[<<"flag", v>>]
  BY Locs, Zenon
<1>5. BufferInv(u)'
  BY <1>1, <1>2 DEF BufferInv
<1>6. Published(u)'
  BY <1>1, <1>2, <1>3, <1>4, Zenon DEF Published, LoadedFlag
<1> QED
  BY <1>2, <1>5, <1>6 DEF Holder, Adding

(* A step of t before it has the stripe. *)
EarlyPlace == {"data", "flag", "sync", "load_flag", "load_data", "lock"}

LEMMA EarlyStep ==
    ASSUME FenceInv, NEW t \in Thread, pc[t] \in EarlyPlace, NEW l \in EarlyPlace, Goto(t, l),
           DOMAIN buf' = Thread, got' \in [Thread -> [flag : Nat, data : Nat, counter : Nat]],
           \A u \in Thread : u # t => buf'[u] = buf[u] /\ got'[u] = got[u],
           UNCHANGED <<build, mem, other>>,
           pc'[t] = l => BufferInv(t)' /\ Published(t)' /\ FullFence' /\ Publication'
    PROVE  FenceInv'
<1>1. /\ Shapes /\ OneHolder /\ Counted
  BY Zenon DEF FenceInv
<1>2. pc'[t] = l /\ pc' \in [Thread -> Place] /\ \A u \in Thread : u # t => pc'[u] = pc[u]
  BY <1>1, Zenon DEF Shapes, Goto, EarlyPlace, Place
<1>3. ASSUME NEW u \in Thread, u # t
      PROVE  /\ BufferInv(u)' /\ Published(u)' /\ CountOf(u)' = CountOf(u)
             /\ Holder(u)' = Holder(u) /\ Adding(u)' = Adding(u)
  BY <1>2, <1>3, OthersStay, Zenon
<1>4. ~Holder(t) /\ ~Holder(t)' /\ ~Adding(t) /\ ~Adding(t)'
  BY <1>2, Zenon DEF Holder, Adding, EarlyPlace
<1>5. Shapes'
  BY <1>1, <1>2, Zenon DEF Shapes
<1>6. OneHolder'
  <2>1. ASSUME NEW u \in Thread, Holder(u)'
        PROVE  Holder(u) /\ mem'[<<"byte">>] # 0
    BY <1>1, <1>3, <1>4, <2>1, Zenon DEF OneHolder
  <2>2. ASSUME NEW u \in Thread, pc'[u] = "done", CountOf(u)' \in In(buf'[u])
        PROVE  Release \in In(buf'[u])
    <3>1. u # t
      BY <1>2, <2>2, Zenon DEF EarlyPlace
    <3> QED
      BY <1>1, <1>2, <1>3, <2>2, <3>1, Zenon DEF OneHolder
  <2>3. ASSUME NEW u \in Thread, NEW v \in Thread, Holder(u)', Holder(v)'
        PROVE  u = v
    BY <1>1, <2>1, <2>3, Zenon DEF OneHolder
  <2>4. Release' = Release
    BY Zenon DEF Release
  <2> QED
    BY <2>1, <2>2, <2>3, <2>4, Zenon DEF OneHolder
<1>7. Counted'
  <2>1. Done' = Done
    BY <1>2, Zenon DEF Done, EarlyPlace
  <2>2. ASSUME NEW u \in Thread, pc'[u] \in {"add", "unlock", "done"}
        PROVE  u # t /\ pc'[u] = pc[u] /\ got'[u] = got[u] /\ CountOf(u)' = CountOf(u)
               /\ Adding(u)' = Adding(u) /\ buf'[u] = buf[u]
    BY <1>2, <1>3, <2>2, Zenon DEF EarlyPlace
  <2>3. ASSUME NEW u \in Thread, pc'[u] \in {"add", "unlock"}
        PROVE  got'[u].counter = Cardinality(Done')
    BY <1>1, <2>1, <2>2, <2>3, ZenonT(60) DEF Counted
  <2>4. ASSUME NEW u \in Thread, pc'[u] = "done", Adding(u)'
        PROVE  got'[u].counter + 1 = Cardinality(Done')
    BY <1>1, <2>1, <2>2, <2>4, ZenonT(60) DEF Counted
  <2>5. ASSUME NEW u \in Thread, pc'[u] = "unlock", CountOf(u)' \notin In(buf'[u])
        PROVE  mem'[<<"counter">>] = Cardinality(Done') + 1
    BY <1>1, <2>1, <2>2, <2>5, Zenon DEF Counted
  <2>6. ASSUME \A u \in Thread : ~Adding(u)'
        PROVE  mem'[<<"counter">>] = Cardinality(Done')
    <3>1. ASSUME NEW u \in Thread
          PROVE  ~Adding(u)
      BY <1>3, <1>4, <2>6, <3>1, Zenon
    <3> QED
      BY <1>1, <2>1, <3>1, Zenon DEF Counted
  <2> QED
    BY <2>3, <2>4, <2>5, <2>6, Zenon DEF Counted
<1>8. ASSUME NEW u \in Thread
      PROVE  BufferInv(u)' /\ Published(u)'
  BY <1>2, <1>3, <1>8
<1> QED
  BY <1>2, <1>5, <1>6, <1>7, <1>8, Zenon DEF FenceInv

(* The loads of the others' publications are as they were. *)
LEMMA NothingLoaded ==
    ASSUME FenceInv, NEW t \in Thread, pc[t] \in {"data", "flag", "sync"}, UNCHANGED <<build, other, got>>,
           pc'[t] \in {"data", "flag", "sync", "load_flag"},
           \A u \in Thread : u # t => pc'[u] = pc[u]
    PROVE  FullFence' /\ Publication'
<1>1. ASSUME NEW u \in Thread, LoadedFlag(u)'
      PROVE  LoadedFlag(u) /\ pc'[u] = pc[u]
  BY <1>1, Zenon DEF LoadedFlag
<1>2. FullFence'
  BY <1>1, Zenon DEF FenceInv, FullFence
<1>3. ASSUME NEW u \in Thread, LoadedData(u)'
      PROVE  LoadedData(u)
  BY <1>1, <1>3, Zenon DEF LoadedData
<1>4. Publication'
  BY <1>3, Zenon DEF FenceInv, Publication
<1> QED
  BY <1>2, <1>4

LEMMA StoreStep ==
    ASSUME FenceInv, NEW t \in Thread,
           \/ atomic_store_4(t, "data", "flag") \/ atomic_store_4(t, "flag", "sync")
    PROVE  FenceInv'
<1>1. PICK from \in {"data", "flag"}, to \in {"flag", "sync"} :
        /\ pc[t] = from /\ (from = "data" <=> to = "flag") /\ Goto(t, to)
        /\ buf' = [buf EXCEPT ![t] = Put(sst_store_barrier(@), <<from, t>>, 1)]
        /\ UNCHANGED <<build, mem, other, got>>
  BY DEF atomic_store_4, machine
<1>2. BufferInv(t) /\ Published(t) /\ Shapes
  BY DEF FenceInv
<1>3. PICK s : s = [loc |-> <<from, t>>, val |-> 1]
  BY Zenon
<1>4. /\ s = (IF from = "data" THEN DataOf(t) ELSE FlagOf(t)) /\ <<from, t>> \in Loc
      /\ Rank(s) = IF from = "data" THEN 1 ELSE 2
  BY <1>3, StoreFacts, Locs, Zenon DEF DataOf, FlagOf
<1>5. PICK b : b = sst_store_barrier(buf[t])
  OBVIOUS
<1>6. InOrder(b) /\ In(b) = In(buf[t]) /\ Fenced(b)
  BY <1>2, <1>5, Fences DEF BufferInv
<1>7. In(buf[t]) \subseteq (IF from = "data" THEN {} ELSE {DataOf(t)})
  BY <1>1, <1>2, Zenon DEF BufferInv, Issued
<1>8. \A e \in In(b) : Rank(e) < Rank(s)
  BY <1>4, <1>6, <1>7, StoreFacts, SMTT(60)
<1>9. InOrder(Put(b, <<from, t>>, 1)) /\ In(Put(b, <<from, t>>, 1)) = In(buf[t]) \cup {s}
  BY <1>3, <1>4, <1>6, <1>8, Puts, SMTT(60)
<1>10. /\ buf'[t] = Put(b, <<from, t>>, 1) /\ DOMAIN buf' = Thread
       /\ \A u \in Thread : u # t => buf'[u] = buf[u]
  BY <1>1, <1>2, <1>5 DEF Shapes
<1>11. pc'[t] = to /\ \A u \in Thread : u # t => pc'[u] = pc[u]
  BY <1>1, <1>2, Zenon DEF Goto, Shapes
<1>12. /\ DataOf(t)' = DataOf(t) /\ FlagOf(t)' = FlagOf(t)
       /\ Issued(t)' = (IF from = "data" THEN {DataOf(t)} ELSE {DataOf(t), FlagOf(t)})
  BY <1>1, <1>11, Zenon DEF DataOf, FlagOf, Issued
<1>13. BufferInv(t)'
  BY <1>1, <1>4, <1>7, <1>9, <1>10, <1>11, <1>12, Zenon DEF BufferInv
<1>14. Published(t)'
  <2>1. DataOf(t) \in Issued(t)' \ In(buf'[t]) => mem'[<<"data", t>>] = 1
    BY <1>1, <1>2, <1>4, <1>9, <1>10, Zenon DEF Published, Issued
  <2>2. FlagOf(t) \notin Issued(t)' \ In(buf'[t])
    BY <1>4, <1>9, <1>10, <1>12, StoreFacts, Zenon
  <2> QED
    BY <1>1, <1>2, <1>11, <1>12, <2>1, <2>2, Zenon DEF Published, LoadedFlag
<1>15. FullFence' /\ Publication'
  BY <1>1, <1>11, NothingLoaded, Zenon
<1>16. got' \in [Thread -> [flag : Nat, data : Nat, counter : Nat]]
  BY <1>1, <1>2 DEF Shapes
<1>17. pc[t] \in EarlyPlace /\ to \in EarlyPlace
  BY <1>1, Zenon DEF EarlyPlace
<1> QED
  BY <1>1, <1>10, <1>13, <1>14, <1>15, <1>16, <1>17, EarlyStep

LEMMA SyncStep ==
    ASSUME FenceInv, NEW t \in Thread, sync_synchronize(t)
    PROVE  FenceInv'
<1>1. /\ pc[t] = "sync" /\ Goto(t, "load_flag") /\ UNCHANGED <<build, mem, other, got>>
      /\ \/ build = "v9" /\ buf[t] = <<>> /\ UNCHANGED buf
         \/ build = "v7" /\ buf' = [buf EXCEPT ![t] = sst_store_barrier(@)]
  BY DEF sync_synchronize, machine
<1>2. BufferInv(t) /\ Published(t) /\ Shapes
  BY Zenon DEF FenceInv
<1>3. /\ InOrder(buf'[t]) /\ In(buf'[t]) = In(buf[t]) /\ Fenced(buf'[t]) /\ DOMAIN buf' = Thread
      /\ \A u \in Thread : u # t => buf'[u] = buf[u]
  <2>1. PICK b : b = buf[t] /\ InOrder(b)
    BY <1>2 DEF BufferInv
  <2>2. InOrder(sst_store_barrier(b)) /\ In(sst_store_barrier(b)) = In(b) /\ Fenced(sst_store_barrier(b))
    BY <2>1, Fences, Zenon
  <2>3. CASE build = "v9" /\ buf[t] = <<>> /\ UNCHANGED buf
    BY <1>2, <2>3, Empty DEF Shapes
  <2>4. CASE build = "v7" /\ buf' = [buf EXCEPT ![t] = sst_store_barrier(@)]
    BY <1>2, <2>1, <2>2, <2>4 DEF Shapes
  <2> QED
    BY <1>1, <2>3, <2>4, Zenon
<1>4. pc'[t] = "load_flag" /\ \A u \in Thread : u # t => pc'[u] = pc[u]
  BY <1>1, <1>2, Zenon DEF Goto, Shapes
<1>5. /\ DataOf(t)' = DataOf(t) /\ FlagOf(t)' = FlagOf(t)
      /\ Issued(t) = {DataOf(t), FlagOf(t)} /\ Issued(t)' = {DataOf(t), FlagOf(t)}
  BY <1>1, <1>4, Zenon DEF DataOf, FlagOf, Issued
<1>6. BufferInv(t)'
  BY <1>2, <1>3, <1>5, Zenon DEF BufferInv
<1>7. build = "v9" => mem[<<"flag", t>>] = 1
  BY <1>1, <1>2, <1>5, Empty, Zenon DEF Published
<1>8. Published(t)'
  BY <1>1, <1>2, <1>3, <1>4, <1>5, <1>7, Zenon DEF Published, LoadedFlag
<1>9. FullFence' /\ Publication'
  BY <1>1, <1>4, NothingLoaded
<1>10. got' \in [Thread -> [flag : Nat, data : Nat, counter : Nat]]
  BY <1>1, <1>2 DEF Shapes
<1>11. pc[t] \in EarlyPlace /\ "load_flag" \in EarlyPlace
  BY <1>1 DEF EarlyPlace
<1> QED
  BY <1>1, <1>3, <1>6, <1>8, <1>9, <1>10, <1>11, EarlyStep, Zenon

(* A thread has no store of its own of what it loads. *)
LEMMA LoadsMemory ==
    ASSUME FenceInv, NEW t \in Thread, NEW l, \A e \in In(buf[t]) : e.loc # l
    PROVE  Load(t, l) = mem[l]
<1>1. DOMAIN buf[t] = 1 .. Len(buf[t])
  BY DEF FenceInv, BufferInv, InOrder
<1>2. Stores(buf[t], l) = {}
  BY <1>1 DEF Stores, In
<1> QED
  BY <1>2, Zenon DEF Load

LEMMA LoadStep ==
    ASSUME FenceInv, NEW t \in Thread, atomic_load_4(t)
    PROVE  FenceInv'
<1> DEFINE u == other[t]
<1>1. /\ BufferInv(t) /\ Published(t) /\ Published(u) /\ Shapes /\ u \in Thread /\ u # t
      /\ FullFence /\ Publication
  BY DEF FenceInv, Shapes
<1>2. pc[t] \in {"load_flag", "load_data"} /\ UNCHANGED <<build, mem, buf, other>>
  BY Zenon DEF atomic_load_4, machine
<1>3. In(buf[t]) \subseteq {DataOf(t), FlagOf(t)}
  BY <1>1, <1>2 DEF BufferInv, Issued
<1>4. Load(t, <<"flag", u>>) = mem[<<"flag", u>>] /\ Load(t, <<"data", u>>) = mem[<<"data", u>>]
  <2>1. \A e \in In(buf[t]) : e.loc # <<"flag", u>> /\ e.loc # <<"data", u>>
    BY <1>1, <1>3, StoreFacts, Locs
  <2> QED
    BY <2>1, LoadsMemory, Zenon
<1>5. mem[<<"flag", u>>] \in Nat /\ mem[<<"data", u>>] \in Nat
  BY <1>1, Locs, Zenon DEF Shapes
<1> HIDE DEF u
<1>6. ASSUME NEW l \in {"load_data", "lock"}, Goto(t, l)
      PROVE  /\ pc'[t] = l /\ \A v \in Thread : v # t => pc'[v] = pc[v]
             /\ BufferInv(t)' /\ l \in EarlyPlace /\ pc[t] \in EarlyPlace
             /\ DataOf(t)' = DataOf(t) /\ FlagOf(t)' = FlagOf(t) /\ Issued(t)' = Issued(t)
             /\ Issued(t) = {DataOf(t), FlagOf(t)}
  <2>1. pc'[t] = l /\ \A v \in Thread : v # t => pc'[v] = pc[v]
    BY <1>1, <1>6, Zenon DEF Goto, Shapes
  <2>2. /\ DataOf(t)' = DataOf(t) /\ FlagOf(t)' = FlagOf(t)
        /\ Issued(t)' = {DataOf(t), FlagOf(t)} /\ Issued(t) = {DataOf(t), FlagOf(t)}
    BY <1>2, <2>1, Zenon DEF DataOf, FlagOf, Issued
  <2>3. BufferInv(t)'
    BY <1>1, <1>2, <2>2 DEF BufferInv
  <2> QED
    BY <1>2, <2>1, <2>2, <2>3 DEF EarlyPlace
<1>7. CASE /\ pc[t] = "load_flag" /\ Goto(t, "load_data")
           /\ got' = [got EXCEPT ![t].flag = Load(t, <<"flag", other[t]>>)]
  <2>1. /\ got' \in [Thread -> [flag : Nat, data : Nat, counter : Nat]]
        /\ got'[t].flag = mem[<<"flag", u>>] /\ \A v \in Thread : v # t => got'[v] = got[v]
    BY <1>1, <1>4, <1>5, <1>7, Zenon DEF Shapes, u
  <2>2. pc'[t] = "load_data" /\ \A v \in Thread : v # t => pc'[v] = pc[v]
    BY <1>6, <1>7
  <2>3. Published(t)'
    BY <1>1, <1>2, <1>6, <1>7, <2>1, <2>2 DEF Published, LoadedFlag, u
  <2>4. Publication'
    BY <1>1, <2>1, <2>2 DEF Publication, LoadedData, LoadedFlag
  <2>5. FullFence'
    <3>1. SUFFICES ASSUME build = "v9", NEW v \in Thread, NEW w \in Thread,
                          LoadedFlag(v)', LoadedFlag(w)', other[v] = w, other[w] = v
                   PROVE  got'[v].flag = 1 \/ got'[w].flag = 1
      BY <1>2 DEF FullFence
    <3>2. ASSUME NEW x \in Thread, LoadedFlag(x)', x # t
          PROVE  LoadedFlag(x) /\ mem[<<"flag", x>>] = 1
      <4>1. LoadedFlag(x) /\ pc[x] \notin {"data", "flag", "sync"}
        BY <2>2, <3>2 DEF LoadedFlag
      <4> QED
        BY <3>1, <3>2, <4>1, Zenon DEF FenceInv, Published
    <3>3. CASE v # t /\ w # t
      BY <1>1, <2>1, <3>1, <3>2, <3>3, Zenon DEF FullFence
    <3>4. CASE v = t /\ w # t
      BY <2>1, <3>1, <3>2, <3>4 DEF u
    <3>5. CASE w = t /\ v # t
      BY <2>1, <3>1, <3>2, <3>5 DEF u
    <3>6. v # w
      BY <1>1, <3>1 DEF Shapes
    <3> QED
      BY <3>3, <3>4, <3>5, <3>6
  <2>6. BufferInv(t)' /\ "load_data" \in EarlyPlace /\ pc[t] \in EarlyPlace
    BY <1>6, <1>7
  <2>7. DOMAIN buf' = Thread
    BY <1>1, <1>2 DEF Shapes
  <2> QED
    BY <1>2, <1>7, <2>1, <2>3, <2>4, <2>5, <2>6, <2>7, EarlyStep
<1>8. CASE /\ pc[t] = "load_data" /\ Goto(t, "lock")
           /\ got' = [got EXCEPT ![t].data = Load(t, <<"data", other[t]>>)]
  <2>1. /\ got' \in [Thread -> [flag : Nat, data : Nat, counter : Nat]]
        /\ got'[t].data = mem[<<"data", u>>] /\ got'[t].flag = got[t].flag
        /\ \A v \in Thread : v # t => got'[v] = got[v]
    BY <1>1, <1>4, <1>5, <1>8, ZenonT(60) DEF Shapes, u
  <2>2. pc'[t] = "lock" /\ \A v \in Thread : v # t => pc'[v] = pc[v]
    BY <1>6, <1>8
  <2>3. LoadedFlag(t) /\ (got[t].flag = 1 => mem[<<"data", u>>] = 1)
    BY <1>1, <1>8 DEF Published, LoadedFlag, u
  <2>4. Published(t)'
    BY <1>1, <1>2, <1>6, <1>8, <2>1, <2>2, <2>3 DEF Published
  <2>5. Publication'
    BY <1>1, <2>1, <2>2, <2>3, Zenon DEF Publication, LoadedData, LoadedFlag
  <2>6. FullFence'
    <3>1. \A v \in Thread : got'[v].flag = got[v].flag
      BY <2>1
    <3>2. ASSUME NEW v \in Thread, LoadedFlag(v)'
          PROVE  LoadedFlag(v)
      BY <2>2, <2>3, <3>2 DEF LoadedFlag
    <3> QED
      BY <1>1, <1>2, <3>1, <3>2 DEF FullFence
  <2>7. BufferInv(t)' /\ "lock" \in EarlyPlace /\ pc[t] \in EarlyPlace
    BY <1>6, <1>8, Zenon
  <2>8. DOMAIN buf' = Thread
    BY <1>1, <1>2 DEF Shapes
  <2> QED
    BY <1>2, <1>8, <2>1, <2>4, <2>5, <2>6, <2>7, <2>8, EarlyStep
<1> QED
  BY <1>7, <1>8 DEF atomic_load_4

(* A step of t to take, use or release the stripe. *)
LatePlace == {"fetch", "add", "unlock", "done"}

LEMMA LateStep ==
    ASSUME FenceInv, NEW t \in Thread, pc[t] \in {"lock", "fetch", "add", "unlock"},
           NEW l \in LatePlace, Goto(t, l), mem' \in [Loc -> Nat], DOMAIN buf' = Thread,
           got' \in [Thread -> [flag : Nat, data : Nat, counter : Nat]],
           got'[t].flag = got[t].flag, got'[t].data = got[t].data,
           \A u \in Thread : u # t => buf'[u] = buf[u] /\ got'[u] = got[u],
           UNCHANGED <<build, other>>, \A k \in Loc : k # <<"byte">> => mem'[k] = mem[k],
           BufferInv(t)', In(buf[t]) \ {CountOf(t), Release} \subseteq In(buf'[t])
    PROVE  /\ pc'[t] = l /\ \A u \in Thread : u # t => pc'[u] = pc[u]
           /\ \A u \in Thread : u # t => CountOf(u)' = CountOf(u)
           /\ OneHolder' /\ Counted' => FenceInv'
<1>1. Shapes /\ Published(t) /\ FullFence /\ Publication
  BY Zenon DEF FenceInv
<1>2. pc'[t] = l /\ pc' \in [Thread -> Place] /\ \A u \in Thread : u # t => pc'[u] = pc[u]
  BY <1>1, Zenon DEF Shapes, Goto, LatePlace, Place
<1>3. Shapes'
  BY <1>1, <1>2, Zenon DEF Shapes
<1>4. ASSUME NEW u \in Thread, u # t
      PROVE  BufferInv(u)' /\ Published(u)' /\ CountOf(u)' = CountOf(u)
  BY <1>2, <1>4, OthersStay
<1>5. Published(t)'
  <2>1. DataOf(t)' = DataOf(t) /\ FlagOf(t)' = FlagOf(t) /\ {DataOf(t), FlagOf(t)} \subseteq Issued(t)
    BY Zenon DEF DataOf, FlagOf, Issued
  <2>2. \A e \in {DataOf(t), FlagOf(t)} : e \notin In(buf'[t]) => e \notin In(buf[t])
    BY StoreFacts
  <2>3. \A v \in Thread : mem'[<<"data", v>>] = mem[<<"data", v>>] /\ mem'[<<"flag", v>>] = mem[<<"flag", v>>]
    BY Locs, Zenon
  <2>4. LoadedFlag(t) /\ LoadedFlag(t)' /\ other[t] \in Thread
    BY <1>1, <1>2, Zenon DEF LoadedFlag, LatePlace, Shapes
  <2>5. pc[t] \notin {"data", "flag", "sync"} /\ pc'[t] \notin {"data", "flag", "sync"}
    BY <1>2, Zenon DEF LatePlace
  <2> QED
    BY <1>1, <2>1, <2>2, <2>3, <2>4, <2>5, Zenon DEF Published
<1>6. \A u \in Thread : got'[u].flag = got[u].flag /\ got'[u].data = got[u].data
  BY SMTT(60)
<1>7. ASSUME NEW u \in Thread
      PROVE  LoadedFlag(u)' = LoadedFlag(u) /\ LoadedData(u)' = LoadedData(u)
  BY <1>2, <1>7, Zenon DEF LoadedData, LoadedFlag, LatePlace
<1>8. FullFence' /\ Publication'
  <2>1. FullFence'
    BY <1>1, <1>6, <1>7 DEF FullFence
  <2>2. Publication'
    BY <1>1, <1>6, <1>7, Zenon DEF Publication
  <2> QED
    BY <2>1, <2>2
<1>9. ASSUME NEW u \in Thread
      PROVE  BufferInv(u)' /\ Published(u)'
  BY <1>4, <1>5, <1>9, Zenon
<1> QED
  BY <1>2, <1>3, <1>4, <1>8, <1>9, Zenon DEF FenceInv

LEMMA LockStep ==
    ASSUME FenceInv, NEW t \in Thread, sst_stripe_lock(t)
    PROVE  FenceInv'
<1>1. /\ pc[t] = "lock" /\ mem[<<"byte">>] = 0 /\ mem' = [mem EXCEPT ![<<"byte">>] = 255]
      /\ Goto(t, "fetch") /\ UNCHANGED <<build, buf, other, got>>
  BY DEF sst_stripe_lock, machine
<1>2. Shapes /\ OneHolder /\ Counted /\ BufferInv(t)
  BY DEF FenceInv
<1>3. /\ mem' \in [Loc -> Nat] /\ mem'[<<"byte">>] # 0
      /\ \A k \in Loc : k # <<"byte">> => mem'[k] = mem[k]
  BY <1>1, <1>2, Locs DEF Shapes
<1>4. pc'[t] = "fetch" /\ \A u \in Thread : u # t => pc'[u] = pc[u]
  BY <1>1, <1>2, Zenon DEF Shapes, Goto
<1>5. BufferInv(t)'
  <2>1. Issued(t)' = Issued(t)
    BY <1>1, <1>4, Zenon DEF Issued, DataOf, FlagOf
  <2> QED
    BY <1>1, <1>2, <2>1, Zenon DEF BufferInv
<1>6. /\ \A u \in Thread : u # t => CountOf(u)' = CountOf(u)
      /\ OneHolder' /\ Counted' => FenceInv'
  <2>1. DOMAIN buf' = Thread /\ got' \in [Thread -> [flag : Nat, data : Nat, counter : Nat]]
    BY <1>1, <1>2, Zenon DEF Shapes
  <2> QED
    BY <1>1, <1>3, <1>5, <2>1, LateStep DEF LatePlace
<1>7. ASSUME NEW u \in Thread, Holder(u)'
      PROVE  u = t
  <2>1. ~Holder(u)
    BY <1>1, <1>2, Zenon DEF OneHolder
  <2> QED
    BY <1>1, <1>4, <1>7, <2>1, Zenon DEF Holder
<1>8. ASSUME NEW u \in Thread, pc'[u] = "done" \/ pc'[u] = "unlock" \/ pc'[u] = "add"
      PROVE  u # t /\ pc'[u] = pc[u] /\ CountOf(u)' = CountOf(u)
  BY <1>4, <1>6, <1>8, Zenon
<1>9. OneHolder'
  <2>1. ASSUME NEW u \in Thread, pc'[u] = "done", CountOf(u)' \in In(buf'[u])
        PROVE  Release \in In(buf'[u])
    BY <1>1, <1>2, <1>8, <2>1, Zenon DEF OneHolder
  <2>2. Release' = Release
    BY Zenon DEF Release
  <2> QED
    BY <1>3, <1>7, <2>1, <2>2, Zenon DEF OneHolder
<1>10. Counted'
  <2>1. Done' = Done
    BY <1>1, <1>4, Zenon DEF Done
  <2>2. ASSUME NEW u \in Thread
        PROVE  Adding(u)' = Adding(u)
    BY <1>1, <1>4, <1>6, <2>2, Zenon DEF Adding
  <2>3. mem'[<<"counter">>] = mem[<<"counter">>]
    BY <1>3, Locs, Zenon
  <2> QED
    BY <1>1, <1>2, <1>8, <2>1, <2>2, <2>3, ZenonT(60) DEF Counted
<1> QED
  BY <1>6, <1>9, <1>10

(* Nobody else has the stripe, or a counter in its buffer. *)
LEMMA HolderAlone ==
    ASSUME FenceInv, NEW t \in Thread, Holder(t), NEW u \in Thread, u # t
    PROVE  ~Holder(u) /\ ~Adding(u) /\ pc[u] \notin {"fetch", "add", "unlock"}
<1>1. ~Holder(u)
  BY DEF FenceInv, OneHolder
<1> QED
  BY <1>1, Zenon DEF FenceInv, OneHolder, Holder, Adding

LEMMA FetchStep ==
    ASSUME FenceInv, NEW t \in Thread, fetch(t)
    PROVE  FenceInv'
<1>1. /\ pc[t] = "fetch" /\ got' = [got EXCEPT ![t].counter = Load(t, <<"counter">>)]
      /\ Goto(t, "add") /\ UNCHANGED <<build, mem, buf, other>>
  BY DEF fetch, machine
<1>2. Shapes /\ OneHolder /\ Counted /\ BufferInv(t)
  BY DEF FenceInv
<1>3. Holder(t) /\ ~Adding(t)
  BY <1>1 DEF Holder, Adding
<1>4. In(buf[t]) \subseteq {DataOf(t), FlagOf(t)}
  BY <1>1, <1>2, Zenon DEF BufferInv, Issued
<1>5. Load(t, <<"counter">>) = mem[<<"counter">>]
  <2>1. \A e \in In(buf[t]) : e.loc # <<"counter">>
    BY <1>4, StoreFacts, Locs, ZenonT(60)
  <2> QED
    BY <2>1, LoadsMemory, Zenon
<1>6. mem[<<"counter">>] = Cardinality(Done)
  <2>1. ASSUME NEW u \in Thread
        PROVE  ~Adding(u)
    BY <1>3, <2>1, HolderAlone
  <2> QED
    BY <1>2, <2>1 DEF Counted
<1>7. /\ got' \in [Thread -> [flag : Nat, data : Nat, counter : Nat]]
      /\ got'[t].counter = mem[<<"counter">>] /\ got'[t].flag = got[t].flag /\ got'[t].data = got[t].data
      /\ \A u \in Thread : u # t => got'[u] = got[u]
  <2>1. mem[<<"counter">>] \in Nat
    BY <1>2, Locs DEF Shapes
  <2> QED
    BY <1>1, <1>2, <1>5, <2>1, Zenon DEF Shapes
<1>8. pc'[t] = "add" /\ \A u \in Thread : u # t => pc'[u] = pc[u]
  BY <1>1, <1>2 DEF Shapes, Goto
<1>9. BufferInv(t)'
  <2>1. Issued(t)' = {DataOf(t), FlagOf(t)}
    BY <1>8 DEF Issued, DataOf, FlagOf
  <2> QED
    BY <1>1, <1>2, <1>4, <2>1, Zenon DEF BufferInv
<1>10. /\ \A u \in Thread : u # t => CountOf(u)' = CountOf(u)
       /\ OneHolder' /\ Counted' => FenceInv'
  <2>1. DOMAIN buf' = Thread /\ mem' \in [Loc -> Nat]
    BY <1>1, <1>2 DEF Shapes
  <2> QED
    BY <1>1, <1>7, <1>9, <2>1, LateStep DEF LatePlace
<1>11. ASSUME NEW u \in Thread
       PROVE  Holder(u)' = Holder(u) /\ Adding(u)' = Adding(u)
  BY <1>1, <1>8, <1>10, <1>11 DEF Holder, Adding
<1>12. OneHolder'
  <2>1. ASSUME NEW u \in Thread, pc'[u] = "done", CountOf(u)' \in In(buf'[u])
        PROVE  Release \in In(buf'[u])
    <3>1. u # t /\ pc[u] = "done"
      BY <1>8, <2>1
    <3> QED
      BY <1>1, <1>2, <1>10, <2>1, <3>1, Zenon DEF OneHolder
  <2>2. Release' = Release
    BY DEF Release
  <2> QED
    BY <1>1, <1>2, <1>11, <2>1, <2>2 DEF OneHolder
<1>13. Counted'
  <2>1. Done' = Done
    BY <1>1, <1>8, Zenon DEF Done
  <2>2. ASSUME NEW u \in Thread, pc'[u] \in {"add", "unlock"}
        PROVE  got'[u].counter = Cardinality(Done')
    <3>1. u = t
      BY <1>3, <1>8, <2>2, HolderAlone, Zenon
    <3> QED
      BY <1>6, <1>7, <2>1, <3>1, Zenon
  <2>3. ASSUME NEW u \in Thread
        PROVE  pc'[u] # "unlock" /\ ~Adding(u)'
    BY <1>3, <1>8, <1>11, <2>3, HolderAlone
  <2> QED
    BY <1>1, <1>6, <2>1, <2>2, <2>3 DEF Counted
<1> QED
  BY <1>10, <1>12, <1>13

LEMMA AddStep ==
    ASSUME FenceInv, NEW t \in Thread, add(t)
    PROVE  FenceInv'
<1>1. /\ pc[t] = "add" /\ buf' = [buf EXCEPT ![t] = Put(@, <<"counter">>, got[t].counter + 1)]
      /\ Goto(t, "unlock") /\ UNCHANGED <<build, mem, other, got>>
  BY Zenon DEF add, machine
<1>2. Shapes /\ OneHolder /\ Counted /\ BufferInv(t)
  BY DEF FenceInv
<1>3. Holder(t) /\ got[t].counter = Cardinality(Done)
  BY <1>1, <1>2, Zenon DEF Holder, Counted
<1>4. In(buf[t]) \subseteq {DataOf(t), FlagOf(t)} /\ InOrder(buf[t]) /\ Fenced(buf[t])
  BY <1>1, <1>2 DEF BufferInv, Issued
<1>5. PICK n \in Nat : n = got[t].counter + 1
  BY <1>2, SMTT(60) DEF Shapes
<1>6. CountOf(t) = [loc |-> <<"counter">>, val |-> n]
  BY <1>5, Zenon DEF CountOf
<1>7. \A e \in In(buf[t]) : Rank(e) < Rank([loc |-> <<"counter">>, val |-> n])
  BY <1>4, <1>6, StoreFacts
<1>8. PICK b : b = buf[t]
  BY SMTT(60)
<1>9. /\ InOrder(Put(b, <<"counter">>, n))
      /\ In(Put(b, <<"counter">>, n)) = In(b) \cup {[loc |-> <<"counter">>, val |-> n]}
  BY <1>4, <1>7, <1>8, Puts, Locs, SMTT(60)
<1>10. /\ InOrder(buf'[t]) /\ In(buf'[t]) = In(buf[t]) \cup {CountOf(t)}
       /\ DOMAIN buf' = Thread /\ \A u \in Thread : u # t => buf'[u] = buf[u]
  BY <1>1, <1>2, <1>5, <1>6, <1>8, <1>9, Zenon DEF Shapes
<1>11. pc'[t] = "unlock" /\ \A u \in Thread : u # t => pc'[u] = pc[u]
  BY <1>1, <1>2, Zenon DEF Shapes, Goto
<1>12. \A u \in Thread : CountOf(u)' = CountOf(u)
  BY <1>1, Zenon DEF CountOf
<1>13. BufferInv(t)'
  <2>1. Issued(t)' = {DataOf(t), FlagOf(t), CountOf(t)}
    BY <1>11, <1>12, Zenon DEF Issued, DataOf, FlagOf
  <2> QED
    BY <1>4, <1>10, <1>11, <2>1, Zenon DEF BufferInv
<1>14. OneHolder' /\ Counted' => FenceInv'
  <2>1. mem' \in [Loc -> Nat] /\ got' \in [Thread -> [flag : Nat, data : Nat, counter : Nat]]
    BY <1>1, <1>2, Zenon DEF Shapes
  <2> QED
    BY <1>1, <1>10, <1>13, <2>1, LateStep, Zenon DEF LatePlace
<1>15. ASSUME NEW u \in Thread
       PROVE  Holder(u)' = Holder(u)
  BY <1>1, <1>10, <1>11, <1>15, Zenon DEF Holder
<1>16. OneHolder'
  <2>1. ASSUME NEW u \in Thread, pc'[u] = "done", CountOf(u)' \in In(buf'[u])
        PROVE  Release \in In(buf'[u])
    <3>1. u # t /\ pc[u] = "done"
      BY <1>11, <2>1
    <3> QED
      BY <1>2, <1>10, <1>12, <2>1, <3>1, Zenon DEF OneHolder
  <2>2. Release' = Release
    BY Zenon DEF Release
  <2> QED
    BY <1>1, <1>2, <1>15, <2>1, <2>2, Zenon DEF OneHolder
<1>17. Counted'
  <2>1. Done' = Done
    BY <1>1, <1>11, Zenon DEF Done
  <2>2. ASSUME NEW u \in Thread, u # t
        PROVE  pc'[u] \notin {"add", "unlock"} /\ ~Adding(u)'
    BY <1>3, <1>10, <1>11, <1>12, <2>2, HolderAlone, Zenon DEF Adding
  <2>3. Adding(t)' /\ CountOf(t)' \in In(buf'[t]) /\ got'[t].counter = Cardinality(Done')
    BY <1>1, <1>3, <1>10, <1>11, <1>12, <2>1, Zenon DEF Adding
  <2> QED
    BY <1>11, <2>2, <2>3, Zenon DEF Counted
<1> QED
  BY <1>14, <1>16, <1>17, Zenon

------------------------------------------------------------------------------
(* The threads that are done are counted. *)
INSTANCE FiniteSetTheorems

LEMMA FenceInit ==
    ASSUME FenceAssumption, Init
    PROVE  FenceInv
<1> USE DEF Init
<1>1. Shapes
  BY Zenon DEF Shapes, Place
<1>2. ASSUME NEW t \in Thread
      PROVE  /\ pc[t] = "data" /\ buf[t] = <<>> /\ mem[<<"data", t>>] = 0 /\ mem[<<"flag", t>>] = 0
             /\ Issued(t) = {}
  BY <1>2, Locs, Zenon DEF Issued
<1>3. ASSUME NEW t \in Thread
      PROVE  BufferInv(t) /\ Published(t) /\ ~Holder(t)
  BY <1>2, <1>3, Empty, Zenon DEF BufferInv, Published, LoadedFlag, Holder
<1>4. OneHolder
  BY <1>2, <1>3, Zenon DEF OneHolder
<1>5. Done = {} /\ mem[<<"counter">>] = 0
  BY <1>2, Locs, Zenon DEF Done
<1>6. Cardinality(Done) = 0
  BY <1>5, FS_EmptySet, Zenon
<1>7. Counted
  BY <1>2, <1>5, <1>6, Zenon DEF Counted, Adding
<1>8. FullFence /\ Publication
  BY <1>2 DEF FullFence, Publication, LoadedData, LoadedFlag
<1> QED
  BY <1>1, <1>3, <1>4, <1>7, <1>8, Zenon DEF FenceInv

LEMMA UnlockStep ==
    ASSUME FenceAssumption, FenceInv, NEW t \in Thread, sst_stripe_unlock(t)
    PROVE  FenceInv'
<1>1. /\ pc[t] = "unlock"
      /\ buf' = [buf EXCEPT ![t] = Put(sst_store_barrier(@), <<"byte">>, 0)]
      /\ Goto(t, "done") /\ UNCHANGED <<build, mem, other, got>>
  BY DEF sst_stripe_unlock, machine
<1>2. Shapes /\ OneHolder /\ Counted /\ BufferInv(t)
  BY Zenon DEF FenceInv
<1>3. /\ Holder(t) /\ Adding(t) /\ got[t].counter = Cardinality(Done)
      /\ CountOf(t) \notin In(buf[t]) => mem[<<"counter">>] = Cardinality(Done) + 1
  BY <1>1, <1>2, Zenon DEF Holder, Adding, Counted
<1>4. In(buf[t]) \subseteq {DataOf(t), FlagOf(t), CountOf(t)} /\ InOrder(buf[t])
  BY <1>1, <1>2, Zenon DEF BufferInv, Issued
<1>5. PICK b : b = sst_store_barrier(buf[t])
  BY SMTT(60)
<1>6. InOrder(b) /\ In(b) = In(buf[t]) /\ Fenced(b)
  BY <1>4, <1>5, Fences, Zenon
<1>7. Release = [loc |-> <<"byte">>, val |-> 0] /\ Release' = Release
  BY Zenon DEF Release
<1>8. \A e \in In(b) : Rank(e) < Rank([loc |-> <<"byte">>, val |-> 0])
  BY <1>4, <1>6, <1>7, StoreFacts, SMTT(60)
<1>9. /\ InOrder(Put(b, <<"byte">>, 0))
      /\ In(Put(b, <<"byte">>, 0)) = In(b) \cup {[loc |-> <<"byte">>, val |-> 0]}
  BY <1>6, <1>8, Puts, Locs, SMTT(60)
<1>10. /\ InOrder(buf'[t]) /\ In(buf'[t]) = In(buf[t]) \cup {Release}
       /\ DOMAIN buf' = Thread /\ \A u \in Thread : u # t => buf'[u] = buf[u]
  BY <1>1, <1>2, <1>5, <1>6, <1>7, <1>9, Zenon DEF Shapes
<1>11. pc'[t] = "done" /\ \A u \in Thread : u # t => pc'[u] = pc[u]
  BY <1>1, <1>2, Zenon DEF Shapes, Goto
<1>12. \A u \in Thread : CountOf(u)' = CountOf(u)
  BY <1>1, Zenon DEF CountOf
<1>13. BufferInv(t)'
  <2>1. Issued(t)' = {DataOf(t), FlagOf(t), CountOf(t), Release}
    BY <1>7, <1>11, <1>12, Zenon DEF Issued, DataOf, FlagOf
  <2> QED
    BY <1>4, <1>10, <1>11, <2>1, Zenon DEF BufferInv
<1>14. OneHolder' /\ Counted' => FenceInv'
  <2>1. mem' \in [Loc -> Nat] /\ got' \in [Thread -> [flag : Nat, data : Nat, counter : Nat]]
    BY <1>1, <1>2, Zenon DEF Shapes
  <2> QED
    BY <1>1, <1>10, <1>13, <2>1, LateStep, Zenon DEF LatePlace
<1>15. ASSUME NEW u \in Thread, u # t
       PROVE  Holder(u)' = Holder(u) /\ Adding(u)' = Adding(u) /\ ~Adding(u)
              /\ pc'[u] \notin {"add", "unlock"}
  BY <1>3, <1>7, <1>10, <1>11, <1>12, <1>15, HolderAlone, Zenon DEF Holder, Adding
<1>16. OneHolder'
  <2>1. ASSUME NEW u \in Thread, pc'[u] = "done", CountOf(u)' \in In(buf'[u])
        PROVE  Release \in In(buf'[u])
    <3>1. CASE u = t
      BY <1>10, <3>1, Zenon
    <3>2. CASE u # t
      BY <1>2, <1>10, <1>11, <1>12, <2>1, <3>2, Zenon DEF OneHolder
    <3> QED
      BY <3>1, <3>2, Zenon
  <2>2. ASSUME NEW u \in Thread, Holder(u)'
        PROVE  Holder(u)
    BY <1>3, <1>15, <2>2, Zenon
  <2> QED
    BY <1>1, <1>2, <1>7, <2>1, <2>2, Zenon DEF OneHolder
<1>17. Counted'
  <2>1. Done' = Done \cup {t} /\ t \notin Done /\ Done \subseteq Thread
    BY <1>1, <1>11, Zenon DEF Done
  <2>2. Cardinality(Done') = Cardinality(Done) + 1
    <3>1. IsFiniteSet(Thread)
      BY DEF FenceAssumption
    <3>2. IsFiniteSet(Done)
      BY <2>1, <3>1, FS_Subset, Zenon
    <3> QED
      BY <2>1, <3>2, FS_AddElement, Zenon
  <2>3. got'[t].counter + 1 = Cardinality(Done')
    BY <1>1, <1>3, <2>2, Zenon
  <2>4. ASSUME \A u \in Thread : ~Adding(u)'
        PROVE  mem'[<<"counter">>] = Cardinality(Done')
    <3>1. CountOf(t) \notin In(buf[t])
      <4>1. ~Adding(t)'
        BY <2>4, Zenon
      <4> QED
        BY <1>10, <1>11, <1>12, <4>1, Zenon DEF Adding
    <3> QED
      BY <1>1, <1>3, <2>2, <3>1, Zenon
  <2>5. ASSUME NEW u \in Thread
        PROVE  /\ pc'[u] \notin {"add", "unlock"}
               /\ Adding(u)' => got'[u].counter + 1 = Cardinality(Done')
    BY <1>11, <1>15, <2>3, <2>5, Zenon
  <2> QED
    BY <2>4, <2>5, Zenon DEF Counted
<1> QED
  BY <1>14, <1>16, <1>17, Zenon

LEMMA FenceStutters ==
    ASSUME FenceInv, UNCHANGED vars
    PROVE  FenceInv'
<1>1. UNCHANGED <<build, ordering, mem, buf, pc, other, got>>
  BY Zenon DEF vars, machine
<1>2. Shapes'
  BY <1>1, Zenon DEF FenceInv, Shapes
<1>3. ASSUME NEW t \in Thread
      PROVE  /\ CountOf(t)' = CountOf(t) /\ Issued(t)' = Issued(t)
             /\ Holder(t)' = Holder(t) /\ Adding(t)' = Adding(t)
  BY <1>1, <1>3, Zenon DEF CountOf, Issued, Holder, Adding, DataOf, FlagOf, Release
<1>4. ASSUME NEW t \in Thread
      PROVE  BufferInv(t)' /\ Published(t)'
  <2>1. BufferInv(t) /\ Published(t)
    BY DEF FenceInv
  <2>2. DataOf(t)' = DataOf(t) /\ FlagOf(t)' = FlagOf(t)
    BY Zenon DEF DataOf, FlagOf
  <2>3. BufferInv(t)'
    BY <1>1, <1>3, <2>1, Zenon DEF BufferInv
  <2>4. Published(t)'
    BY <1>1, <1>3, <2>1, <2>2, Zenon DEF Published, LoadedFlag
  <2> QED
    BY <2>3, <2>4, Zenon
<1>5. Release' = Release /\ Done' = Done
  BY <1>1, Zenon DEF Release, Done
<1>6. OneHolder' /\ Counted'
  BY <1>1, <1>3, <1>5, Zenon DEF FenceInv, OneHolder, Counted
<1>7. FullFence' /\ Publication'
  BY <1>1, Zenon DEF FenceInv, FullFence, Publication, LoadedData, LoadedFlag
<1> QED
  BY <1>2, <1>4, <1>6, <1>7, Zenon DEF FenceInv

LEMMA FenceNext ==
    ASSUME FenceAssumption, FenceInv, [Next]_vars
    PROVE  FenceInv'
<1>1. CASE UNCHANGED vars
  BY <1>1, FenceStutters, Zenon
<1>2. ASSUME NEW t \in Thread,
             \/ Drain(t)
             \/ atomic_store_4(t, "data", "flag") \/ atomic_store_4(t, "flag", "sync")
             \/ sync_synchronize(t) \/ atomic_load_4(t)
             \/ sst_stripe_lock(t) \/ fetch(t) \/ add(t) \/ sst_stripe_unlock(t)
      PROVE  FenceInv'
  BY <1>2, DrainKeeps, StoreStep, SyncStep, LoadStep, LockStep, FetchStep, AddStep, UnlockStep, ZenonT(60)
<1> QED
  BY <1>1, <1>2, Zenon DEF Next

LEMMA FenceFacts ==
    ASSUME FenceInv
    PROVE  FullFence /\ Publication /\ LockedTotal
BY DEF FenceInv, Counted, LockedTotal, Done

------------------------------------------------------------------------------
(* The sources of random bytes, src/random.c, and their callers. *)
CONSTANTS Caller, EGD_MAX_REQUEST, MaxLen, EntropyMax, SeedLen, ReseedAfter

VARIABLES allow_weak, random_source, random_fd, opened, arc4_state, arc4_initialized, arc4_count, th

R == INSTANCE Random WITH Thread <- Caller

Shape(n) ==
    [pc : R!Pc, call : {"none", "getentropy", "getrandom", "arc4_stir"},
     buf : [1..n -> R!Origin], n : 0..MaxLen, probing : BOOLEAN,
     output : 0..MaxLen, len : 0..MaxLen, want : 0..EGD_MAX_REQUEST, sock : BOOLEAN]

(* What holds of each thread.  In a loop the bytes before output have been *)
(* filled and len are left; the probe reads one byte.                      *)
Good(r) ==
    /\ r \in Shape(r.n)
    /\ r.sock => r.pc \in {"egd", "reply"}
    /\ r.probing => r.pc \in {"connect", "egd", "reply"} /\ r.output + r.len = 1
    /\ r.pc \in {"source?", "open"} => r.output = 0
    /\ r.pc = "reply" => r.want \in 1..r.len
    /\ r.pc \in {"read_all", "connect", "egd", "reply"} /\ ~r.probing =>
          r.output + r.len = r.n /\ \A i \in 1..r.output : r.buf[i] = "real"
    /\ r.pc = "done" =>
          \A i \in 1..r.n : r.buf[i] \in {"real"} \cup (IF allow_weak THEN {"weak"} ELSE {})
    /\ r.call = "arc4_stir" => r.n = SeedLen

Among(pcs) == {t \in Caller : th[t].pc \in pcs}

(* The device was opened by the threads that are about to say so, as long  *)
(* as none has; a thread that found no source said has yet to open it.     *)
(* The threads that mix have found the count low enough.                   *)
Counts ==
    /\ opened + Cardinality(Among({"open"})) <= Cardinality(Caller)
    /\ random_source = 0 => opened <= Cardinality(Among({"set", "set_source"}))
    /\ arc4_count + Cardinality(Among({"mix"})) <= ReseedAfter + Cardinality(Caller)

RandomInv ==
    /\ allow_weak \in BOOLEAN /\ random_source \in -1..2
    /\ random_fd \in BOOLEAN /\ opened \in Nat
    /\ arc4_state \subseteq R!Origin /\ arc4_initialized \in BOOLEAN /\ arc4_count \in Nat
    /\ DOMAIN th = Caller /\ \A t \in Caller : Good(th[t])
    /\ Counts

LEMMA Limits ==
    ASSUME R!RandomAssumption
    PROVE  /\ EGD_MAX_REQUEST \in Nat \ {0} /\ MaxLen \in Nat
           /\ SeedLen \in 1..EntropyMax /\ EntropyMax \in 1..MaxLen
           /\ ReseedAfter \in Nat /\ IsFiniteSet(Caller)
BY DEF R!RandomAssumption, R!IsFiniteSet, IsFiniteSet

(* The values that the steps assign have their types. *)
LEMMA Assigned ==
    ASSUME R!RandomAssumption
    PROVE  /\ \A l \in {"failed", "source?", "open", "set", "set_fd", "set_source", "use", "read_all",
                        "connect", "egd", "reply", "no source", "done", "mix"} : l \in R!Pc
           /\ 0 \in 0..MaxLen /\ 1 \in 0..MaxLen /\ 0 \in 0..EGD_MAX_REQUEST
BY Limits DEF R!Pc

LEMMA IdleGood ==
    ASSUME R!RandomAssumption
    PROVE  Good(R!Idle)
BY Limits DEF Good, R!Idle, R!Pc, Shape

LEMMA Threads ==
    ASSUME R!RandomAssumption
    PROVE  /\ IsFiniteSet(Caller) /\ Cardinality(Caller) \in Nat
           /\ \A S \in SUBSET Caller : Cardinality(S) \in Nat /\ Cardinality(S) <= Cardinality(Caller)
BY Limits, FS_CardinalityType, FS_Subset, Zenon

LEMMA RandomInit ==
    ASSUME R!RandomAssumption, R!Init
    PROVE  RandomInv
<1> USE DEF R!Init
<1>1. \A t \in Caller : th[t] = R!Idle
  BY Zenon
<1>2. \A t \in Caller : Good(th[t])
  BY <1>1, IdleGood, Zenon
<1>3. Among({"open"}) = {} /\ Among({"set", "set_source"}) = {} /\ Among({"mix"}) = {}
  BY <1>1, Zenon DEF Among, R!Idle
<1>4. Counts
  BY <1>3, Threads, FS_EmptySet, Limits DEF Counts
<1>5. arc4_state \subseteq R!Origin /\ DOMAIN th = Caller
  BY Zenon DEF R!Origin
<1>6. random_source \in -1..2 /\ opened \in Nat /\ arc4_count \in Nat
  OBVIOUS
<1>7. random_fd \in BOOLEAN /\ arc4_initialized \in BOOLEAN /\ allow_weak \in BOOLEAN
  BY Zenon
<1> QED
  BY <1>2, <1>4, <1>5, <1>6, <1>7, Zenon DEF RandomInv

(* What a step of one thread does to the counts. *)
Changes(pcs, from, to) ==
    LET c == Cardinality(Among(pcs)) IN
    /\ c \in Nat /\ c' \in Nat /\ c <= Cardinality(Caller) /\ c' <= Cardinality(Caller)
    /\ to \notin pcs => c' <= c
    /\ (from \in pcs => to \in pcs) => c' >= c
    /\ from \notin pcs /\ to \in pcs => c' = c + 1
    /\ from \in pcs /\ to \notin pcs => c' = c - 1

LEMMA Moved ==
    ASSUME R!RandomAssumption, DOMAIN th = Caller, NEW t \in Caller, NEW r, th' = [th EXCEPT ![t] = r]
    PROVE  \A pcs : Changes(pcs, th[t].pc, r.pc)
<1> SUFFICES ASSUME NEW pcs PROVE Changes(pcs, th[t].pc, r.pc)
  BY Zenon
<1>1. Among(pcs) \in SUBSET Caller /\ Among(pcs)' \in SUBSET Caller
  BY Zenon DEF Among
<1>2. IsFiniteSet(Among(pcs))
  BY <1>1, FS_Subset, Threads, Zenon
<1>3. r.pc \in pcs => Among(pcs)' = Among(pcs) \cup {t}
  BY Zenon DEF Among
<1>4. r.pc \notin pcs => Among(pcs)' = Among(pcs) \ {t}
  BY Zenon DEF Among
<1>5. t \in Among(pcs) <=> th[t].pc \in pcs
  BY Zenon DEF Among
<1>6. r.pc \in pcs => Cardinality(Among(pcs)') = IF t \in Among(pcs) THEN Cardinality(Among(pcs)) ELSE Cardinality(Among(pcs)) + 1
  BY <1>2, <1>3, FS_AddElement, ZenonT(60)
<1>7. r.pc \notin pcs => Cardinality(Among(pcs)') = IF t \in Among(pcs) THEN Cardinality(Among(pcs)) - 1 ELSE Cardinality(Among(pcs))
  BY <1>2, <1>4, FS_RemoveElement, Zenon
<1> QED
  BY <1>1, <1>5, <1>6, <1>7, Threads DEF Changes

OpenAndSetFit ==
    Cardinality(Among({"open"})) + Cardinality(Among({"set", "set_source"})) <= Cardinality(Caller)

LEMMA OpenAndSet ==
    ASSUME R!RandomAssumption
    PROVE  OpenAndSetFit
<1> DEFINE S == Among({"open"})
           U == Among({"set", "set_source"})
<1>1. S \in SUBSET Caller /\ U \in SUBSET Caller /\ S \cup U \in SUBSET Caller /\ S \cap U = {}
  BY Zenon DEF Among
<1>2. IsFiniteSet(S) /\ IsFiniteSet(U) /\ Cardinality(S \cup U) <= Cardinality(Caller)
  BY <1>1, FS_Subset, Threads, Zenon
<1>3. Cardinality(S) \in Nat /\ Cardinality(U) \in Nat
  BY <1>1, Threads, Zenon
<1> HIDE DEF S, U
<1>4. Cardinality(S \cup U) = Cardinality(S) + Cardinality(U) - Cardinality(S \cap U)
  BY <1>2, FS_Union, Zenon
<1>5. Cardinality(S) + Cardinality(U) <= Cardinality(Caller)
  BY <1>1, <1>2, <1>3, <1>4, FS_EmptySet
<1> QED
  BY <1>5, Zenon DEF S, U, OpenAndSetFit

LEMMA OneMoves ==
    ASSUME R!RandomAssumption, RandomInv, NEW t \in Caller, NEW r, Good(r), th' = [th EXCEPT ![t] = r],
           allow_weak' = allow_weak
    PROVE  DOMAIN th' = Caller /\ \A u \in Caller : Good(th[u])'
<1>1. DOMAIN th' = Caller /\ \A u \in Caller : th'[u] = IF u = t THEN r ELSE th[u]
  BY Zenon DEF RandomInv
<1>2. \A x : Good(x) => Good(x)'
  BY Zenon DEF Good
<1> QED
  BY <1>1, <1>2, Zenon DEF RandomInv

(* A step that keeps out of what is counted.                               *)
LEMMA Quiet ==
    ASSUME R!RandomAssumption, RandomInv, NEW t \in Caller, NEW r, Good(r), th' = [th EXCEPT ![t] = r],
           r.pc \notin {"open", "mix"}, UNCHANGED <<allow_weak, opened, R!arc4>>,
           random_source' \in -1..2, random_source' = random_source \/ random_source' # 0,
           random_fd' \in BOOLEAN,
           random_source' = 0 /\ th[t].pc \in {"set", "set_source"} => r.pc \in {"set", "set_source"}
    PROVE  RandomInv'
<1> USE DEF RandomInv
<1>1. DOMAIN th' = Caller /\ \A u \in Caller : Good(th[u])'
  BY OneMoves, Zenon
<1>2. \A pcs : Changes(pcs, th[t].pc, r.pc)
  BY Moved, Zenon
<1>3. Changes({"open"}, th[t].pc, r.pc) /\ Changes({"mix"}, th[t].pc, r.pc)
      /\ Changes({"set", "set_source"}, th[t].pc, r.pc)
  BY <1>2, Zenon
<1>4. Counts'
  BY <1>3, Threads, Limits DEF Counts, R!arc4, Changes
<1> QED
  BY <1>1, <1>4, Zenon DEF R!arc4

(* What the counts become when a thread goes on to open the device, when   *)
(* it has opened it, when it goes on to mix and when it has mixed.          *)
LEMMA CountsLook ==
    ASSUME R!RandomAssumption, RandomInv, random_source = 0, UNCHANGED <<R!statics, R!arc4>>, OpenAndSetFit',
           Changes({"open"}, "source?", "open"), Changes({"mix"}, "source?", "open"),
           Changes({"set", "set_source"}, "source?", "open")
    PROVE  Counts'
BY Threads, Limits DEF Counts, R!arc4, R!statics, Changes, OpenAndSetFit, RandomInv

LEMMA CountsOpen ==
    ASSUME R!RandomAssumption, RandomInv, UNCHANGED <<random_source, R!arc4>>, opened' = opened + 1,
           Changes({"open"}, "open", "set"), Changes({"mix"}, "open", "set"),
           Changes({"set", "set_source"}, "open", "set")
    PROVE  Counts'
BY Threads, Limits DEF Counts, R!arc4, Changes, RandomInv

LEMMA CountsMix ==
    ASSUME R!RandomAssumption, RandomInv, NEW l \in {"user", "done", "failed"}, UNCHANGED R!statics,
           arc4_count' \in Nat, arc4_count' <= ReseedAfter,
           Changes({"open"}, l, "mix"), Changes({"mix"}, l, "mix"), Changes({"set", "set_source"}, l, "mix")
    PROVE  Counts'
BY Threads, Limits DEF Counts, R!statics, Changes, RandomInv

LEMMA CountsMixed ==
    ASSUME R!RandomAssumption, RandomInv, UNCHANGED R!statics, arc4_count' = arc4_count + 1,
           Changes({"open"}, "mix", "user"), Changes({"mix"}, "mix", "user"),
           Changes({"set", "set_source"}, "mix", "user")
    PROVE  Counts' /\ arc4_count' \in Nat
BY Threads, Limits DEF Counts, R!statics, Changes, RandomInv

(* A step that changes nothing of a thread but where it is. *)
LEMMA PcMoves ==
    ASSUME R!RandomAssumption, NEW me, Good(me), ~me.sock, ~me.probing, 
           NEW l \in {"failed", "source?", "open", "set", "set_fd", "set_source", "use", "no source",
                      "done", "mix"},
           l \in {"source?", "open"} => me.output = 0,
           l = "done" => \A i \in 1..me.n :
                            me.buf[i] \in {"real"} \cup (IF allow_weak THEN {"weak"} ELSE {})
    PROVE  Good([me EXCEPT !.pc = l]) /\ [me EXCEPT !.pc = l].pc = l
<1> DEFINE r == [me EXCEPT !.pc = l]
<1>1. me \in Shape(me.n)
  BY Zenon DEF Good
<1>2. r \in Shape(me.n)
  BY <1>1, Assigned, Zenon DEF Shape
<1>3. /\ r.pc = l /\ r.sock = me.sock /\ r.probing = me.probing /\ r.n = me.n
      /\ r.call = me.call /\ r.output = me.output /\ r.buf = me.buf
  BY <1>1, Zenon DEF Shape
<1> HIDE DEF r
<1>4. Good(r)
  BY <1>2, <1>3, Zenon DEF Good
<1> QED
  BY <1>3, <1>4, Zenon DEF r

(* The transfers keep what is read in place. *)
LEMMA Advances ==
    ASSUME R!RandomAssumption, NEW n \in 0..MaxLen, NEW at \in 0..MaxLen, NEW x \in 0..MaxLen, at + x = n, NEW k \in 1..x
    PROVE  /\ n \in Nat /\ at \in Nat /\ x \in Nat /\ k \in Nat /\ at + k <= n
           /\ at + k \in 0..MaxLen /\ x - k \in 0..MaxLen /\ (at + k) + (x - k) = n
BY Limits

LEMMA Nought ==
    ASSUME R!RandomAssumption
    PROVE  1..0 = {} /\ \A n \in 0..MaxLen : 0 + n = n
BY Limits

LEMMA Filled ==
    ASSUME R!RandomAssumption, NEW n \in Nat, NEW b \in [1..n -> R!Origin], NEW at \in Nat, NEW k \in Nat, at + k <= n,
           \A i \in 1..at : b[i] = "real"
    PROVE  /\ R!Fill(b, at, k, "real") \in [1..n -> R!Origin]
           /\ \A i \in 1..at + k : R!Fill(b, at, k, "real")[i] = "real"
<1>1. R!Fill(b, at, k, "real") = [i \in 1..n |-> IF i \in at + 1..at + k THEN "real" ELSE b[i]]
  BY Zenon DEF R!Fill
<1>2. R!Fill(b, at, k, "real") \in [1..n -> R!Origin]
  BY <1>1, Zenon DEF R!Origin
<1>3. ASSUME NEW i \in 1..at + k
      PROVE  R!Fill(b, at, k, "real")[i] = "real"
  <2>1. i \in 1..n /\ (i \in 1..at \/ i \in at + 1..at + k)
    OBVIOUS
  <2> QED
    BY <1>1, <2>1, Zenon
<1> QED
  BY <1>2, <1>3, Zenon

LEMMA CalledGood ==
    ASSUME R!RandomAssumption, NEW c \in {"getentropy", "getrandom", "arc4_stir"}, NEW n \in 0..MaxLen,
           c = "arc4_stir" => n = SeedLen
    PROVE  Good(R!Called(c, n)) /\ R!Called(c, n).pc \in {"failed", "source?"}
<1>1. [i \in 1..n |-> "raw"] \in [1..n -> R!Origin]
  BY Zenon DEF R!Origin
<1>2. PICK l \in {"failed", "source?"} : l = IF c = "getentropy" /\ n > EntropyMax THEN "failed" ELSE "source?"
  BY Zenon
<1>3. PICK b \in [1..n -> R!Origin] : b = [i \in 1..n |-> "raw"]
  BY <1>1, Zenon
<1> DEFINE r == [R!Idle EXCEPT !.pc = l, !.call = c, !.buf = b, !.n = n]
<1>4. R!Called(c, n) = r
  BY <1>2, <1>3, Zenon DEF R!Called
<1>5. /\ r.pc = l /\ r.call = c /\ r.buf = b /\ r.n = n /\ r.probing = FALSE
      /\ r.output = 0 /\ r.len = 0 /\ r.want = 0 /\ r.sock = FALSE
  BY Zenon DEF R!Idle
<1>6. r \in Shape(n)
  BY <1>2, Assigned, Zenon DEF Shape, R!Idle
<1> HIDE DEF r
<1>7. Good(r) /\ r.pc \in {"failed", "source?"}
  BY <1>5, <1>6, Zenon DEF Good
<1> QED
  BY <1>4, <1>7, Zenon

LEMMA EgdReturnsInv ==
    ASSUME R!RandomAssumption, RandomInv, NEW t \in Caller, NEW from \in {"connect", "egd", "reply"}, NEW ok \in BOOLEAN,
           R!EgdReturns(t, from, ok), ok => th[t].len = 0, UNCHANGED <<allow_weak, random_fd, opened, R!arc4>>
    PROVE  RandomInv'
<1> DEFINE me == th[t]
<1>0. Good(me) /\ th[t].pc = from
  BY Zenon DEF RandomInv, R!EgdReturns, R!Goes
<1>1. CASE me.probing
  <2> DEFINE r == [me EXCEPT !.pc = "use", !.probing = FALSE, !.sock = FALSE, !.want = 0]
  <2>0. me \in Shape(me.n) /\ me.probing /\ me.output + me.len = 1
    BY <1>0, <1>1, Zenon DEF Good
  <2>a. r \in Shape(me.n)
    BY <2>0, Assigned, Zenon DEF Shape
  <2>b. /\ r.pc = "use" /\ r.probing = FALSE /\ r.sock = FALSE /\ r.want = 0
        /\ r.call = me.call /\ r.n = me.n
    BY <2>0, Zenon DEF Shape
  <2>1. Good(r) /\ r.pc = "use"
    <3> HIDE DEF r
    <3> QED
      BY <1>0, <2>a, <2>b, Zenon DEF Good
  <2>2. th' = [th EXCEPT ![t] = r] /\ random_source' \in {2, -1}
    BY <1>1, Zenon DEF R!EgdReturns, R!Goes
  <2>3. random_source' \in -1..2 /\ random_source' # 0 /\ random_fd' \in BOOLEAN
    BY <2>2 DEF RandomInv
  <2> HIDE DEF r
  <2> QED
    BY <1>0, <2>1, <2>2, <2>3, Quiet, Zenon
<1>2. CASE ~me.probing
  <2> DEFINE r == [me EXCEPT !.pc = IF ok THEN "done" ELSE "no source", !.sock = FALSE, !.want = 0]
  <2>0. me \in Shape(me.n) /\ me.output + me.len = me.n /\ \A i \in 1..me.output : me.buf[i] = "real"
    BY <1>0, <1>2, Zenon DEF Good
  <2>a. r \in Shape(me.n)
    BY <2>0, Assigned, Zenon DEF Shape
  <2>b. /\ r.pc = (IF ok THEN "done" ELSE "no source") /\ r.sock = FALSE /\ r.want = 0 /\ r.probing = me.probing
        /\ r.call = me.call /\ r.n = me.n /\ r.buf = me.buf
    BY <2>0, Zenon DEF Shape
  <2>c. ok => me.output = me.n
    BY <2>0 DEF Shape
  <2>1. Good(r) /\ r.pc \in {"done", "no source"}
    <3> HIDE DEF r
    <3> QED
      BY <1>0, <1>2, <2>0, <2>a, <2>b, <2>c, Zenon DEF Good
  <2>2. th' = [th EXCEPT ![t] = r] /\ random_source' = random_source
    BY <1>2, Zenon DEF R!EgdReturns, R!Goes
  <2> HIDE DEF r
  <2> QED
    BY <1>0, <2>1, <2>2, Quiet, Zenon DEF RandomInv
<1> QED
  BY <1>1, <1>2, Zenon

LEMMA RandomNext ==
    ASSUME R!RandomAssumption, RandomInv, [R!Next]_(R!vars)
    PROVE  RandomInv'
<1>g. \A t \in Caller : Good(th[t]) /\ th[t] \in Shape(th[t].n)
  BY ZenonT(60) DEF RandomInv, Good
<1>b. random_source \in -1..2 /\ random_fd \in BOOLEAN
  BY Zenon DEF RandomInv
<1>1. ASSUME NEW t \in Caller, NEW c \in {"getentropy", "getrandom"}, NEW n \in 0..MaxLen, R!Request(t, c, n)
      PROVE  RandomInv'
  <2>1. th' = [th EXCEPT ![t] = R!Called(c, n)] /\ th[t].pc = "user" /\ UNCHANGED <<R!statics, R!arc4>>
    BY <1>1, Zenon DEF R!Request, R!Goes
  <2> QED
    BY <1>b, <2>1, CalledGood, Quiet, Zenon DEF R!statics
<1>3. ASSUME NEW t \in Caller, R!LookForSource(t)
      PROVE  RandomInv'
  <2>0. /\ th[t].pc = "source?" /\ UNCHANGED <<R!statics, R!arc4>>
        /\ Good(th[t]) /\ ~th[t].sock /\ ~th[t].probing /\ th[t].output = 0
    BY <1>3, <1>g, Zenon DEF R!LookForSource, R!Goes, Good
  <2>1. CASE random_source # 0
    <3>1. th' = [th EXCEPT ![t] = [th[t] EXCEPT !.pc = "use"]]
      BY <1>3, <2>1, Zenon DEF R!LookForSource, R!Goes
    <3>2. Good([th[t] EXCEPT !.pc = "use"]) /\ [th[t] EXCEPT !.pc = "use"].pc = "use"
      BY <2>0, PcMoves, Zenon
    <3> QED
      BY <1>b, <2>0, <3>1, <3>2, Quiet, Zenon DEF R!statics
  <2>2. CASE random_source = 0
    <3> DEFINE r == [th[t] EXCEPT !.pc = "open"]
    <3>1. th' = [th EXCEPT ![t] = r]
      BY <1>3, <2>2, Zenon DEF R!LookForSource, R!Goes
    <3>2. Good(r) /\ r.pc = "open"
      BY <2>0, PcMoves, Zenon
    <3> HIDE DEF r
    <3>3. DOMAIN th' = Caller /\ \A u \in Caller : Good(th[u])'
      BY <2>0, <3>1, <3>2, OneMoves, Zenon DEF R!statics
    <3>4. \A pcs : Changes(pcs, "source?", "open")
      BY <2>0, <3>1, <3>2, Moved, Zenon DEF RandomInv
    <3>5. Changes({"open"}, "source?", "open") /\ Changes({"mix"}, "source?", "open")
          /\ Changes({"set", "set_source"}, "source?", "open")
      BY <3>4, Zenon
    <3>6. OpenAndSetFit'
      BY OpenAndSet, PTL
    <3>7. Counts'
      BY <2>0, <2>2, <3>5, <3>6, CountsLook, Zenon
    <3> QED
      BY <2>0, <3>3, <3>7, Zenon DEF RandomInv, R!statics, R!arc4
  <2> QED
    BY <2>1, <2>2, Zenon
<1>4. ASSUME NEW t \in Caller, R!OpenDevice(t)
      PROVE  RandomInv'
  <2> DEFINE r == [th[t] EXCEPT !.pc = "set"]
  <2>1. /\ th[t].pc = "open" /\ UNCHANGED <<allow_weak, random_source, random_fd, R!arc4>>
        /\ th' = [th EXCEPT ![t] = r] /\ opened' = opened + 1
        /\ Good(th[t]) /\ ~th[t].sock /\ ~th[t].probing
    BY <1>4, <1>g, Zenon DEF R!OpenDevice, R!Goes, Good
  <2>2. Good(r) /\ r.pc = "set"
    BY <2>1, PcMoves, Zenon
  <2> HIDE DEF r
  <2>3. DOMAIN th' = Caller /\ \A u \in Caller : Good(th[u])'
    BY <2>1, <2>2, OneMoves, Zenon
  <2>4. \A pcs : Changes(pcs, "open", "set")
    BY <2>1, <2>2, Moved, Zenon DEF RandomInv
  <2>5. Changes({"open"}, "open", "set") /\ Changes({"mix"}, "open", "set")
        /\ Changes({"set", "set_source"}, "open", "set")
    BY <2>4, Zenon
  <2>6. Counts'
    BY <2>1, <2>5, CountsOpen, Zenon
  <2>7. opened' \in Nat
    BY <2>1 DEF RandomInv
  <2> QED
    BY <2>1, <2>3, <2>6, <2>7, Zenon DEF RandomInv, R!arc4
<1>5. ASSUME NEW t \in Caller, R!OpenFails(t)
      PROVE  RandomInv'
  <2> DEFINE r == [th[t] EXCEPT !.pc = "connect", !.probing = TRUE, !.len = 1]
  <2>1. /\ th[t].pc = "open" /\ UNCHANGED <<R!statics, R!arc4>> /\ th' = [th EXCEPT ![t] = r]
        /\ Good(th[t]) /\ ~th[t].sock /\ th[t].output = 0
    BY <1>5, <1>g, Zenon DEF R!OpenFails, R!Goes, Good
  <2>2. r \in Shape(th[t].n)
    BY <1>g, Assigned, Zenon DEF Shape
  <2>3. /\ r.pc = "connect" /\ r.sock = th[t].sock /\ r.probing = TRUE /\ r.n = th[t].n
        /\ r.call = th[t].call /\ r.output = th[t].output /\ r.len = 1
    BY <1>g, Zenon DEF Shape
  <2> HIDE DEF r
  <2>4. Good(r)
    BY <2>1, <2>2, <2>3 DEF Good
  <2> QED
    BY <1>b, <2>1, <2>3, <2>4, Quiet, Zenon DEF R!statics
<1>6. ASSUME NEW t \in Caller, R!SetFd(t)
      PROVE  RandomInv'
  <2>1. PICK l \in {"set_source", "use"} :
          /\ th' = [th EXCEPT ![t] = [th[t] EXCEPT !.pc = l]]
          /\ th[t].pc = IF l = "set_source" THEN "set" ELSE "set_fd"
    BY <1>6, Zenon DEF R!SetFd, R!Goes
  <2>2. /\ random_fd' = TRUE /\ UNCHANGED <<allow_weak, random_source, opened, R!arc4>>
        /\ Good(th[t]) /\ ~th[t].sock /\ ~th[t].probing
    BY <1>6, <1>g, <2>1, Zenon DEF R!SetFd, Good
  <2>l. l \in {"failed", "source?", "open", "set", "set_fd", "set_source", "use", "no source",
               "done", "mix"} /\ l \notin {"source?", "open"} /\ l # "done"
    BY <2>1, Zenon
  <2>3. Good([th[t] EXCEPT !.pc = l]) /\ [th[t] EXCEPT !.pc = l].pc = l
    BY <2>2, <2>l, PcMoves, ZenonT(60)
  <2> QED
    BY <1>b, <2>1, <2>2, <2>3, Quiet, Zenon
<1>7. ASSUME NEW t \in Caller, R!SetSource(t)
      PROVE  RandomInv'
  <2>1. PICK l \in {"set_fd", "use"} :
          /\ th' = [th EXCEPT ![t] = [th[t] EXCEPT !.pc = l]]
          /\ th[t].pc \in {"set", "set_source"}
    BY <1>7, Zenon DEF R!SetSource, R!Goes
  <2>2. /\ random_source' = 1 /\ UNCHANGED <<allow_weak, random_fd, opened, R!arc4>>
        /\ Good(th[t]) /\ ~th[t].sock /\ ~th[t].probing
    BY <1>7, <1>g, <2>1, Zenon DEF R!SetSource, Good
  <2>l. l \in {"failed", "source?", "open", "set", "set_fd", "set_source", "use", "no source",
               "done", "mix"} /\ l \notin {"source?", "open"} /\ l # "done"
    BY <2>1, Zenon
  <2>3. Good([th[t] EXCEPT !.pc = l]) /\ [th[t] EXCEPT !.pc = l].pc = l
    BY <2>2, <2>l, PcMoves, ZenonT(60)
  <2>4. random_source' \in -1..2 /\ random_source' # 0 /\ random_fd' \in BOOLEAN
    BY <1>b, <2>2
  <2> QED
    BY <2>1, <2>2, <2>3, <2>4, Quiet, Zenon
<1>8. ASSUME NEW t \in Caller, R!UseSource(t)
      PROVE  RandomInv'
  <2>0. 0 + th[t].n = th[t].n /\ 1..0 = {}
    BY <1>g, Nought, Zenon DEF Shape
  <2>1. PICK l \in {"read_all", "connect", "no source"} :
          th' = [th EXCEPT ![t] = [th[t] EXCEPT !.output = 0, !.len = th[t].n, !.pc = l]]
    <3> DEFINE l0 == CASE random_source = 1 /\ (random_fd \/ th[t].n = 0) -> "read_all"
                       [] random_source = 2 -> "connect"
                       [] OTHER -> "no source"
    <3>1. l0 \in {"read_all", "connect", "no source"}
      BY Zenon
    <3>2. th' = [th EXCEPT ![t] = [th[t] EXCEPT !.output = 0, !.len = th[t].n, !.pc = l0]]
      BY <1>8, Zenon DEF R!UseSource, R!Goes
    <3> QED
      BY <3>1, <3>2, Zenon
  <2> DEFINE r == [th[t] EXCEPT !.output = 0, !.len = th[t].n, !.pc = l]
  <2>2. /\ th[t].pc = "use" /\ UNCHANGED <<R!statics, R!arc4>>
        /\ Good(th[t]) /\ ~th[t].sock /\ ~th[t].probing /\ th[t].n \in 0..MaxLen
    BY <1>8, <1>g, Zenon DEF R!UseSource, R!Goes, Good, Shape
  <2>3. r \in Shape(th[t].n)
    BY <1>g, <2>2, Assigned, Zenon DEF Shape
  <2>4. /\ r.pc = l /\ r.sock = th[t].sock /\ r.probing = th[t].probing /\ r.n = th[t].n
        /\ r.call = th[t].call /\ r.output = 0 /\ r.len = th[t].n
    BY <1>g, Zenon DEF Shape
  <2>5. th' = [th EXCEPT ![t] = r]
    BY <2>1, Zenon
  <2> HIDE DEF r
  <2>6. Good(r)
    <3>1. r.output + r.len = r.n
      BY <2>0, <2>4, Zenon
    <3>2. \A i \in 1..r.output : r.buf[i] = "real"
      BY <2>0, <2>4, Zenon
    <3> QED
      BY <2>1, <2>2, <2>3, <2>4, <3>1, <3>2, Zenon DEF Good
  <2> QED
    BY <1>b, <2>1, <2>2, <2>4, <2>5, <2>6, Quiet, Zenon DEF R!statics
<1>9. ASSUME NEW t \in Caller, R!read_all(t)
      PROVE  RandomInv'
  <2> DEFINE me == th[t]
  <2>1. /\ me.pc = "read_all" /\ UNCHANGED <<R!statics, R!arc4>> /\ Good(me) /\ me \in Shape(me.n)
        /\ ~me.sock /\ ~me.probing /\ me.output + me.len = me.n
        /\ \A i \in 1..me.output : me.buf[i] = "real"
    BY <1>9, <1>g, Zenon DEF R!read_all, R!Goes, Good
  <2>2. ASSUME NEW l \in {"done", "no source"}, l = "done" => me.len = 0,
               th' = [th EXCEPT ![t] = [me EXCEPT !.pc = l]]
        PROVE  RandomInv'
    <3>1. l = "done" => me.output = me.n
      BY <2>1, <2>2 DEF Shape
    <3>l. l \in {"failed", "source?", "open", "set", "set_fd", "set_source", "use", "no source",
                 "done", "mix"} /\ l \notin {"source?", "open"}
      BY <2>2, Zenon
    <3>f. l = "done" => \A i \in 1..me.n :
                          me.buf[i] \in {"real"} \cup (IF allow_weak THEN {"weak"} ELSE {})
      BY <2>1, <3>1, Zenon
    <3> HIDE DEF me
    <3>2. Good([me EXCEPT !.pc = l]) /\ [me EXCEPT !.pc = l].pc = l
      BY <2>1, <3>l, <3>f, PcMoves, Zenon
    <3> QED
      BY <1>b, <2>1, <2>2, <3>2, <3>l, Quiet, Zenon DEF R!statics, me
  <2>3. ASSUME NEW k \in 1..me.len,
               th' = [th EXCEPT ![t] = [me EXCEPT !.buf = R!Fill(me.buf, me.output, k, "real"),
                                                  !.output = me.output + k, !.len = me.len - k]]
        PROVE  RandomInv'
    <3>1. /\ me.n \in 0..MaxLen /\ me.output \in 0..MaxLen /\ me.len \in 0..MaxLen
          /\ me.buf \in [1..me.n -> R!Origin]
      BY <2>1, Zenon DEF Shape
    <3>a. /\ me.n \in Nat /\ me.output \in Nat /\ me.len \in Nat /\ k \in Nat
          /\ me.output + k <= me.n
          /\ me.output + k \in 0..MaxLen /\ me.len - k \in 0..MaxLen
          /\ (me.output + k) + (me.len - k) = me.n
      <4> HIDE DEF me
      <4> QED
        BY <2>1, <2>3, <3>1, Advances
    <3>f. /\ R!Fill(me.buf, me.output, k, "real") \in [1..me.n -> R!Origin]
          /\ \A i \in 1..me.output + k : R!Fill(me.buf, me.output, k, "real")[i] = "real"
      <4> HIDE DEF me
      <4> QED
        BY <2>1, <3>1, <3>a, Filled, ZenonT(60)
    <3>2. PICK b \in [1..me.n -> R!Origin] :
            /\ b = R!Fill(me.buf, me.output, k, "real")
            /\ \A i \in 1..me.output + k : b[i] = "real"
      BY <3>f, Zenon
    <3>3. PICK o \in 0..MaxLen, x \in 0..MaxLen :
            o = me.output + k /\ x = me.len - k /\ o + x = me.n
      BY <3>a, Zenon
    <3> DEFINE r == [me EXCEPT !.buf = b, !.output = o, !.len = x]
    <3>4. r \in Shape(me.n)
      BY <2>1, Zenon DEF Shape
    <3>5. /\ r.pc = me.pc /\ r.sock = me.sock /\ r.probing = me.probing /\ r.n = me.n
          /\ r.call = me.call /\ r.output = o /\ r.len = x /\ r.buf = b
      BY <2>1, Zenon DEF Shape
    <3>6. th' = [th EXCEPT ![t] = r]
      BY <2>3, <3>2, <3>3, Zenon
    <3> HIDE DEF r
    <3>7. Good(r)
      BY <2>1, <3>2, <3>3, <3>4, <3>5, Zenon DEF Good
    <3> QED
      BY <1>b, <2>1, <3>5, <3>6, <3>7, Quiet, Zenon DEF R!statics
  <2> QED
    BY <1>9, <2>2, <2>3, Zenon DEF R!read_all, R!Goes
<1>10. ASSUME NEW t \in Caller, R!egd_connect(t)
       PROVE  RandomInv'
  <2>1. CASE R!EgdReturns(t, "connect", FALSE)
    BY <1>10, <2>1, EgdReturnsInv, Zenon DEF R!egd_connect
  <2>2. CASE /\ R!Goes(t, "connect", [th[t] EXCEPT !.pc = "egd", !.sock = TRUE])
             /\ UNCHANGED random_source
    <3> DEFINE me == th[t]
               r == [me EXCEPT !.pc = "egd", !.sock = TRUE]
    <3>1. /\ me.pc = "connect" /\ UNCHANGED <<allow_weak, random_fd, opened, R!arc4, random_source>>
          /\ Good(me) /\ me \in Shape(me.n) /\ th' = [th EXCEPT ![t] = r]
      BY <1>10, <1>g, <2>2, Zenon DEF R!egd_connect, R!Goes
    <3>2. r \in Shape(me.n)
      BY <3>1, Assigned, Zenon DEF Shape
    <3>3. /\ r.pc = "egd" /\ r.probing = me.probing /\ r.n = me.n
          /\ r.call = me.call /\ r.output = me.output /\ r.len = me.len /\ r.buf = me.buf
      BY <3>1, Zenon DEF Shape
    <3> HIDE DEF r
    <3>4. Good(r)
      BY <3>1, <3>2, <3>3, Zenon DEF Good
    <3> QED
      BY <1>b, <3>1, <3>3, <3>4, Quiet, Zenon
  <2> QED
    BY <1>10, <2>1, <2>2, Zenon DEF R!egd_connect
<1>11. ASSUME NEW t \in Caller, R!egd_request(t)
       PROVE  RandomInv'
  <2> DEFINE me == th[t]
             chunk == IF me.len > EGD_MAX_REQUEST THEN EGD_MAX_REQUEST ELSE me.len
  <2>1. CASE me.len = 0 /\ R!EgdReturns(t, "egd", TRUE)
    BY <1>11, <2>1, EgdReturnsInv, Zenon DEF R!egd_request
  <2>2. CASE me.len > 0 /\ R!EgdReturns(t, "egd", FALSE)
    BY <1>11, <2>2, EgdReturnsInv, Zenon DEF R!egd_request
  <2>3. CASE /\ me.len > 0 /\ UNCHANGED random_source
             /\ R!Goes(t, "egd", [me EXCEPT !.pc = "reply", !.want = chunk])
    <3>1. /\ me.pc = "egd" /\ UNCHANGED <<allow_weak, random_fd, opened, R!arc4, random_source>>
          /\ Good(me) /\ me \in Shape(me.n) /\ th' = [th EXCEPT ![t] = [me EXCEPT !.pc = "reply", !.want = chunk]]
      BY <1>11, <1>g, <2>3, Zenon DEF R!egd_request, R!Goes
    <3>2. chunk \in 0..EGD_MAX_REQUEST /\ chunk \in 1..me.len
      BY <2>3, <3>1, Limits DEF Shape
    <3>3. PICK c \in 0..EGD_MAX_REQUEST : c = chunk
      BY <3>2, Zenon
    <3> HIDE DEF chunk
    <3> DEFINE r == [me EXCEPT !.pc = "reply", !.want = c]
    <3>4. r \in Shape(me.n)
      BY <3>1, <3>3, Assigned, Zenon DEF Shape
    <3>5. /\ r.pc = "reply" /\ r.probing = me.probing /\ r.n = me.n /\ r.want = c /\ r.sock = me.sock
          /\ r.call = me.call /\ r.output = me.output /\ r.len = me.len /\ r.buf = me.buf
      BY <3>1, Zenon DEF Shape
    <3>6. th' = [th EXCEPT ![t] = r]
      BY <3>1, <3>3, Zenon
    <3> HIDE DEF r
    <3>7. Good(r)
      BY <3>1, <3>2, <3>3, <3>4, <3>5, Zenon DEF Good
    <3> QED
      BY <1>b, <3>1, <3>5, <3>6, <3>7, Quiet, Zenon
  <2> QED
    BY <1>11, <2>1, <2>2, <2>3, Zenon DEF R!egd_request
<1>12. ASSUME NEW t \in Caller, R!egd_reply(t)
       PROVE  RandomInv'
  <2> DEFINE me == th[t]
  <2>1. CASE R!EgdReturns(t, "reply", FALSE)
    BY <1>12, <2>1, EgdReturnsInv, Zenon DEF R!egd_reply
  <2>2. ASSUME NEW k \in 1..me.want, UNCHANGED random_source,
               R!Goes(t, "reply", [me EXCEPT
                      !.buf = IF me.probing THEN me.buf ELSE R!Fill(me.buf, me.output, k, "real"),
                      !.output = me.output + k, !.len = me.len - k, !.want = me.want - k,
                      !.pc = IF k = me.want THEN "egd" ELSE "reply"])
        PROVE  RandomInv'
    <3>1. /\ me.pc = "reply" /\ UNCHANGED <<allow_weak, random_fd, opened, R!arc4, random_source>>
          /\ Good(me) /\ me \in Shape(me.n)
      BY <1>12, <1>g, <2>2, Zenon DEF R!egd_reply, R!Goes
    <3>2. /\ me.n \in 0..MaxLen /\ me.output \in 0..MaxLen /\ me.len \in 0..MaxLen
          /\ me.want \in 0..EGD_MAX_REQUEST /\ me.want \in 1..me.len
          /\ me.buf \in [1..me.n -> R!Origin]
      BY <3>1, Zenon DEF Shape, Good
    <3>3. /\ me.output + me.len = IF me.probing THEN 1 ELSE me.n
          /\ ~me.probing => \A i \in 1..me.output : me.buf[i] = "real"
      BY <3>1, Zenon DEF Good
    <3>s. PICK s \in 0..MaxLen : s = (IF me.probing THEN 1 ELSE me.n) /\ me.output + me.len = s
      BY <3>2, <3>3, Assigned, Zenon
    <3>m. /\ me.n \in Nat /\ me.output \in Nat /\ me.len \in Nat /\ k \in Nat
          /\ me.output + k <= s
          /\ me.output + k \in 0..MaxLen /\ me.len - k \in 0..MaxLen
          /\ (me.output + k) + (me.len - k) = s
          /\ me.want - k \in 0..EGD_MAX_REQUEST
          /\ (k # me.want => me.want - k \in 1..me.len - k)
      <4> HIDE DEF me
      <4>1. /\ me.n \in 0..MaxLen /\ me.output \in 0..MaxLen /\ me.len \in 0..MaxLen
            /\ me.want \in 0..EGD_MAX_REQUEST /\ me.want \in 1..me.len
            /\ MaxLen \in Nat /\ EGD_MAX_REQUEST \in Nat /\ me.output + me.len = s
        BY <3>2, <3>s, Limits, Zenon
      <4>2. k \in 1..me.want
        BY <2>2, Zenon DEF me
      <4> QED
        BY <4>1, <4>2
    <3>4. /\ (~me.probing => me.output + k <= me.n)
          /\ (me.output + k) + (me.len - k) = IF me.probing THEN 1 ELSE me.n
      BY <3>s, <3>m, Zenon
    <3>5. PICK b \in [1..me.n -> R!Origin] :
            /\ b = IF me.probing THEN me.buf ELSE R!Fill(me.buf, me.output, k, "real")
            /\ ~me.probing => \A i \in 1..me.output + k : b[i] = "real"
      <4>1. CASE me.probing
        BY <3>2, <4>1, Zenon
      <4>2. CASE ~me.probing
        <5> HIDE DEF me
        <5>1. /\ R!Fill(me.buf, me.output, k, "real") \in [1..me.n -> R!Origin]
              /\ \A i \in 1..me.output + k : R!Fill(me.buf, me.output, k, "real")[i] = "real"
          BY <3>2, <3>3, <3>4, <3>m, <4>2, Filled, ZenonT(60)
        <5> QED
          BY <4>2, <5>1, Zenon
      <4> QED
        BY <4>1, <4>2, Zenon
    <3>6. PICK o \in 0..MaxLen, x \in 0..MaxLen, w \in 0..EGD_MAX_REQUEST, l \in {"egd", "reply"} :
            /\ o = me.output + k /\ x = me.len - k /\ w = me.want - k
            /\ l = IF k = me.want THEN "egd" ELSE "reply"
      BY <3>m, Zenon
    <3> DEFINE r == [me EXCEPT !.buf = b, !.output = o, !.len = x, !.want = w, !.pc = l]
    <3>7. r \in Shape(me.n)
      BY <3>1, <3>5, <3>6, Assigned, Zenon DEF Shape
    <3>8. /\ r.pc = l /\ r.sock = me.sock /\ r.probing = me.probing /\ r.n = me.n /\ r.want = w
          /\ r.call = me.call /\ r.output = o /\ r.len = x /\ r.buf = b
      BY <3>1, Zenon DEF Shape
    <3>9. th' = [th EXCEPT ![t] = r]
      BY <2>2, <3>5, <3>6, Zenon DEF R!Goes
    <3>10. /\ o + x = IF me.probing THEN 1 ELSE me.n
           /\ l = "reply" => w \in 1..x
           /\ ~me.probing => \A i \in 1..o : b[i] = "real"
      BY <3>4, <3>5, <3>6, <3>m, Zenon
    <3> HIDE DEF r
    <3>11. Good(r)
      BY <3>1, <3>6, <3>7, <3>8, <3>10, Zenon DEF Good
    <3> QED
      BY <1>b, <3>1, <3>6, <3>8, <3>9, <3>11, Quiet, Zenon
  <2> QED
    BY <1>12, <2>1, <2>2, Zenon DEF R!egd_reply
<1>13. ASSUME NEW t \in Caller, R!Fallback(t)
       PROVE  RandomInv'
  <2> DEFINE me == th[t]
  <2>1. /\ me.pc = "no source" /\ UNCHANGED <<R!statics, R!arc4>> /\ Good(me) /\ me \in Shape(me.n)
        /\ ~me.sock /\ ~me.probing
    BY <1>13, <1>g, Zenon DEF R!Fallback, R!Goes, Good
  <2>2. CASE ~allow_weak
    <3>1. th' = [th EXCEPT ![t] = [me EXCEPT !.pc = "failed"]]
      BY <1>13, <2>2, Zenon DEF R!Fallback, R!Goes
    <3>2. Good([me EXCEPT !.pc = "failed"]) /\ [me EXCEPT !.pc = "failed"].pc = "failed"
      BY <2>1, PcMoves, Zenon
    <3> QED
      BY <1>b, <2>1, <3>1, <3>2, Quiet, Zenon DEF R!statics
  <2>3. CASE allow_weak
    <3>1. PICK b \in [1..me.n -> R!Origin] :
            b = [i \in DOMAIN me.buf |-> "weak"] /\ \A i \in 1..me.n : b[i] = "weak"
      <4>1. DOMAIN me.buf = 1..me.n
        BY <2>1, Zenon DEF Shape
      <4>2. [i \in DOMAIN me.buf |-> "weak"] \in [1..me.n -> R!Origin]
        BY <4>1, Zenon DEF R!Origin
      <4>3. \A i \in 1..me.n : [j \in DOMAIN me.buf |-> "weak"][i] = "weak"
        BY <4>1, Zenon
      <4> QED
        BY <4>2, <4>3, Zenon
    <3> DEFINE r == [me EXCEPT !.pc = "done", !.buf = b]
    <3>2. th' = [th EXCEPT ![t] = r]
      BY <1>13, <2>3, <3>1, Zenon DEF R!Fallback, R!Goes
    <3>3. r \in Shape(me.n)
      BY <2>1, <3>1, Assigned, Zenon DEF Shape
    <3>4. /\ r.pc = "done" /\ r.sock = me.sock /\ r.probing = me.probing /\ r.n = me.n
          /\ r.call = me.call /\ r.buf = b
      BY <2>1, Zenon DEF Shape
    <3> HIDE DEF r
    <3>5. Good(r)
      BY <2>1, <2>3, <3>1, <3>3, <3>4, Zenon DEF Good
    <3> QED
      BY <1>b, <2>1, <3>2, <3>4, <3>5, Quiet, Zenon DEF R!statics
  <2> QED
    BY <2>2, <2>3, Zenon
<1>14. ASSUME NEW t \in Caller, R!Return(t)
       PROVE  RandomInv'
  <2>1. th' = [th EXCEPT ![t] = R!Idle] /\ UNCHANGED <<R!statics, R!arc4>> /\ th[t].pc \in {"done", "failed"}
    BY <1>14, Zenon DEF R!Return
  <2>2. R!Idle.pc = "user"
    BY Zenon DEF R!Idle
  <2> QED
    BY <1>b, <2>1, <2>2, IdleGood, Quiet, Zenon DEF R!statics
<1>m. Good([R!Idle EXCEPT !.pc = "mix"]) /\ [R!Idle EXCEPT !.pc = "mix"].pc = "mix"
  <2>1. ~R!Idle.sock /\ ~R!Idle.probing
    BY Zenon DEF R!Idle
  <2> QED
    BY <2>1, IdleGood, PcMoves, Zenon
<1>15. ASSUME NEW t \in Caller, NEW l, th[t].pc = l, l \in {"user", "done", "failed"},
              th' = [th EXCEPT ![t] = [R!Idle EXCEPT !.pc = "mix"]], UNCHANGED R!statics,
              arc4_count' \in Nat, arc4_count' <= ReseedAfter,
              arc4_state' \subseteq R!Origin, arc4_initialized' \in BOOLEAN
       PROVE  RandomInv'
  <2>1. DOMAIN th' = Caller /\ \A u \in Caller : Good(th[u])'
    BY <1>15, <1>m, OneMoves, Zenon DEF R!statics
  <2>2. \A pcs : Changes(pcs, l, "mix")
    BY <1>15, <1>m, Moved, Zenon DEF RandomInv
  <2>3. Changes({"open"}, l, "mix") /\ Changes({"mix"}, l, "mix") /\ Changes({"set", "set_source"}, l, "mix")
    BY <2>2, Zenon
  <2>4. Counts'
    BY <1>15, <2>3, CountsMix, Zenon
  <2> QED
    BY <1>15, <2>1, <2>4, Zenon DEF RandomInv, R!statics
<1>16. ASSUME NEW t \in Caller, R!arc4_next(t)
       PROVE  RandomInv'
  <2>1. CASE ~arc4_initialized \/ arc4_count > ReseedAfter
    <3>1. th' = [th EXCEPT ![t] = R!Called("arc4_stir", SeedLen)] /\ th[t].pc = "user" /\ UNCHANGED <<R!statics, R!arc4>>
      BY <1>16, <2>1, Zenon DEF R!arc4_next, R!Goes
    <3>2. SeedLen \in 0..MaxLen
      BY Limits
    <3> QED
      BY <1>b, <3>1, <3>2, CalledGood, Quiet, Zenon DEF R!statics
  <2>2. CASE ~(~arc4_initialized \/ arc4_count > ReseedAfter)
    <3>1. th' = [th EXCEPT ![t] = [R!Idle EXCEPT !.pc = "mix"]] /\ th[t].pc = "user" /\ UNCHANGED <<R!statics, R!arc4>>
      BY <1>16, <2>2, Zenon DEF R!arc4_next, R!Goes
    <3>2. arc4_count' \in Nat /\ arc4_count' <= ReseedAfter
      BY <2>2, <3>1, Limits DEF RandomInv, R!arc4
    <3>3. arc4_state' \subseteq R!Origin /\ arc4_initialized' \in BOOLEAN
      BY <3>1, Zenon DEF RandomInv, R!arc4
    <3> QED
      BY <1>15, <3>1, <3>2, <3>3, Zenon
  <2> QED
    BY <2>1, <2>2, Zenon
<1>17. ASSUME NEW t \in Caller, R!arc4_stir(t)
       PROVE  RandomInv'
  <2>1. th' = [th EXCEPT ![t] = [R!Idle EXCEPT !.pc = "mix"]] /\ th[t].pc \in {"done", "failed"} /\ UNCHANGED R!statics
    BY <1>17, Zenon DEF R!arc4_stir
  <2>2. th[t].n = SeedLen /\ th[t].buf \in [1..SeedLen -> R!Origin]
    BY <1>17, <1>g, Zenon DEF R!arc4_stir, Good, Shape
  <2>3. arc4_state' \subseteq R!Origin
    BY <1>17, <2>2, Zenon DEF R!arc4_stir
  <2>4. arc4_count' \in Nat /\ arc4_count' <= ReseedAfter /\ arc4_initialized' \in BOOLEAN
    BY <1>17, Limits DEF R!arc4_stir
  <2> QED
    BY <1>15, <2>1, <2>3, <2>4, Zenon
<1>18. ASSUME NEW t \in Caller, R!Mix(t)
       PROVE  RandomInv'
  <2>1. /\ th' = [th EXCEPT ![t] = R!Idle] /\ th[t].pc = "mix" /\ UNCHANGED <<R!statics, arc4_state, arc4_initialized>>
        /\ arc4_count' = arc4_count + 1 /\ R!Idle.pc = "user"
    BY <1>18, Zenon DEF R!Mix, R!Goes, R!Idle
  <2>2. DOMAIN th' = Caller /\ \A u \in Caller : Good(th[u])'
    BY <2>1, IdleGood, OneMoves, Zenon DEF R!statics
  <2>3. \A pcs : Changes(pcs, "mix", "user")
    BY <2>1, Moved, Zenon DEF RandomInv
  <2>4. Changes({"open"}, "mix", "user") /\ Changes({"mix"}, "mix", "user")
        /\ Changes({"set", "set_source"}, "mix", "user")
    BY <2>3, Zenon
  <2>5. Counts' /\ arc4_count' \in Nat
    BY <2>1, <2>4, CountsMixed, Zenon
  <2> QED
    BY <2>1, <2>2, <2>5, Zenon DEF RandomInv, R!statics
<1>19. CASE UNCHANGED R!vars
  <2>1. \A x : Good(x)' <=> Good(x)
    BY <1>19, ZenonT(60) DEF Good, R!vars, R!statics
  <2>2. th' = th /\ (Counts <=> Counts')
    BY <1>19, Zenon DEF Counts, Among, R!vars, R!statics, R!arc4
  <2> QED
    BY <1>19, <2>1, <2>2, Zenon DEF RandomInv, R!vars, R!statics, R!arc4
<1> QED
  BY <1>1, <1>3, <1>4, <1>5, <1>6, <1>7, <1>8, <1>9, <1>10, <1>11, <1>12, <1>13, <1>14, <1>16, <1>17,
     <1>18, <1>19, Zenon
  DEF R!Next, R!Steps

LEMMA RandomFacts ==
    ASSUME R!RandomAssumption, RandomInv
    PROVE  R!TypeOK /\ R!AllFilled /\ R!SocketClosed /\ R!OpenedOnce
<1>1. \A t \in Caller : Good(th[t]) /\ th[t] \in Shape(th[t].n)
  BY Zenon DEF RandomInv, Good
<1>2. Among({"open"}) \in SUBSET Caller /\ Among({"mix"}) \in SUBSET Caller
  BY Zenon DEF Among
<1>3. R!Cardinality(Caller) = Cardinality(Caller)
  BY Zenon DEF R!Cardinality, R!IsFiniteSet, Cardinality, IsFiniteSet
<1>4. arc4_count \in 0..ReseedAfter + Cardinality(Caller) /\ opened <= Cardinality(Caller)
  BY <1>2, Threads, Limits DEF RandomInv, Counts
<1>5. R!TypeOK
  BY <1>1, <1>3, <1>4, Zenon DEF R!TypeOK, RandomInv, Shape
<1> QED
  BY <1>1, <1>3, <1>4, <1>5, Zenon DEF R!AllFilled, R!SocketClosed, R!OpenedOnce, Good
==============================================================================
