-------------------------- MODULE ProcessesProofs ---------------------------
(***************************************************************************)
(* Theorems about ProcessSpec, for every value of the constants.  For each *)
(* part of Processes there is an inductive invariant that its steps        *)
(* preserve: those of TempDir and Locale are here, those of AtomicFences   *)
(* and Random in SharedStateProofs, those of Terminal and Spawn in         *)
(* DescriptorProofs.                                                       *)
(***************************************************************************)
EXTENDS Processes, Sequences, TLAPS

(* A behaviour exercises one part from its beginning to its end, and a     *)
(* step of it is a step of that part.                                      *)
LEMMA PartSteps ==
    ASSUME [ProcessNext]_processVars
    PROVE  /\ part' = part
           /\ [Next]_vars
           /\ part = "locale" => [L!Next]_localeVars
           /\ part = "tempdir" => [D!Next]_tempVars
           /\ part = "terminal" => [T!Next]_ttyVars
           /\ part = "spawn" => [P!Next]_spawnVars
           /\ part = "fences" => [B!Next]_fenceVars
<1>1. CASE UNCHANGED processVars
  BY <1>1 DEF processVars
<1> QED
  BY <1>1 DEF ProcessNext

------------------------------------------------------------------------------
(* mkdtemp of src/stdlib.c. *)

(* A process that still tries has an attempt left and, at mkdir, a name.   *)
Trying ==
    \A p \in TempProcess :
        /\ mkdtemp_pc[p] \in {"fill", "mkdir"} => attempt[p] < MaxAttempts
        /\ mkdtemp_pc[p] = "mkdir" => suffix[p] \in Suffix

TempInv == D!TypeOK /\ Trying /\ D!OneOwner

LEMMA TempInit ==
    ASSUME D!TempDirAssumption, D!Init
    PROVE  TempInv
BY DEF D!TempDirAssumption, D!Init, TempInv, D!TypeOK, Trying, D!OneOwner

(* mkdir succeeds only for a name that nobody has.                         *)
LEMMA TempMade ==
    ASSUME D!TempDirAssumption, TempInv, NEW p \in TempProcess,
           mkdtemp_pc[p] = "mkdir", suffix[p] \notin entries, D!Made(p), UNCHANGED suffix
    PROVE  TempInv'
<1> DEFINE n == suffix[p]
<1>1. n \in Suffix /\ owner[n] = {}
  BY DEF TempInv, Trying, D!OneOwner
<1>2. D!TypeOK'
  BY <1>1 DEF TempInv, D!TypeOK, D!Made
<1>3. Trying'
  BY DEF TempInv, D!TypeOK, Trying, D!Made
<1>4. D!OneOwner'
  <2>1. owner' = [owner EXCEPT ![n] = {p}] /\ entries' = entries \cup {n}
    BY <1>1 DEF D!Made, TempInv, D!TypeOK
  <2>2. ASSUME NEW s \in Suffix, owner'[s] # {}
        PROVE  s \in entries' /\ \A q, r \in owner'[s] : q = r
    <3>1. CASE s = n
      BY <1>1, <2>1, <3>1 DEF TempInv, D!TypeOK
    <3>2. CASE s # n
      BY <2>1, <2>2, <3>2 DEF TempInv, D!TypeOK, D!OneOwner
    <3> QED
      BY <3>1, <3>2
  <2> QED
    BY <2>2 DEF D!OneOwner
<1> QED
  BY <1>2, <1>3, <1>4 DEF TempInv

LEMMA TempNext ==
    ASSUME D!TempDirAssumption, TempInv, [D!Next]_tempVars
    PROVE  TempInv'
<1> USE DEF TempInv
<1>1. ASSUME NEW p \in TempProcess, D!mkdtemp(p)
      PROVE  TempInv'
  BY <1>1 DEF D!mkdtemp, D!TypeOK, Trying, D!OneOwner, D!TempDirAssumption
<1>2. ASSUME NEW p \in TempProcess, NEW s \in Suffix, D!fill_suffix(p, s)
      PROVE  TempInv'
  BY <1>2 DEF D!fill_suffix, D!TypeOK, Trying, D!OneOwner
<1>3. ASSUME NEW p \in TempProcess, D!mkdir(p)
      PROVE  TempInv'
  <2>1. CASE suffix[p] \notin entries /\ D!Made(p)
    BY <1>3, <2>1, TempMade DEF D!mkdir
  <2>2. CASE /\ suffix[p] \in entries
             /\ attempt' = [attempt EXCEPT ![p] = @ + 1]
             /\ mkdtemp_pc' = [mkdtemp_pc EXCEPT ![p] = IF attempt[p] + 1 < MaxAttempts THEN "fill" ELSE "EEXIST"]
             /\ UNCHANGED <<entries, owner>>
    <3>1. attempt[p] \in 0..MaxAttempts /\ attempt[p] < MaxAttempts /\ MaxAttempts \in Nat
      BY <1>3 DEF D!mkdir, D!TypeOK, Trying, D!TempDirAssumption
    <3>2. D!TypeOK'
      BY <1>3, <2>2, <3>1 DEF D!mkdir, D!TypeOK
    <3>3. Trying'
      BY <1>3, <2>2, <3>1 DEF D!mkdir, D!TypeOK, Trying
    <3> QED
      BY <2>2, <3>2, <3>3 DEF D!OneOwner
  <2>3. CASE /\ suffix[p] \notin entries
             /\ mkdtemp_pc' = [mkdtemp_pc EXCEPT ![p] = "error"]
             /\ UNCHANGED <<entries, owner, attempt>>
    BY <1>3, <2>3 DEF D!mkdir, D!TypeOK, Trying, D!OneOwner
  <2> QED
    BY <1>3, <2>1, <2>2, <2>3 DEF D!mkdir
<1>4. ASSUME NEW p \in TempProcess, D!Return(p)
      PROVE  TempInv'
  BY <1>4 DEF D!Return, D!TypeOK, Trying, D!OneOwner
<1>5. ASSUME NEW p \in TempProcess, NEW s \in Suffix, D!rmdir(p, s)
      PROVE  TempInv'
  <2>1. D!TypeOK' /\ Trying'
    BY <1>5 DEF D!rmdir, D!TypeOK, Trying
  <2>2. D!OneOwner'
    BY <1>5 DEF D!rmdir, D!TypeOK, D!OneOwner
  <2> QED
    BY <2>1, <2>2
<1>6. ASSUME NEW s \in Suffix, D!Strangers(s)
      PROVE  TempInv'
  <2>1. D!TypeOK' /\ Trying'
    BY <1>6 DEF D!Strangers, D!TypeOK, Trying
  <2>2. D!OneOwner'
    BY <1>6 DEF D!Strangers, D!TypeOK, D!OneOwner
  <2> QED
    BY <2>1, <2>2
<1>7. CASE UNCHANGED tempVars
  BY <1>7 DEF D!vars, tempVars, D!TypeOK, Trying, D!OneOwner
<1> QED
  BY <1>1, <1>2, <1>3, <1>4, <1>5, <1>6, <1>7 DEF D!Next, D!Steps

LEMMA TempHolds == ProcessSpec => [](part = "tempdir" => TempInv)
<1>1. ProcessInit => (part = "tempdir" => TempInv)
  BY TempInit, ProcessesAssumption DEF ProcessInit
<1>2. ASSUME [ProcessNext]_processVars, part = "tempdir" => TempInv
      PROVE  (part = "tempdir" => TempInv)'
  <2>1. SUFFICES ASSUME part = "tempdir"
                 PROVE  TempInv'
    BY <1>2, PartSteps
  <2> QED
    BY <1>2, <2>1, PartSteps, TempNext, ProcessesAssumption
<1> QED
  BY <1>1, <1>2, PTL DEF ProcessSpec

(* stdlib.c:173 - for any number of processes and attempts, mkdtemp gives  *)
(* no directory to two callers, and what it has given is there.            *)
THEOREM NamesAreOwned == ProcessSpec => []OneOwner
<1>1. (part = "tempdir" => TempInv) => OneOwner
  BY DEF OneOwner, TempInv
<1> QED
  BY <1>1, TempHolds, PTL

------------------------------------------------------------------------------
(* uselocale of src/stubs.c. *)

(* o is alive, and has the name w if the system knows the name it has. *)
Alive(h, o, w) == h[o] # NULL /\ (h[o] \in Known => h[o] = w)

(* What uselocale remembers, and what it returned for a switch.            *)
Current(h, c, p) == c # NULL => Alive(h, c, p)

Good(h, s) == s.old = GLOBAL \/ (s.old \in LocaleObj /\ Alive(h, s.old, s.was))

(* A switch that is not in use yet or no more. *)
Edge(s, c, p) ==
    /\ s.at # "used" => c # s.mine
    /\ s.at = "made" => p = s.was
    /\ s.at = "over" => c = s.old /\ s.old \in LocaleObj

(* Until LC_GLOBAL_LOCALE is given back: the innermost switch alone is not *)
(* in use yet or no more; the objects of the switches are alive and        *)
(* different; what uselocale returned is LC_GLOBAL_LOCALE or is alive, has *)
(* the name that the process had, and is the object of no later switch.    *)
Nested ==
    /\ ~bad /\ Current(heap, current, process)
    /\ \A i \in 1..Len(scopes) :
          LET s == scopes[i] IN
          /\ s.at # "used" => i = Len(scopes)
          /\ Edge(s, current, process)
          /\ heap[s.mine] # NULL
          /\ \A j \in 1..Len(scopes) : i # j => scopes[j].mine # s.mine
          /\ s.at # "made" =>
                /\ Good(heap, s)
                /\ \A j \in i..Len(scopes) : scopes[j].mine # s.old

LocaleInv == L!TypeOK /\ (~undone => Nested)

(* The places of a stack that has one more switch on it. *)
LEMMA OneMore ==
    ASSUME NEW k \in Nat
    PROVE  /\ \A i \in 1..k + 1 : i = k + 1 \/ i \in 1..k
           /\ \A i \in 1..k : \A j \in i..k + 1 : j = k + 1 \/ (j \in 1..k /\ j \in i..k)
OBVIOUS

LEMMA LocaleInit ==
    ASSUME L!LocaleAssumption, L!Init
    PROVE  LocaleInv
<1>1. L!TypeOK
  <2>2. heap \in [LocaleObj -> LocaleName \cup {NULL}] /\ current \in LocaleObj \cup {NULL} /\ process \in Known
    BY Zenon DEF L!Init
  <2>3. scopes = <<>> /\ scopes \in Seq(L!Scope) /\ Len(scopes) = 0
    BY DEF L!Init
  <2>4. Len(scopes) <= MaxDepth
    BY <2>3 DEF L!LocaleAssumption
  <2>5. bad \in BOOLEAN /\ undone \in BOOLEAN
    BY Zenon DEF L!Init
  <2> QED
    BY <2>2, <2>3, <2>4, <2>5, Zenon DEF L!TypeOK
<1>2. Nested
  BY DEF L!Init, Nested, Current
<1> QED
  BY <1>1, <1>2, Zenon DEF LocaleInv

LEMMA TopIs ==
    ASSUME L!TypeOK, scopes # <<>>
    PROVE  /\ Len(scopes) \in 1..Len(scopes) /\ Len(scopes) \in Nat \ {0}
           /\ L!Top = scopes[Len(scopes)] /\ L!Top \in L!Scope
BY DEF L!TypeOK, L!Top

(* A switch that begins. *)
LEMMA LocaleMade ==
    ASSUME L!LocaleAssumption, LocaleInv, NEW o \in LocaleObj, NEW n \in LocaleName,
           ~L!InScope("made"), ~L!InScope("over"), Len(scopes) < MaxDepth, heap[o] = NULL,
           heap' = [heap EXCEPT ![o] = n],
           scopes' = Append(scopes, [mine |-> o, at |-> "made", old |-> NULL, was |-> process]),
           UNCHANGED <<current, process, undone>>, bad' \in BOOLEAN, ~undone => ~bad'
    PROVE  LocaleInv'
<1> DEFINE new == [mine |-> o, at |-> "made", old |-> NULL, was |-> process]
<1>1. L!TypeOK /\ new \in L!Scope
  BY Zenon DEF LocaleInv, L!TypeOK, L!Scope
<1>2. L!TypeOK'
  <2>1. scopes' \in Seq(L!Scope) /\ Len(scopes') = Len(scopes) + 1
    BY <1>1 DEF L!TypeOK
  <2>2. Len(scopes') <= MaxDepth
    BY <1>1, <2>1 DEF L!TypeOK, L!LocaleAssumption
  <2>3. heap' \in [LocaleObj -> LocaleName \cup {NULL}]
    BY <1>1, Zenon DEF L!TypeOK
  <2> QED
    BY <1>1, <2>1, <2>2, <2>3, Zenon DEF L!TypeOK
<1>3. ASSUME ~undone'
      PROVE  Nested'
  <2> DEFINE k == Len(scopes)
  <2>1. k \in Nat /\ Len(scopes') = k + 1 /\ scopes'[k + 1] = new /\ \A i \in 1..k : scopes'[i] = scopes[i]
    BY <1>1 DEF L!TypeOK
  <2>2. Nested
    BY <1>3, Zenon DEF LocaleInv
  <2>3. \A i \in 1..k : scopes[i] \in L!Scope
    BY <1>1 DEF L!TypeOK
  <2>4. \A x \in LocaleObj : heap[x] # NULL => x # o /\ heap'[x] = heap[x]
    BY <1>1, Zenon DEF L!TypeOK
  <2>5. heap'[o] = n /\ n # NULL
    BY <1>1, Zenon DEF L!TypeOK, L!LocaleAssumption
  <2>6. \A i \in 1..k : scopes[i].at = "used"
    <3> SUFFICES ASSUME NEW i \in 1..k, scopes[i].at # "used"
                 PROVE  FALSE
      BY Zenon
    <3>1. i = k /\ scopes # <<>>
      BY <2>2, <1>1 DEF Nested, L!TypeOK
    <3>2. L!Top = scopes[i] /\ scopes[i].at \in {"made", "used", "over"}
      BY <3>1, <2>3, Zenon DEF L!Top, L!Scope
    <3> QED
      BY <3>1, <3>2, Zenon DEF L!InScope
  <2>7. current # o /\ Current(heap', current, process)
    BY <1>1, <2>2, <2>4, Zenon DEF L!TypeOK, Nested, Current, Alive, L!LocaleAssumption
  <2> HIDE DEF k
  <2>8. ASSUME NEW i \in 1..k
        PROVE  /\ heap'[scopes[i].mine] # NULL /\ scopes[i].mine # o
               /\ \A j \in 1..k : i # j => scopes[j].mine # scopes[i].mine
               /\ Good(heap', scopes[i]) /\ scopes[i].old # o
               /\ \A j \in i..k : scopes[j].mine # scopes[i].old
    <3>1. scopes[i].mine \in LocaleObj /\ o # GLOBAL
      BY <2>3, Zenon DEF L!Scope, L!LocaleAssumption
    <3>2. /\ heap[scopes[i].mine] # NULL
          /\ \A j \in 1..k : i # j => scopes[j].mine # scopes[i].mine
          /\ Good(heap, scopes[i])
          /\ \A j \in i..k : scopes[j].mine # scopes[i].old
      BY <2>2, <2>6, Zenon DEF Nested, k
    <3> QED
      BY <2>4, <3>1, <3>2, Zenon DEF Good, Alive
  <2>a. UNCHANGED <<current, process>> /\ ~bad' /\ Current(heap', current', process')
    BY <1>3, <2>7, Zenon
  <2>b. PICK m \in Nat : m = k + 1 /\ Len(scopes') = m
    BY <2>1
  <2>c. /\ scopes'[m] = new /\ \A i \in 1..m : i = m \/ i \in 1..k
        /\ \A i \in 1..k : \A j \in i..m : j = m \/ (j \in 1..k /\ j \in i..k)
    BY <2>1, <2>b, OneMore, Zenon
  <2>9. ASSUME NEW i \in 1..m
        PROVE  LET s == scopes'[i] IN
               /\ (s.at # "used" => i = m) /\ Edge(s, current', process')
               /\ heap'[s.mine] # NULL
               /\ \A j \in 1..m : i # j => scopes'[j].mine # s.mine
               /\ s.at # "made" =>
                     /\ Good(heap', s)
                     /\ \A j \in i..m : scopes'[j].mine # s.old
    <3>1. CASE i = m
      <4>1. \A j \in 1..m : i # j => j \in 1..k
        BY <2>c, <3>1, Zenon
      <4>2. scopes'[i] = new /\ new.mine = o /\ new.at = "made" /\ new.was = process
        BY <2>c, <3>1, Zenon
      <4>3. \A j \in 1..k : scopes'[j].mine # o
        BY <2>1, <2>8, Zenon
      <4> QED
        BY <2>5, <2>7, <2>a, <3>1, <4>1, <4>2, <4>3, Zenon DEF Edge
    <3>2. CASE i \in 1..k
      <4>1. \A j \in 1..m : j \in 1..k \/ j = m
        BY <2>c, Zenon
      <4>2. \A j \in i..m : j = m \/ (j \in 1..k /\ j \in i..k)
        BY <2>c, <3>2, Zenon
      <4>3. scopes'[i] = scopes[i] /\ scopes[i].at = "used"
        BY <2>1, <2>6, <3>2, Zenon
      <4>n. new.mine = o
        OBVIOUS
      <4> HIDE DEF new
      <4>m. scopes'[m].mine = o /\ \A j \in 1..k : scopes'[j].mine = scopes[j].mine
        BY <2>1, <2>c, <4>n, Zenon
      <4>o. /\ \A j \in 1..k : i # j => scopes[j].mine # scopes[i].mine
            /\ \A j \in i..k : scopes[j].mine # scopes[i].old
            /\ scopes[i].mine # o /\ scopes[i].old # o
        BY <2>8, <3>2, Zenon
      <4>4. \A j \in 1..m : i # j => scopes'[j].mine # scopes[i].mine
        BY <4>1, <4>m, <4>o, Zenon
      <4>5. \A j \in i..m : scopes'[j].mine # scopes[i].old
        BY <4>2, <4>m, <4>o, Zenon
      <4> QED
        BY <2>8, <3>2, <4>3, <4>4, <4>5, ZenonT(60) DEF Edge
    <3> QED
      BY <2>c, <3>1, <3>2, Zenon
  <2> QED
    <3>1. ~bad' /\ Current(heap', current', process') /\ 1..Len(scopes') = 1..m /\ Len(scopes') = m
      BY <2>a, <2>b, Zenon
    <3> QED
      BY <2>9, <3>1, ZenonT(60) DEF Nested
<1> QED
  BY <1>2, <1>3, Zenon DEF LocaleInv

(* A switch that is over or was not begun ends, and its object is freed. *)
LEMMA LocaleFreed ==
    ASSUME L!LocaleAssumption, LocaleInv, L!InScope("made") \/ L!InScope("over"),
           heap' = [heap EXCEPT ![L!Top.mine] = NULL],
           scopes' = SubSeq(scopes, 1, Len(scopes) - 1),
           UNCHANGED <<current, process, bad, undone>>
    PROVE  LocaleInv'
<1> DEFINE k == Len(scopes)
<1>1. L!TypeOK /\ scopes # <<>> /\ L!Top.at # "used"
  BY Zenon DEF LocaleInv, L!InScope
<1>2. k \in Nat \ {0} /\ L!Top = scopes[k] /\ L!Top \in L!Scope /\ L!Top.mine \in LocaleObj /\ k \in 1..k
  BY <1>1, TopIs, Zenon DEF L!Scope
<1>a. \A i \in 1..k : scopes[i] \in L!Scope
  BY <1>1 DEF L!TypeOK
<1>b. PICK n \in Nat : n = k - 1 /\ n <= Len(scopes)
  BY <1>2
<1>c. /\ SubSeq(scopes, 1, n) \in Seq(L!Scope) /\ Len(SubSeq(scopes, 1, n)) = n
      /\ \A i \in 1..n : SubSeq(scopes, 1, n)[i] = scopes[i]
  BY <1>1, <1>b DEF L!TypeOK
<1>3. scopes' \in Seq(L!Scope) /\ Len(scopes') = n /\ \A i \in 1..n : scopes'[i] = scopes[i]
  BY <1>1, <1>b, <1>c, Zenon
<1>4. L!TypeOK'
  <2>1. heap' \in [LocaleObj -> LocaleName \cup {NULL}]
    BY <1>1, <1>2, Zenon DEF L!TypeOK
  <2>2. Len(scopes') <= MaxDepth
    BY <1>1, <1>2, <1>3, <1>b DEF L!TypeOK, L!LocaleAssumption
  <2> QED
    BY <1>1, <1>3, <2>1, <2>2, Zenon DEF L!TypeOK
<1>5. ASSUME ~undone'
      PROVE  Nested'
  <2>1. Nested
    BY <1>5, Zenon DEF LocaleInv
  <2>2. \A x \in LocaleObj : x # L!Top.mine => heap'[x] = heap[x]
    BY <1>1, Zenon DEF L!TypeOK
  <2>3. current # L!Top.mine
    BY <1>1, <1>2, <2>1, Zenon DEF Nested, Edge
  <2>4. \A i \in 1..n : i \in 1..k /\ i # k /\ k \in i..k
    BY <1>2, <1>b
  <2>5. ASSUME NEW i \in 1..n
        PROVE  LET s == scopes[i] IN
               /\ s.at = "used"
               /\ heap'[s.mine] # NULL
               /\ \A j \in 1..n : i # j => scopes[j].mine # s.mine
               /\ Good(heap', s)
               /\ \A j \in i..n : scopes[j].mine # s.old
    <3>1. scopes[i] \in L!Scope /\ scopes[i].mine \in LocaleObj
      BY <1>a, <2>4, Zenon DEF L!Scope
    <3>2. /\ scopes[i].at = "used" /\ heap[scopes[i].mine] # NULL
          /\ \A j \in 1..k : i # j => scopes[j].mine # scopes[i].mine
          /\ Good(heap, scopes[i])
          /\ \A j \in i..k : scopes[j].mine # scopes[i].old
      BY <2>1, <2>4, Zenon DEF Nested
    <3>3. scopes[i].mine # L!Top.mine /\ scopes[i].old # L!Top.mine
      BY <1>2, <2>4, <3>2, Zenon
    <3>4. \A j \in i..n : j \in i..k
      BY <1>2, <1>b
    <3> QED
      BY <2>2, <2>4, <3>1, <3>2, <3>3, <3>4, Zenon DEF Good, Alive
  <2>6. \A i \in 1..n : \A j \in i..n : j \in 1..n
    BY <1>b
  <2>7. ~bad' /\ Current(heap', current', process')
    BY <1>1, <2>1, <2>2, <2>3, Zenon DEF Nested, Current, Alive, L!TypeOK
  <2> HIDE DEF k
  <2>8. UNCHANGED <<current, process>>
    BY <1>1, Zenon
  <2>9. ASSUME NEW i \in 1..n
        PROVE  LET s == scopes'[i] IN
               /\ (s.at # "used" => i = n) /\ Edge(s, current', process')
               /\ heap'[s.mine] # NULL
               /\ \A j \in 1..n : i # j => scopes'[j].mine # s.mine
               /\ s.at # "made" =>
                     /\ Good(heap', s)
                     /\ \A j \in i..n : scopes'[j].mine # s.old
    <3>1. scopes'[i] = scopes[i] /\ scopes[i].at = "used" /\ \A j \in 1..n : scopes'[j].mine = scopes[j].mine
      BY <1>3, <2>5, Zenon
    <3>2. Edge(scopes'[i], current', process')
      BY <3>1, Zenon DEF Edge
    <3> QED
      BY <2>5, <2>6, <3>1, <3>2, Zenon
  <2> QED
    BY <1>3, <2>7, <2>9, ZenonT(60) DEF Nested
<1> QED
  BY <1>4, <1>5, Zenon DEF LocaleInv

(* The caller makes its new object from the one it has not used yet. *)
LEMMA LocaleBased ==
    ASSUME L!LocaleAssumption, LocaleInv, NEW o \in LocaleObj, NEW n \in LocaleName, L!newlocale_base(o, n)
    PROVE  LocaleInv'
<1> DEFINE k == Len(scopes)
           freed == [heap EXCEPT ![L!Top.mine] = NULL]
<1>1. L!TypeOK /\ scopes # <<>> /\ L!Top.at = "made"
  BY Zenon DEF LocaleInv, L!newlocale_base, L!InScope
<1>2. k \in Nat \ {0} /\ L!Top = scopes[k] /\ L!Top \in L!Scope /\ L!Top.mine \in LocaleObj /\ k \in 1..k
  BY <1>1, TopIs, Zenon DEF L!Scope
<1>3. /\ freed[o] = NULL /\ heap' = [freed EXCEPT ![o] = n] /\ UNCHANGED <<current, process, bad, undone>>
      /\ scopes' = [scopes EXCEPT ![k].mine = o]
  BY Zenon DEF L!newlocale_base
<1>4. [L!Top EXCEPT !.mine = o] \in L!Scope
  BY <1>2, Zenon DEF L!Scope
<1>a. \A i \in 1..k : scopes[i] \in L!Scope
  BY <1>1 DEF L!TypeOK
<1>b. PICK new \in L!Scope : new = [L!Top EXCEPT !.mine = o]
  BY <1>4, Zenon
<1>c. scopes' = [scopes EXCEPT ![k] = new]
  BY <1>2, <1>3, <1>b, Zenon
<1>d. scopes' \in Seq(L!Scope) /\ Len(scopes') = k
  BY <1>1, <1>2, <1>c DEF L!TypeOK
<1>e. scopes'[k] = new /\ \A i \in 1..k : i # k => scopes'[i] = scopes[i]
  BY <1>1, <1>2, <1>c DEF L!TypeOK
<1>5. /\ scopes' \in Seq(L!Scope) /\ Len(scopes') = k /\ scopes'[k] = [L!Top EXCEPT !.mine = o]
      /\ \A i \in 1..k : i # k => scopes'[i] = scopes[i]
  BY <1>b, <1>d, <1>e, Zenon
<1>6. freed \in [LocaleObj -> LocaleName \cup {NULL}] /\ heap' \in [LocaleObj -> LocaleName \cup {NULL}]
  BY <1>1, <1>2, <1>3, Zenon DEF L!TypeOK
<1>7. L!TypeOK'
  BY <1>1, <1>3, <1>5, <1>6, Zenon DEF L!TypeOK
<1>8. ASSUME ~undone'
      PROVE  Nested'
  <2>1. Nested
    BY <1>3, <1>8, Zenon DEF LocaleInv
  <2>2. heap'[o] = n /\ n # NULL /\ (o = L!Top.mine \/ heap[o] = NULL)
    BY <1>1, <1>2, <1>3, <1>6, Zenon DEF L!TypeOK, L!LocaleAssumption
  <2>3. \A x \in LocaleObj : x # L!Top.mine /\ heap[x] # NULL => x # o /\ heap'[x] = heap[x]
    BY <1>1, <1>2, <1>3, <1>6, <2>2, Zenon DEF L!TypeOK
  <2>a. current # L!Top.mine /\ process = L!Top.was
    BY <1>1, <1>2, <2>1, Zenon DEF Nested, Edge
  <2>4. current # o /\ Current(heap', current, process) /\ process = L!Top.was
    <3>1. CASE current = NULL
      BY <2>a, <3>1, Zenon DEF Current, L!LocaleAssumption
    <3>2. CASE current # NULL
      <4>1. current \in LocaleObj /\ Alive(heap, current, process)
        BY <1>1, <2>1, <3>2, Zenon DEF Nested, Current, L!TypeOK
      <4>2. current # o /\ heap'[current] = heap[current]
        BY <2>3, <2>a, <4>1, Zenon DEF Alive
      <4> QED
        BY <2>a, <4>1, <4>2, Zenon DEF Alive, Current
    <3> QED
      BY <3>1, <3>2, Zenon
  <2>5. /\ scopes'[k].mine = o /\ scopes'[k].at = "made" /\ scopes'[k].was = L!Top.was
    BY <1>1, <1>2, <1>5, Zenon DEF L!Scope
  <2>6. \A i \in 1..k : i # k => i \in 1..k - 1 /\ k \in i..k
    BY <1>2
  <2>7. ASSUME NEW i \in 1..k, i # k
        PROVE  LET s == scopes[i] IN
               /\ s.at = "used"
               /\ heap'[s.mine] # NULL /\ s.mine # o /\ s.old # o
               /\ \A j \in 1..k : i # j => scopes[j].mine # s.mine
               /\ Good(heap', s)
               /\ \A j \in i..k : scopes[j].mine # s.old
    <3>1. scopes[i] \in L!Scope /\ scopes[i].mine \in LocaleObj /\ o # GLOBAL
      BY <1>a, <2>7, Zenon DEF L!Scope, L!LocaleAssumption
    <3>2. /\ scopes[i].at = "used" /\ heap[scopes[i].mine] # NULL
          /\ \A j \in 1..k : i # j => scopes[j].mine # scopes[i].mine
          /\ Good(heap, scopes[i])
          /\ \A j \in i..k : scopes[j].mine # scopes[i].old
      BY <2>1, <2>7, Zenon DEF Nested
    <3>3. scopes[i].mine # L!Top.mine /\ scopes[i].old # L!Top.mine
      BY <1>2, <2>6, <2>7, <3>2, Zenon
    <3> QED
      BY <2>3, <3>1, <3>2, <3>3, Zenon DEF Good, Alive
  <2>8. \A i \in 1..k : \A j \in i..k : j \in 1..k
    BY <1>2
  <2>9. ~bad' /\ Current(heap', current', process')
    BY <1>3, <2>1, <2>4, Zenon DEF Nested
  <2>b. 1..Len(scopes') = 1..k /\ Len(scopes') = k
    BY <1>5, Zenon
  <2> HIDE DEF k, freed
  <2>10. ASSUME NEW i \in 1..k
         PROVE  LET s == scopes'[i] IN
                /\ (s.at # "used" => i = k) /\ Edge(s, current', process')
                /\ heap'[s.mine] # NULL
                /\ \A j \in 1..k : i # j => scopes'[j].mine # s.mine
                /\ s.at # "made" =>
                      /\ Good(heap', s)
                      /\ \A j \in i..k : scopes'[j].mine # s.old
    <3>1. CASE i = k
      <4>1. \A j \in 1..k : j # k => scopes'[j].mine # o
        BY <1>5, <2>7, Zenon
      <4> QED
        BY <1>3, <2>2, <2>4, <2>5, <3>1, <4>1, Zenon DEF Edge
    <3>2. CASE i # k
      <4>1. scopes'[i] = scopes[i]
        BY <1>5, <3>2, Zenon
      <4>a. /\ scopes[i].mine # o /\ scopes[i].old # o
            /\ \A j \in 1..k : i # j => scopes[j].mine # scopes[i].mine
            /\ \A j \in i..k : scopes[j].mine # scopes[i].old
        BY <2>7, <3>2, Zenon
      <4>b. \A j \in 1..k : scopes'[j].mine = IF j = k THEN o ELSE scopes[j].mine
        BY <1>5, <2>5, Zenon
      <4>2. \A j \in 1..k : i # j => scopes'[j].mine # scopes[i].mine
        BY <4>a, <4>b, Zenon
      <4>3. \A j \in i..k : scopes'[j].mine # scopes[i].old
        BY <2>8, <4>a, <4>b, Zenon
      <4>4. scopes[i].at = "used" /\ heap'[scopes[i].mine] # NULL
            /\ Good(heap', scopes[i])
        BY <2>7, <3>2, Zenon
      <4> QED
        BY <4>1, <4>2, <4>3, <4>4, Zenon DEF Edge
    <3> QED
      BY <3>1, <3>2, Zenon
  <2> QED
    BY <1>5, <2>9, <2>10, <2>b, ZenonT(60) DEF Nested
<1> QED
  BY <1>7, <1>8, Zenon DEF LocaleInv

(* uselocale, there and back: how far the innermost switch is changes, and *)
(* what uselocale returned for it may.                                     *)
LEMMA LocaleUsed ==
    ASSUME L!LocaleAssumption, LocaleInv, L!uselocale
    PROVE  LocaleInv'
<1> DEFINE k == Len(scopes)
           old == IF current = NULL THEN GLOBAL ELSE current
<1>1. L!TypeOK /\ scopes # <<>> /\ L!Top.at = "made"
  BY Zenon DEF LocaleInv, L!uselocale, L!InScope
<1>2. k \in Nat \ {0} /\ L!Top = scopes[k] /\ L!Top \in L!Scope /\ L!Top.mine \in LocaleObj /\ k \in 1..k
  BY <1>1, TopIs, Zenon DEF L!Scope
<1>3. /\ L!Use(L!Top.mine) /\ heap' = heap /\ undone' = undone
      /\ scopes' = [scopes EXCEPT ![k].at = "used", ![k].old = old]
  BY Zenon DEF L!uselocale
<1>4. old \in LocaleObj \cup {NULL, GLOBAL}
  BY <1>1, Zenon DEF L!TypeOK
<1>5. PICK new \in L!Scope : new = [L!Top EXCEPT !.at = "used", !.old = old]
  BY <1>2, <1>4, Zenon DEF L!Scope
<1>6. /\ new.at = "used" /\ new.old = old /\ new.mine = L!Top.mine /\ new.was = L!Top.was
  BY <1>2, <1>5, Zenon DEF L!Scope
<1>7. scopes' = [scopes EXCEPT ![k] = new]
  BY <1>1, <1>2, <1>3, <1>5, Zenon DEF L!TypeOK
<1> HIDE DEF old
<1>8. scopes' \in Seq(L!Scope) /\ Len(scopes') = k
  BY <1>1, <1>2, <1>7 DEF L!TypeOK
<1>9. scopes'[k] = new /\ \A i \in 1..k : i # k => scopes'[i] = scopes[i]
  BY <1>1, <1>2, <1>7 DEF L!TypeOK
<1>10. L!Top.mine # GLOBAL
  BY <1>2, Zenon DEF L!LocaleAssumption
<1>11. /\ current' = L!Top.mine /\ bad' = (bad \/ heap[L!Top.mine] = NULL) /\ process' \in Known
       /\ heap[L!Top.mine] # NULL /\ heap[L!Top.mine] \in Known => process' = heap[L!Top.mine]
  <2>1. PICK n \in LocaleName :
          (heap[L!Top.mine] # NULL => n = heap[L!Top.mine]) /\ process' = IF n \in Known THEN n ELSE process
    BY <1>3, <1>10, Zenon DEF L!Use
  <2> QED
    BY <1>1, <1>3, <1>10, <2>1, Zenon DEF L!Use, L!TypeOK
<1>12. bad' \in BOOLEAN
  BY <1>11, Zenon
<1>13. L!TypeOK'
  BY <1>1, <1>2, <1>3, <1>8, <1>11, <1>12, Zenon DEF L!TypeOK
<1>14. ASSUME ~undone'
       PROVE  Nested'
  <2>1. Nested
    BY <1>3, <1>14, Zenon DEF LocaleInv
  <2>3. current # L!Top.mine /\ process = L!Top.was /\ heap[L!Top.mine] # NULL
    BY <1>1, <1>2, <2>1, Zenon DEF Nested, Edge
  <2>2. old # L!Top.mine /\ Good(heap, new)
    BY <1>1, <1>6, <1>10, <2>1, <2>3, Zenon DEF Nested, Current, Good, L!TypeOK, old
  <2>4. ~bad' /\ Current(heap', current', process')
    BY <1>2, <1>3, <1>11, <2>1, <2>3, Zenon DEF Nested, Current, Alive
  <2>5. \A i \in 1..k : scopes'[i].mine = scopes[i].mine
    BY <1>2, <1>6, <1>9, Zenon
  <2>6. \A i \in 1..k : \A j \in i..k : j \in 1..k
    BY <1>2
  <2> HIDE DEF k
  <2>7. ASSUME NEW i \in 1..k
        PROVE  LET s == scopes'[i] IN
               /\ s.at = "used"
               /\ heap[s.mine] # NULL
               /\ \A j \in 1..k : i # j => scopes'[j].mine # s.mine
               /\ Good(heap, s)
               /\ \A j \in i..k : scopes'[j].mine # s.old
    <3>1. heap[scopes[i].mine] # NULL /\ \A j \in 1..k : i # j => scopes[j].mine # scopes[i].mine
      BY <2>1, Zenon DEF Nested, k
    <3>2. CASE i = k
      <4>1. \A j \in k..k : j = k
        BY <1>2
      <4> QED
        BY <1>2, <1>6, <1>9, <2>2, <2>3, <2>5, <3>1, <3>2, <4>1, ZenonT(60)
    <3>3. CASE i # k
      <4>1. /\ scopes[i].at = "used" /\ Good(heap, scopes[i])
            /\ \A j \in i..k : scopes[j].mine # scopes[i].old
        BY <2>1, <3>3, Zenon DEF Nested, k
      <4> QED
        BY <1>9, <2>5, <2>6, <3>1, <3>3, <4>1, Zenon
    <3> QED
      BY <3>2, <3>3, Zenon
  <2>8. 1..Len(scopes') = 1..k /\ Len(scopes') = k /\ heap' = heap
    BY <1>3, <1>8, Zenon DEF k
  <2> QED
    BY <2>4, <2>7, <2>8, Zenon DEF Nested, Edge
<1> QED
  BY <1>13, <1>14, Zenon DEF LocaleInv

LEMMA LocaleBack ==
    ASSUME L!LocaleAssumption, LocaleInv, L!uselocale_back
    PROVE  LocaleInv'
<1> DEFINE k == Len(scopes)
<1>1. L!TypeOK /\ scopes # <<>> /\ L!Top.at = "used"
  BY Zenon DEF LocaleInv, L!uselocale_back, L!InScope
<1>2. k \in Nat \ {0} /\ L!Top = scopes[k] /\ L!Top \in L!Scope /\ L!Top.mine \in LocaleObj /\ k \in 1..k
  BY <1>1, TopIs, Zenon DEF L!Scope
<1>3. /\ L!Use(L!Top.old) /\ heap' = heap /\ undone' = (undone \/ L!Top.old = GLOBAL)
      /\ L!Top.old \in LocaleObj \cup {NULL, GLOBAL}
      /\ scopes' = [scopes EXCEPT ![k].at = "over"]
  BY <1>2, Zenon DEF L!uselocale_back, L!Scope
<1>5. PICK new \in L!Scope : new = [L!Top EXCEPT !.at = "over"]
  BY <1>2, Zenon DEF L!Scope
<1>6. /\ new.at = "over" /\ new.old = L!Top.old /\ new.mine = L!Top.mine /\ new.was = L!Top.was
  BY <1>2, <1>5, Zenon DEF L!Scope
<1>7. scopes' = [scopes EXCEPT ![k] = new]
  BY <1>1, <1>2, <1>3, <1>5, Zenon DEF L!TypeOK
<1>8. scopes' \in Seq(L!Scope) /\ Len(scopes') = k
  BY <1>1, <1>2, <1>7 DEF L!TypeOK
<1>9. scopes'[k] = new /\ \A i \in 1..k : i # k => scopes'[i] = scopes[i]
  BY <1>1, <1>2, <1>7 DEF L!TypeOK
<1>10. process' \in Known /\ current' \in LocaleObj \cup {NULL} /\ bad' \in BOOLEAN /\ undone' \in BOOLEAN
  <2>1. CASE L!Top.old = GLOBAL
    BY <1>1, <1>3, <2>1, Zenon DEF L!Use, L!TypeOK
  <2>2. CASE L!Top.old # GLOBAL
    <3>2. PICK n \in LocaleName : process' = IF n \in Known THEN n ELSE process
      BY <1>3, <2>2, Zenon DEF L!Use
    <3>1. current' = L!Top.old /\ process' \in Known /\ bad' = (bad \/ heap[L!Top.old] = NULL)
      BY <1>1, <1>3, <2>2, <3>2, Zenon DEF L!Use, L!TypeOK
    <3> QED
      BY <1>3, <2>2, <3>1, Zenon
  <2> QED
    BY <2>1, <2>2, Zenon
<1>11. L!TypeOK'
  BY <1>1, <1>3, <1>8, <1>10, Zenon DEF L!TypeOK
<1>12. ASSUME ~undone'
       PROVE  Nested'
  <2>1. Nested
    BY <1>3, <1>12, Zenon DEF LocaleInv
  <2>2. /\ L!Top.old # GLOBAL /\ L!Top.old \in LocaleObj
        /\ heap[L!Top.old] # NULL /\ L!Top.mine # L!Top.old
    <3>1. k \in k..k
      BY <1>2
    <3>2. L!Top.old # GLOBAL
      BY <1>12, Zenon DEF L!uselocale_back
    <3>3. Good(heap, L!Top) /\ L!Top.mine # L!Top.old
      BY <1>1, <1>2, <2>1, <3>1, Zenon DEF Nested
    <3> QED
      BY <3>2, <3>3, Zenon DEF Good, Alive
  <2>3. current' = L!Top.old /\ ~bad' /\ (heap[L!Top.old] \in Known => process' = heap[L!Top.old])
    BY <1>3, <2>1, <2>2, Zenon DEF L!Use, Nested
  <2>4. ~bad' /\ Current(heap', current', process')
    BY <1>3, <2>2, <2>3, Zenon DEF Current, Alive
  <2>5. \A i \in 1..k :
          /\ scopes'[i].mine = scopes[i].mine /\ scopes'[i].old = scopes[i].old
          /\ scopes'[i].was = scopes[i].was
    BY <1>2, <1>6, <1>9, Zenon
  <2>6. \A i \in 1..k : \A j \in i..k : j \in 1..k
    BY <1>2
  <2> HIDE DEF k
  <2>7. ASSUME NEW i \in 1..k
        PROVE  LET s == scopes'[i] IN
               /\ (s.at # "used" => i = k) /\ Edge(s, current', process')
               /\ heap[s.mine] # NULL
               /\ \A j \in 1..k : i # j => scopes'[j].mine # s.mine
               /\ Good(heap, s)
               /\ \A j \in i..k : scopes'[j].mine # s.old
    <3>1. heap[scopes[i].mine] # NULL /\ \A j \in 1..k : i # j => scopes[j].mine # scopes[i].mine
      BY <2>1, Zenon DEF Nested, k
    <3>2. scopes[i].at = "used"
      BY <1>1, <1>2, <2>1, Zenon DEF Nested, k
    <3>3. /\ Good(heap, scopes[i])
          /\ \A j \in i..k : scopes[j].mine # scopes[i].old
      BY <2>1, <3>2, Zenon DEF Nested, k
    <3>4. (scopes'[i].at # "used" => i = k) /\ Edge(scopes'[i], current', process')
      BY <1>2, <1>6, <1>9, <2>2, <2>3, <3>2, Zenon DEF Edge
    <3>5. Good(heap, scopes'[i])
      BY <2>5, <3>3, Zenon DEF Good
    <3> QED
      BY <2>5, <2>6, <3>1, <3>3, <3>4, <3>5, Zenon
  <2>8. 1..Len(scopes') = 1..k /\ Len(scopes') = k /\ heap' = heap
    BY <1>3, <1>8, Zenon DEF k
  <2> QED
    BY <2>4, <2>7, <2>8, Zenon DEF Nested
<1> QED
  BY <1>11, <1>12, Zenon DEF LocaleInv

LEMMA LocaleNext ==
    ASSUME L!LocaleAssumption, LocaleInv, [L!Next]_localeVars
    PROVE  LocaleInv'
<1>1. ASSUME NEW o \in LocaleObj, L!duplocale(o)
      PROVE  LocaleInv'
  <2> DEFINE l == IF current = NULL THEN GLOBAL ELSE current
  <2>1. ~undone => ~(l # GLOBAL /\ heap[l] = NULL) /\ ~bad
    BY Zenon DEF LocaleInv, Nested, Current, Alive
  <2>2. bad' \in BOOLEAN /\ (~undone => ~bad')
    BY <1>1, <2>1, Zenon DEF L!duplocale
  <2>3. PICK n \in LocaleName :
          /\ heap' = [heap EXCEPT ![o] = n]
          /\ scopes' = Append(scopes, [mine |-> o, at |-> "made", old |-> NULL, was |-> process])
    BY <1>1, Zenon DEF L!duplocale
  <2> QED
    BY <1>1, <2>2, <2>3, LocaleMade, Zenon DEF L!duplocale
<1>2. ASSUME NEW o \in LocaleObj, NEW n \in LocaleName, L!newlocale(o, n)
      PROVE  LocaleInv'
  <2>1. bad' \in BOOLEAN /\ (~undone => ~bad')
    BY <1>2, Zenon DEF L!newlocale, LocaleInv, L!TypeOK, Nested
  <2> QED
    BY <1>2, <2>1, LocaleMade, Zenon DEF L!newlocale
<1>3. CASE L!newlocale_base_fails
  BY <1>3, LocaleFreed, Zenon DEF L!newlocale_base_fails
<1>4. CASE L!freelocale
  BY <1>4, LocaleFreed, Zenon DEF L!freelocale
<1>5. CASE UNCHANGED localeVars
  BY <1>5, Zenon DEF localeVars, LocaleInv, L!TypeOK, Nested
<1> QED
  BY <1>1, <1>2, <1>3, <1>4, <1>5, LocaleBased, LocaleUsed, LocaleBack, Zenon DEF L!Next

LEMMA LocaleFacts ==
    ASSUME L!LocaleAssumption, LocaleInv
    PROVE  L!TypeOK /\ L!SwitchedBack
<1>1. ASSUME ~undone, L!InScope("over"), heap[L!Top.old] \in Known
      PROVE  process = L!Top.was
  <2>1. Nested /\ L!TypeOK /\ scopes # <<>> /\ L!Top.at = "over"
    BY <1>1, Zenon DEF LocaleInv, L!InScope
  <2>2. Len(scopes) \in 1..Len(scopes) /\ L!Top = scopes[Len(scopes)]
    BY <2>1, TopIs, Zenon
  <2>3. /\ current = L!Top.old /\ L!Top.old \in LocaleObj
        /\ Good(heap, L!Top) /\ Current(heap, current, process)
    BY <2>1, <2>2, Zenon DEF Nested, Edge
  <2>4. L!Top.old # GLOBAL /\ L!Top.old # NULL
    BY <2>3, Zenon DEF L!LocaleAssumption
  <2> QED
    BY <1>1, <2>3, <2>4, Zenon DEF Good, Current, Alive
<1>2. ~undone => /\ ~bad
                 /\ current # NULL => heap[current] # NULL
                 /\ current # NULL /\ heap[current] \in Known => heap[current] = process
  BY Zenon DEF LocaleInv, Nested, Current, Alive
<1> QED
  BY <1>1, <1>2, Zenon DEF LocaleInv, L!SwitchedBack

LEMMA LocaleHolds == ProcessSpec => [](part = "locale" => LocaleInv)
<1>1. ProcessInit => (part = "locale" => LocaleInv)
  BY LocaleInit, ProcessesAssumption DEF ProcessInit
<1>2. ASSUME [ProcessNext]_processVars, part = "locale" => LocaleInv
      PROVE  (part = "locale" => LocaleInv)'
  <2>1. SUFFICES ASSUME part = "locale"
                 PROVE  LocaleInv'
    BY <1>2, PartSteps
  <2> QED
    BY <1>2, <2>1, PartSteps, LocaleNext, ProcessesAssumption
<1> QED
  BY <1>1, <1>2, PTL DEF ProcessSpec

(* stubs.c:44 - until the program gives LC_GLOBAL_LOCALE back, old =       *)
(* uselocale(l) ... uselocale(old) brings back the locale the process had  *)
(* if the system knows it, however such switches nest, and no freed        *)
(* locale_t is used.                                                       *)
THEOREM SwitchesComeBack == ProcessSpec => []SwitchedBack
<1>1. (part = "locale" => LocaleInv) => SwitchedBack
  BY LocaleFacts, ProcessesAssumption DEF SwitchedBack
<1> QED
  BY <1>1, LocaleHolds, PTL

------------------------------------------------------------------------------
(* The proofs about AtomicFences and Random, which go by the definitions   *)
(* that Processes goes by.                                                 *)
F == INSTANCE SharedStateProofs WITH Thread <- Cpu, pc <- cpu_pc, Caller <- Thread

LEMMA SameFences ==
    /\ F!FenceAssumption <=> B!FenceAssumption
    /\ F!Init <=> B!Init
    /\ F!Next <=> B!Next
    /\ F!FullFence <=> B!FullFence
    /\ F!Publication <=> B!Publication
    /\ F!LockedTotal <=> B!LockedTotal
    /\ [B!Next]_fenceVars => [F!Next]_(F!vars)
<1>1. F!FenceAssumption <=> B!FenceAssumption
  BY DEF F!FenceAssumption, B!FenceAssumption, F!IsFiniteSet, B!IsFiniteSet
<1>2. F!Init <=> B!Init
  BY DEF F!Init, B!Init, F!Loc, B!Loc
<1>3. F!Next <=> B!Next
  BY DEF F!Next, B!Next, F!vars, B!vars, F!Drain, B!Drain, F!atomic_store_4, B!atomic_store_4,
         F!sync_synchronize, B!sync_synchronize, F!atomic_load_4, B!atomic_load_4,
         F!sst_stripe_lock, B!sst_stripe_lock, F!fetch, B!fetch, F!add, B!add, F!sst_stripe_unlock,
         B!sst_stripe_unlock, F!machine, B!machine, F!Ready, B!Ready, F!Without, B!Without, F!Goto,
         B!Goto, F!sst_store_barrier, B!sst_store_barrier, F!Put, B!Put, F!Load, B!Load, F!Stores,
         B!Stores, F!BARRIER, B!BARRIER
<1>4. F!FullFence <=> B!FullFence
  BY DEF F!FullFence, B!FullFence, F!LoadedFlag, B!LoadedFlag
<1>5. F!Publication <=> B!Publication
  BY DEF F!Publication, B!Publication, F!LoadedData, B!LoadedData, F!LoadedFlag, B!LoadedFlag
<1>6. F!LockedTotal <=> B!LockedTotal
  BY DEF F!LockedTotal, B!LockedTotal, F!Cardinality, B!Cardinality, F!IsFiniteSet, B!IsFiniteSet
<1>7. UNCHANGED fenceVars => UNCHANGED F!vars
  BY DEF F!vars, F!machine, fenceVars
<1> QED
  BY <1>1, <1>2, <1>3, <1>4, <1>5, <1>6, <1>7

LEMMA FencesHold == ProcessSpec => [](part = "fences" => F!FenceInv)
<1>1. ProcessInit => (part = "fences" => F!FenceInv)
  BY SameFences, F!FenceInit, ProcessesAssumption DEF ProcessInit
<1>2. ASSUME [ProcessNext]_processVars, part = "fences" => F!FenceInv
      PROVE  (part = "fences" => F!FenceInv)'
  <2>1. SUFFICES ASSUME part = "fences"
                 PROVE  F!FenceInv'
    BY <1>2, PartSteps
  <2>2. F!FenceAssumption /\ [F!Next]_(F!vars)
    BY <1>2, <2>1, PartSteps, SameFences, ProcessesAssumption
  <2> QED
    BY <1>2, <2>1, <2>2, F!FenceNext
<1> QED
  BY <1>1, <1>2, PTL DEF ProcessSpec

(* atomic_ops.c:57, 142, 454 - for any number of threads, with both memory *)
(* models: of two that store, fence and load on v9 one sees the other, and *)
(* who sees a flag or takes a released stripe sees what was stored before. *)
THEOREM BarriersOrder == ProcessSpec => []Fences
<1>1. (part = "fences" => F!FenceInv) => Fences
  BY F!FenceFacts, SameFences DEF Fences
<1> QED
  BY <1>1, FencesHold, PTL

LEMMA SameRandom ==
    /\ F!R!RandomAssumption <=> RandomAssumption
    /\ F!R!Init <=> Init
    /\ F!R!Next <=> Next
    /\ F!R!TypeOK <=> TypeOK
    /\ F!R!AllFilled <=> AllFilled
    /\ F!R!SocketClosed <=> SocketClosed
    /\ F!R!OpenedOnce <=> OpenedOnce
    /\ [Next]_vars => [F!R!Next]_(F!R!vars)
<1>1. F!R!RandomAssumption <=> RandomAssumption
  BY DEF F!R!RandomAssumption, RandomAssumption, F!R!IsFiniteSet, IsFiniteSet
<1>2. F!R!Init <=> Init
  BY DEF F!R!Init, Init, F!R!Idle, Idle
<1>3. F!R!Next <=> Next
  BY DEF F!R!Next, Next, F!R!Request, Request, F!R!arc4_next, arc4_next, F!R!Steps, Steps,
         F!R!statics, statics, F!R!arc4, arc4, F!R!Goes, Goes, F!R!Called, Called, F!R!Idle, Idle,
         F!R!Mix, Mix, F!R!LookForSource, LookForSource, F!R!OpenDevice, OpenDevice, F!R!OpenFails,
         OpenFails, F!R!SetFd, SetFd, F!R!SetSource, SetSource, F!R!UseSource, UseSource,
         F!R!read_all, read_all, F!R!egd_connect, egd_connect, F!R!egd_request, egd_request,
         F!R!egd_reply, egd_reply, F!R!Fallback, Fallback, F!R!arc4_stir, arc4_stir, F!R!Return,
         Return, F!R!Fill, Fill, F!R!EgdReturns, EgdReturns
<1>4. F!R!TypeOK <=> TypeOK
  BY DEF F!R!TypeOK, TypeOK, F!R!Origin, Origin, F!R!Pc, Pc, F!R!Cardinality, Cardinality,
         F!R!IsFiniteSet, IsFiniteSet
<1>5. F!R!AllFilled <=> AllFilled
  BY DEF F!R!AllFilled, AllFilled
<1>6. F!R!SocketClosed <=> SocketClosed
  BY DEF F!R!SocketClosed, SocketClosed
<1>7. F!R!OpenedOnce <=> OpenedOnce
  BY DEF F!R!OpenedOnce, OpenedOnce, F!R!Cardinality, Cardinality, F!R!IsFiniteSet, IsFiniteSet
<1>8. UNCHANGED vars => UNCHANGED F!R!vars
  BY DEF F!R!vars, F!R!statics, F!R!arc4, vars, statics, arc4
<1> QED
  BY <1>1, <1>2, <1>3, <1>4, <1>5, <1>6, <1>7, <1>8

LEMMA RandomHolds == ProcessSpec => []F!RandomInv
<1>1. ProcessInit => F!RandomInv
  BY SameRandom, F!RandomInit, ProcessesAssumption DEF ProcessInit
<1>2. ASSUME [ProcessNext]_processVars, F!RandomInv
      PROVE  F!RandomInv'
  <2>1. F!R!RandomAssumption /\ [F!R!Next]_(F!R!vars)
    BY <1>2, PartSteps, SameRandom, ProcessesAssumption
  <2> QED
    BY <1>2, <2>1, F!RandomNext
<1> QED
  BY <1>1, <1>2, PTL DEF ProcessSpec

LEMMA RandomMeans ==
    ASSUME F!RandomInv
    PROVE  TypeOK /\ AllFilled /\ SocketClosed /\ OpenedOnce
  BY F!RandomFacts, SameRandom, ProcessesAssumption

(* random.c:94, 150, 270 - for any number of threads, any request and any  *)
(* chunk size, a request that succeeds has filled every byte, and from     *)
(* the generator only if that is allowed.                                  *)
THEOREM BuffersAreFilled == ProcessSpec => []AllFilled
  BY RandomHolds, RandomMeans, PTL

------------------------------------------------------------------------------
(* The proofs about Terminal and Spawn. *)
Q == INSTANCE DescriptorProofs WITH pc <- tty_pc

LEMMA SameSpawn ==
    /\ Q!P!SpawnAssumption <=> P!SpawnAssumption
    /\ Q!P!Init <=> P!Init
    /\ Q!P!Next <=> P!Next
    /\ Q!P!Inherits <=> P!Inherits
    /\ Q!P!FlagsSet <=> P!FlagsSet
    /\ [P!Next]_spawnVars => [Q!P!Next]_(Q!P!vars)
<1>1. Q!P!SpawnAssumption <=> P!SpawnAssumption
  BY DEF Q!P!SpawnAssumption, P!SpawnAssumption
<1>2. Q!P!Init <=> P!Init
  BY DEF Q!P!Init, P!Init, Q!P!Zero, P!Zero
<1>3. Q!P!Next <=> P!Next
  BY DEF Q!P!Next, P!Next, Q!P!Fd, P!Fd, Q!P!Flag, P!Flag, Q!P!Maker, P!Maker, Q!P!vars, P!vars,
         Q!P!Make, P!Make, Q!P!MakeFails, P!MakeFails, Q!P!fcntl, P!fcntl, Q!P!posix_spawnattr_set,
         P!posix_spawnattr_set, Q!P!posix_spawn_file_actions_add, P!posix_spawn_file_actions_add,
         Q!P!fork, P!fork, Q!P!fork_fails, P!fork_fails, Q!P!exec, P!exec, Q!P!exec_fails,
         P!exec_fails, Q!P!parent, P!parent, Q!P!NewFds, P!NewFds, Q!P!Fcntls, P!Fcntls,
         Q!P!Environ, P!Environ, Q!P!Lowest, P!Lowest, Q!P!Cardinality, P!Cardinality,
         Q!P!IsFiniteSet, P!IsFiniteSet
<1>4. Q!P!Inherits <=> P!Inherits
  BY DEF Q!P!Inherits, P!Inherits, Q!P!Fd, P!Fd
<1>5. Q!P!FlagsSet <=> P!FlagsSet
  BY DEF Q!P!FlagsSet, P!FlagsSet
<1>6. UNCHANGED spawnVars => UNCHANGED Q!P!vars
  BY DEF Q!P!vars, Q!P!parent, spawnVars
<1> QED
  BY <1>1, <1>2, <1>3, <1>4, <1>5, <1>6

LEMMA SpawnHolds == ProcessSpec => [](part = "spawn" => Q!SpawnInv)
<1>1. ProcessInit => (part = "spawn" => Q!SpawnInv)
  BY SameSpawn, Q!SpawnInit, ProcessesAssumption DEF ProcessInit
<1>2. ASSUME [ProcessNext]_processVars, part = "spawn" => Q!SpawnInv
      PROVE  (part = "spawn" => Q!SpawnInv)'
  <2>1. SUFFICES ASSUME part = "spawn"
                 PROVE  Q!SpawnInv'
    BY <1>2, PartSteps
  <2>2. Q!P!SpawnAssumption /\ [Q!P!Next]_(Q!P!vars)
    BY <1>2, <2>1, PartSteps, SameSpawn, ProcessesAssumption
  <2> QED
    BY <1>2, <2>1, <2>2, Q!SpawnNext
<1> QED
  BY <1>1, <1>2, PTL DEF ProcessSpec

(* process.c:150, 455 - a spawned program has the environment given, every *)
(* descriptor not to be closed and, of those to be closed, only the ones   *)
(* whose flag was yet to be set at the fork; a call that has returned has  *)
(* set all its flags.                                                      *)
THEOREM ProgramsInherit == ProcessSpec => []Inherits
<1>1. (part = "spawn" => Q!SpawnInv) => Inherits
  BY Q!SpawnFacts, SameSpawn DEF Inherits
<1> QED
  BY <1>1, SpawnHolds, PTL

LEMMA SameTerminal ==
    /\ Q!TerminalAssumption <=> T!TerminalAssumption
    /\ Q!Init <=> T!Init
    /\ Q!Next <=> T!Next
    /\ Q!TypeOK <=> T!TypeOK
    /\ Q!NothingLeft <=> T!NothingLeft
    /\ Q!OthersKept <=> T!OthersKept
    /\ Q!Terminals <=> T!Terminals
    /\ [T!Next]_ttyVars => [Q!Next]_(Q!vars)
<1>1. Q!TerminalAssumption <=> T!TerminalAssumption
  BY DEF Q!TerminalAssumption, T!TerminalAssumption
<1>2. Q!Init <=> T!Init
  BY DEF Q!Init, T!Init, Q!Fd, T!Fd, Q!Stdio, T!Stdio, Q!Process, T!Process
<1>3. Q!Next <=> T!Next
  BY DEF Q!Next, T!Next, Q!Fd, T!Fd, Q!Process, T!Process, Q!Function, T!Function, Q!vars, T!vars,
         Q!Call, T!Call, Q!OtherOpens, T!OtherOpens, Q!OtherCloses, T!OtherCloses, Q!posix_openpt,
         T!posix_openpt, Q!ptsname, T!ptsname, Q!OtherPtsname, T!OtherPtsname, Q!OpenSlave,
         T!OpenSlave, Q!openpty_fails, T!openpty_fails, Q!fork, T!fork, Q!fork_fails, T!fork_fails,
         Q!forkpty, T!forkpty, Q!setsid, T!setsid, Q!setsid_fails, T!setsid_fails, Q!Reopen,
         T!Reopen, Q!CloseTmpfd, T!CloseTmpfd, Q!ReopenFails, T!ReopenFails, Q!OpenNull, T!OpenNull,
         Q!OpenNullFails, T!OpenNullFails, Q!dup2, T!dup2, Q!dup2_fails, T!dup2_fails, Q!CloseFd,
         T!CloseFd, Q!accept, T!accept, Q!accept_fails, T!accept_fails, Q!fcntl, T!fcntl,
         Q!fcntl_fails, T!fcntl_fails, Q!Ended, T!Ended, Q!asked, T!asked, Q!locals, T!locals,
         Q!Opened, T!Opened, Q!Goto, T!Goto, Q!Closed, T!Closed, Q!Failed, T!Failed, Q!Stdio,
         T!Stdio, Q!Free, T!Free
<1>4. Q!TypeOK <=> T!TypeOK
  BY DEF Q!TypeOK, T!TypeOK, Q!Fd, T!Fd, Q!File, T!File, Q!Process, T!Process, Q!Function,
         T!Function
<1>5. Q!NothingLeft <=> T!NothingLeft
  BY DEF Q!NothingLeft, T!NothingLeft, Q!Holding, T!Holding, Q!Fd, T!Fd
<1>6. Q!OthersKept <=> T!OthersKept
  BY DEF Q!OthersKept, T!OthersKept
<1>7. Q!Terminals <=> T!Terminals
  BY DEF Q!Terminals, T!Terminals, Q!Stdio, T!Stdio, Q!Process, T!Process, Q!Holding, T!Holding,
         Q!Fd, T!Fd
<1>8. UNCHANGED ttyVars => UNCHANGED Q!vars
  BY DEF Q!vars, Q!asked, Q!locals, ttyVars
<1> QED
  BY <1>1, <1>2, <1>3, <1>4, <1>5, <1>6, <1>7, <1>8

LEMMA TerminalHolds == ProcessSpec => [](part = "terminal" => Q!TtyInv)
<1>1. ProcessInit => (part = "terminal" => Q!TtyInv)
  BY SameTerminal, Q!TtyInit, ProcessesAssumption DEF ProcessInit
<1>2. ASSUME [ProcessNext]_processVars, part = "terminal" => Q!TtyInv
      PROVE  (part = "terminal" => Q!TtyInv)'
  <2>1. SUFFICES ASSUME part = "terminal"
                 PROVE  Q!TtyInv'
    BY <1>2, PartSteps
  <2>2. Q!TerminalAssumption /\ [Q!Next]_(Q!vars)
    BY <1>2, <2>1, PartSteps, SameTerminal, ProcessesAssumption
  <2> QED
    BY <1>2, <2>1, <2>2, Q!TtyNext
<1> QED
  BY <1>1, <1>2, PTL DEF ProcessSpec

LEMMA TerminalMeans ==
    ASSUME Q!TtyInv
    PROVE  T!TypeOK /\ T!NothingLeft /\ T!OthersKept /\ T!Terminals
  BY Q!TtyFacts, SameTerminal, ProcessesAssumption

(* random.c:102, 178, pty.c:38, 99, 123 - for any number of descriptors    *)
(* that a process may have: no call loses a socket or a descriptor it      *)
(* opened, closes one of another thread or leaves a process others than it *)
(* is to have, and each thread opens the random device once at most.       *)
THEOREM DescriptorsAccounted == ProcessSpec => []Descriptors
<1>1. F!RandomInv /\ (part = "terminal" => Q!TtyInv) => Descriptors
  BY RandomMeans, TerminalMeans DEF Descriptors
<1> QED
  BY <1>1, RandomHolds, TerminalHolds, PTL

(* The types, of every part but the environment.                           *)
THEOREM PartTypes == ProcessSpec => [](part # "environ" => Types)
<1>1. /\ F!RandomInv
      /\ part = "locale" => LocaleInv
      /\ part = "tempdir" => TempInv
      /\ part = "terminal" => Q!TtyInv
      => (part # "environ" => Types)
  BY RandomMeans, TerminalMeans DEF Types, LocaleInv, TempInv
<1> QED
  BY <1>1, RandomHolds, LocaleHolds, TempHolds, TerminalHolds, PTL
==============================================================================
