---------------------------- MODULE ThreadsProofs ----------------------------
(***************************************************************************)
(* Proofs about src/atomic_ops.c for any set of threads, objects, words,   *)
(* operations and stripes: the stripe locks exclude each other, and the    *)
(* primitives are atomic.  Proofs about sem_timedwait of src/stubs.c and   *)
(* pthread_rwlock_timedrdlock and _timedwrlock of src/process.c for any    *)
(* threads, deadlines and clock.                                           *)
(***************************************************************************)
EXTENDS Threads, TLAPS

(* An object has one word or two. *)
LEMMA WordsOfObj ==
    ASSUME NEW a \in Obj
    PROVE  /\ Size[a] \div 4 \in {1, 2}
           /\ Words(a) = 1 .. (Size[a] \div 4)
           /\ 1 \in Words(a)
           /\ \A i \in Words(a) : i = 1 \/ i = 2
           /\ \A v \in Value(a) : \A i \in Words(a) : v[i] \in Word
BY ObjAssumption DEF Words, Value

(* A call is a record of the program, its values of its object's type. *)
LEMMA CallFields ==
    ASSUME NEW c \in Calls
    PROVE  /\ c.obj \in Obj /\ c.op \in OpCode
           /\ c.fn \in LockedFn \cup PlainFn
           /\ c.val \in Value(c.obj) /\ c.exp \in Value(c.obj)
           /\ c.fn \in PlainFn => Size[c.obj] = 4
BY CallsAssumption DEF Call

LEMMA NoCallIsCall == NoCall \in Calls
BY CallsAssumption DEF NoCall

(* Each thread has a program point and locals, each object a value. *)
LEMMA Domains ==
    ASSUME TypeOK
    PROVE  /\ DOMAIN pc = Thread /\ DOMAIN word = Thread /\ DOMAIN old = Thread
           /\ DOMAIN call = Thread /\ DOMAIN mem = Obj
BY DEF TypeOK

LEMMA ValueInValues == ASSUME NEW a \in Obj PROVE Value(a) \subseteq Values
BY DEF Values

(* What a primitive writes has its object's type. *)
LEMMA NewValueType ==
    ASSUME NEW c \in Calls, NEW v \in Value(c.obj)
    PROVE  NewValue(c, v) \in Value(c.obj)
BY CallFields, ExprAssumption DEF NewValue

(* Replacing one word keeps the type. *)
LEMMA ReplaceWord ==
    ASSUME NEW a \in Obj, NEW v \in Value(a), NEW i \in Words(a), NEW w \in Word
    PROVE  [v EXCEPT ![i] = w] \in Value(a)
BY DEF Value

(* The stripe of an object exists. *)
LEMMA StripeForType == ASSUME NEW a \in Obj PROVE sst_stripe_for(a) \in Stripe
<1>1. a \in Nat /\ SST_STRIPE_COUNT \in Nat \ {0}
  BY ObjAssumption, StripeAssumption
<1>2. a \div 16 \in Nat
  BY <1>1
<1>3. (a \div 16) % SST_STRIPE_COUNT \in 0 .. (SST_STRIPE_COUNT - 1)
  BY <1>1, <1>2
<1> QED
  BY <1>3 DEF sst_stripe_for, Stripe

------------------------------------------------------------------------------
(* Type correctness of the lock bytes, the locals and the memory. *)
THEOREM TypeCorrect == Spec => []TypeOK
<1>1. Init => TypeOK
  BY NoCallIsCall, CallFields, ValueInValues, WordsOfObj DEF Init, TypeOK, LastWord
<1>2. TypeOK /\ [Next]_vars => TypeOK'
  <2> SUFFICES ASSUME TypeOK, [Next]_vars PROVE TypeOK'
    OBVIOUS
  <2> USE DEF TypeOK, LastWord
  <2>1. ASSUME NEW t \in Thread, NEW c \in Calls, Invoke(t, c) PROVE TypeOK'
    BY <2>1, CallFields, ValueInValues, WordsOfObj DEF Invoke
  <2>2. ASSUME NEW t \in Thread, sst_ldstub(t) PROVE TypeOK'
    BY <2>2, CallFields, StripeForType DEF sst_ldstub, StripeOf
  <2>3. ASSUME NEW t \in Thread, Spin(t) PROVE TypeOK'
    BY <2>3 DEF Spin
  <2>4. ASSUME NEW t \in Thread, LoadWord(t) PROVE TypeOK'
    <3> DEFINE a == call[t].obj
               seen == [old[t] EXCEPT ![word[t]] = mem[a][word[t]]]
    <3>1. a \in Obj /\ word[t] \in Words(a) /\ call' = call /\ mem' = mem
      BY <2>4, CallFields, WordsOfObj DEF LoadWord
    <3>2. seen \in Value(a) /\ seen \in Values
      BY <3>1, WordsOfObj, ReplaceWord, ValueInValues
    <3>3. old' = [old EXCEPT ![t] = seen]
      BY <2>4 DEF LoadWord
    <3> HIDE DEF seen
    <3>4. old' \in [Thread -> Values] /\ \A u \in Thread : old'[u] \in Value(call'[u].obj)
      BY <3>1, <3>2, <3>3
    <3>5. word' \in [Thread -> {1, 2}] /\ \A u \in Thread : word'[u] <= Size[call'[u].obj] \div 4
      BY <2>4, <3>1, WordsOfObj DEF LoadWord
    <3>6. /\ stripe' = stripe
          /\ \E l \in {"load", "store", "unlock"} : pc' = [pc EXCEPT ![t] = l]
      BY <2>4, Zenon DEF LoadWord
    <3> QED
      BY <3>1, <3>4, <3>5, <3>6
  <2>5. ASSUME NEW t \in Thread, StoreWord(t) PROVE TypeOK'
    <3> DEFINE a == call[t].obj
               new == [mem[a] EXCEPT ![word[t]] = NewValue(call[t], old[t])[word[t]]]
    <3>1. a \in Obj /\ word[t] \in Words(a) /\ call' = call /\ old' = old
      BY <2>5, CallFields, WordsOfObj DEF StoreWord
    <3>2. new \in Value(a) /\ new \in Values
      BY <3>1, WordsOfObj, NewValueType, ReplaceWord, ValueInValues
    <3>3. mem' = [mem EXCEPT ![a] = new]
      BY <2>5 DEF StoreWord
    <3> HIDE DEF new
    <3>4. mem' \in [Obj -> Values] /\ \A b \in Obj : mem'[b] \in Value(b)
      BY <3>1, <3>2, <3>3
    <3>5. word' \in [Thread -> {1, 2}] /\ \A u \in Thread : word'[u] <= Size[call'[u].obj] \div 4
      BY <2>5, <3>1, WordsOfObj DEF StoreWord
    <3>6. stripe' = stripe /\ \E l \in {"store", "unlock"} : pc' = [pc EXCEPT ![t] = l]
      BY <2>5, Zenon DEF StoreWord
    <3> QED
      BY <3>1, <3>4, <3>5, <3>6
  <2>6. ASSUME NEW t \in Thread, sst_stripe_unlock(t) PROVE TypeOK'
    <3>1. NoCall \in Calls /\ NoCall.obj \in Obj /\ NoCall.val \in Value(NoCall.obj) /\ NoCall.val \in Values
           /\ 1 <= Size[NoCall.obj] \div 4
      BY NoCallIsCall, CallFields, ValueInValues, WordsOfObj
    <3>2. stripe' \in [Stripe -> {0, 255}] /\ mem' = mem
      BY <2>6, CallFields, StripeForType DEF sst_stripe_unlock, StripeOf
    <3>3. /\ pc' = [pc EXCEPT ![t] = "idle"] /\ call' = [call EXCEPT ![t] = NoCall]
          /\ old' = [old EXCEPT ![t] = NoCall.val] /\ word' = [word EXCEPT ![t] = 1]
      BY <2>6 DEF sst_stripe_unlock, Returns
    <3> HIDE DEF NoCall
    <3>4. call' \in [Thread -> Calls] /\ old' \in [Thread -> Values]
           /\ \A u \in Thread : old'[u] \in Value(call'[u].obj)
      BY <3>1, <3>3
    <3>5. word' \in [Thread -> {1, 2}] /\ \A u \in Thread : word'[u] <= Size[call'[u].obj] \div 4
      BY <3>1, <3>3
    <3> QED
      BY <3>2, <3>3, <3>4, <3>5
  <2>7. ASSUME NEW t \in Thread, PlainLoad(t) PROVE TypeOK'
    BY <2>7, CallFields, ValueInValues DEF PlainLoad
  <2>8. ASSUME NEW t \in Thread, PlainStore(t) PROVE TypeOK'
    BY <2>8, CallFields, ValueInValues DEF PlainStore
  <2>9. ASSUME NEW t \in Thread, PlainReturn(t) PROVE TypeOK'
    BY <2>9, NoCallIsCall, CallFields, ValueInValues, WordsOfObj DEF PlainReturn, Returns
  <2>10. CASE UNCHANGED vars
    BY <2>10 DEF vars
  <2> QED
    BY <2>1, <2>2, <2>3, <2>4, <2>5, <2>6, <2>7, <2>8, <2>9, <2>10 DEF Next, Step
<1> QED
  BY <1>1, <1>2, PTL DEF Spec

------------------------------------------------------------------------------
(* sst_stripe_lock and sst_stripe_unlock exclude: the holder of a stripe   *)
(* is alone, whatever happens on the other stripes.                        *)
THEOREM StripesExclude == Spec => []StripeMutex
<1>1. Init => StripeMutex
  BY Zenon DEF Init, StripeMutex, Holding
<1>2. TypeOK /\ StripeMutex /\ [Next]_vars => StripeMutex'
  <2> SUFFICES ASSUME TypeOK, StripeMutex, [Next]_vars PROVE StripeMutex'
    OBVIOUS
  <2> USE DEF TypeOK, StripeMutex, Holding, StripeOf
  <2>1. ASSUME NEW t \in Thread, NEW c \in Calls, Invoke(t, c) PROVE StripeMutex'
    BY <2>1 DEF Invoke
  <2>2. ASSUME NEW t \in Thread, sst_ldstub(t) PROVE StripeMutex'
    BY <2>2, CallFields, StripeForType DEF sst_ldstub
  <2>3. ASSUME NEW t \in Thread, Spin(t) PROVE StripeMutex'
    BY <2>3 DEF Spin
  <2>4. ASSUME NEW t \in Thread, LoadWord(t) PROVE StripeMutex'
    BY <2>4 DEF LoadWord
  <2>5. ASSUME NEW t \in Thread, StoreWord(t) PROVE StripeMutex'
    BY <2>5 DEF StoreWord
  <2>6. ASSUME NEW t \in Thread, sst_stripe_unlock(t) PROVE StripeMutex'
    BY <2>6, CallFields, StripeForType DEF sst_stripe_unlock, Returns
  <2>7. ASSUME NEW t \in Thread, PlainLoad(t) \/ PlainStore(t) PROVE StripeMutex'
    BY <2>7 DEF PlainLoad, PlainStore
  <2>8. ASSUME NEW t \in Thread, PlainReturn(t) PROVE StripeMutex'
    BY <2>8 DEF PlainReturn, Returns
  <2>9. CASE UNCHANGED vars
    BY <2>9 DEF vars
  <2> QED
    BY <2>1, <2>2, <2>3, <2>4, <2>5, <2>6, <2>7, <2>8, <2>9 DEF Next, Step
<1> QED
  BY <1>1, <1>2, TypeCorrect, PTL DEF Spec

------------------------------------------------------------------------------
(* Two values of an object are equal when their words are. *)
LEMMA SameWords ==
    ASSUME NEW a \in Obj, NEW v \in Value(a), NEW w \in Value(a),
           v[1] = w[1], Size[a] \div 4 = 2 => v[2] = w[2]
    PROVE  v = w
<1>1. \A i \in Words(a) : v[i] = w[i]
  BY WordsOfObj
<1> QED
  BY <1>1 DEF Value

(* Threads that hold the lock of one object are the same thread. *)
LEMMA HolderUnique ==
    ASSUME StripeMutex, NEW t \in Thread, NEW u \in Thread,
           pc[t] \in Holding, pc[u] \in Holding, call[t].obj = call[u].obj
    PROVE  t = u
BY DEF StripeMutex, StripeOf

(* What a load of one word does: the last one completes a value that       *)
(* memory holds, and decides what comes next.                              *)
LEMMA LoadWordFacts ==
    ASSUME TypeOK, LocalsCurrent, NEW t \in Thread, LoadWord(t)
    PROVE  LET a == call[t].obj IN
           /\ call[t] \in Calls /\ a \in Obj /\ ReadsTarget(call[t])
           /\ pc[t] = "load" /\ mem' = mem /\ call' = call /\ stripe' = stripe
           /\ \E seen \in Value(a) :
                /\ old' = [old EXCEPT ![t] = seen]
                /\ \/ /\ word[t] = 1 /\ LastWord(t) = 2 /\ seen[1] = mem[a][1]
                      /\ word' = [word EXCEPT ![t] = 2]
                      /\ pc' = [pc EXCEPT ![t] = "load"]
                   \/ /\ word[t] = LastWord(t) /\ seen = mem[a]
                      /\ word' = [word EXCEPT ![t] = 1]
                      /\ pc' = [pc EXCEPT ![t] = IF Stores(call[t], mem[a])
                                                THEN "store" ELSE "unlock"]
<1> DEFINE a == call[t].obj
           seen == [old[t] EXCEPT ![word[t]] = mem[a][word[t]]]
<1>1. /\ a \in Obj /\ word[t] \in Words(a) /\ call[t] \in Calls
      /\ mem[a] \in Value(a) /\ old[t] \in Value(a)
  BY CallFields, WordsOfObj DEF TypeOK, LastWord
<1>2. seen \in Value(a) /\ seen[word[t]] = mem[a][word[t]]
  BY <1>1, WordsOfObj, ReplaceWord DEF Value
<1>3. pc[t] = "load" /\ mem' = mem /\ call' = call /\ stripe' = stripe /\ ReadsTarget(call[t])
  BY DEF LoadWord, LocalsCurrent
<1>4. word[t] = 2 => seen[1] = mem[a][1]
  BY <1>1, <1>3, WordsOfObj DEF LocalsCurrent, Value
<1>5. /\ old' = [old EXCEPT ![t] = seen]
      /\ word' = [word EXCEPT ![t] = IF @ = LastWord(t) THEN 1 ELSE @ + 1]
      /\ pc' = [pc EXCEPT ![t] = IF word[t] # LastWord(t) THEN "load"
                                ELSE IF Stores(call[t], seen) THEN "store" ELSE "unlock"]
  BY DEF LoadWord
<1> HIDE DEF seen
<1>6. CASE word[t] = LastWord(t)
  <2>1. seen = mem[a]
    <3>1. Size[a] \div 4 = word[t] /\ (word[t] = 1 \/ word[t] = 2)
      BY <1>1, <1>6, WordsOfObj DEF LastWord
    <3>2. seen[1] = mem[a][1]
      BY <1>2, <1>4, <3>1
    <3>3. Size[a] \div 4 = 2 => seen[2] = mem[a][2]
      BY <1>2, <3>1
    <3> QED
      BY <1>1, <1>2, <3>2, <3>3, SameWords
  <2> QED
    BY <1>1, <1>2, <1>3, <1>5, <1>6, <2>1, Zenon
<1>7. CASE word[t] # LastWord(t)
  <2>1. word[t] = 1 /\ LastWord(t) = 2 /\ word[t] + 1 = 2
    BY <1>1, <1>7, WordsOfObj DEF TypeOK, LastWord
  <2> QED
    BY <1>1, <1>2, <1>3, <1>5, <1>7, <2>1, Zenon
<1> QED
  BY <1>6, <1>7

(* What a store of one word does: the last one completes the new value. *)
LEMMA StoreWordFacts ==
    ASSUME TypeOK, LocalsCurrent, NEW t \in Thread, StoreWord(t)
    PROVE  LET a == call[t].obj
               nv == NewValue(call[t], old[t]) IN
           /\ call[t] \in Calls /\ a \in Obj /\ Stores(call[t], old[t])
           /\ pc[t] = "store" /\ call' = call /\ old' = old /\ stripe' = stripe
           /\ \A b \in Obj : b # a => mem'[b] = mem[b]
           /\ \/ /\ word[t] = 1 /\ LastWord(t) = 2 /\ mem'[a][1] = nv[1]
                 /\ word' = [word EXCEPT ![t] = 2]
                 /\ pc' = [pc EXCEPT ![t] = "store"]
              \/ /\ word[t] = LastWord(t) /\ mem'[a] = nv
                 /\ word' = [word EXCEPT ![t] = 1]
                 /\ pc' = [pc EXCEPT ![t] = "unlock"]
<1> DEFINE a == call[t].obj
           nv == NewValue(call[t], old[t])
           new == [mem[a] EXCEPT ![word[t]] = nv[word[t]]]
<1>1. /\ a \in Obj /\ word[t] \in Words(a) /\ call[t] \in Calls
      /\ mem[a] \in Value(a) /\ nv \in Value(a)
  BY CallFields, WordsOfObj, NewValueType DEF TypeOK, LastWord
<1>2. new \in Value(a) /\ new[word[t]] = nv[word[t]]
  <2> HIDE DEF nv
  <2> QED
    BY <1>1, WordsOfObj, ReplaceWord DEF Value
<1>3. /\ pc[t] = "store" /\ call' = call /\ old' = old /\ stripe' = stripe
      /\ Stores(call[t], old[t])
  BY DEF StoreWord, LocalsCurrent
<1>4. word[t] = 2 => new[1] = nv[1]
  BY <1>1, <1>3, WordsOfObj DEF LocalsCurrent, Value
<1>5. /\ mem' = [mem EXCEPT ![a] = new]
      /\ word' = [word EXCEPT ![t] = IF @ = LastWord(t) THEN 1 ELSE @ + 1]
      /\ pc' = [pc EXCEPT ![t] = IF word[t] # LastWord(t) THEN "store" ELSE "unlock"]
  BY DEF StoreWord
<1> HIDE DEF new, nv
<1>6. mem'[a] = new /\ \A b \in Obj : b # a => mem'[b] = mem[b]
  BY <1>1, <1>5 DEF TypeOK
<1>7. CASE word[t] = LastWord(t)
  <2>1. new = nv
    BY <1>1, <1>2, <1>4, <1>7, WordsOfObj, SameWords, SMTT(60) DEF LastWord
  <2> QED
    BY <1>1, <1>3, <1>5, <1>6, <1>7, <2>1 DEF nv
<1>8. CASE word[t] # LastWord(t)
  <2>1. word[t] = 1 /\ LastWord(t) = 2 /\ word[t] + 1 = 2
    BY <1>1, <1>8, WordsOfObj DEF TypeOK, LastWord
  <2> QED
    BY <1>1, <1>2, <1>3, <1>5, <1>6, <1>8, <2>1 DEF nv
<1> QED
  BY <1>7, <1>8

(* A word loaded under the lock stays current until the lock is released,  *)
(* provided no unlocked store goes to an object that is updated under its  *)
(* lock.                                                                   *)
LEMMA LocalsCurrentInv ==
    ASSUME StoreDiscipline
    PROVE  Spec => []LocalsCurrent
<1>1. Init => LocalsCurrent
  BY NoCallIsCall, CallFields DEF Init, LocalsCurrent
<1>2. TypeOK /\ StripeMutex /\ LocalsCurrent /\ [Next]_vars => LocalsCurrent'
  <2> SUFFICES ASSUME TypeOK, StripeMutex, LocalsCurrent, [Next]_vars PROVE LocalsCurrent'
    OBVIOUS
  <2> USE DEF TypeOK
  <2>1. ASSUME NEW t \in Thread, NEW c \in Calls, Invoke(t, c) PROVE LocalsCurrent'
    BY <2>1, CallFields DEF Invoke, LocalsCurrent
  <2>2. ASSUME NEW t \in Thread, sst_ldstub(t) PROVE LocalsCurrent'
    <3>1. /\ mem' = mem /\ call' = call /\ old' = old /\ word' = word /\ pc[t] = "lock"
          /\ pc'[t] = "spin" \/ pc'[t] = IF ReadsTarget(call[t]) THEN "load" ELSE "store"
          /\ \A u \in Thread : u # t => pc'[u] = pc[u]
      BY <2>2, Domains DEF sst_ldstub
    <3>2. call[t].fn \in LockedFn /\ word[t] = 1 /\ old[t] = call[t].val
      BY <3>1 DEF LocalsCurrent
    <3>3. ~ReadsTarget(call[t]) => Stores(call[t], old[t])
      BY <3>2 DEF LockedFn, ReadsTarget, Stores
    <3> QED
      BY <3>1, <3>2, <3>3 DEF LocalsCurrent
  <2>3. ASSUME NEW t \in Thread, Spin(t) PROVE LocalsCurrent'
    BY <2>3 DEF Spin, LocalsCurrent
  <2>4. ASSUME NEW t \in Thread, LoadWord(t) PROVE LocalsCurrent'
    <3>1. ASSUME NEW u \in Thread, u # t
          PROVE  /\ pc'[u] = pc[u] /\ old'[u] = old[u] /\ word'[u] = word[u]
                 /\ call'[u] = call[u] /\ mem' = mem
      BY <2>4, <3>1, LoadWordFacts
    <3>2. /\ call'[t].fn \in LockedFn /\ ReadsTarget(call'[t])
          /\ pc'[t] \in {"load", "store", "unlock"}
          /\ pc'[t] = "load" => old'[t][1] = mem'[call'[t].obj][1]
          /\ pc'[t] = "store" => /\ Stores(call'[t], old'[t]) /\ word'[t] = 1
                                /\ old'[t] = mem'[call'[t].obj]
      BY <2>4, LoadWordFacts DEF LocalsCurrent
    <3> QED
      BY <3>1, <3>2 DEF LocalsCurrent
  <2>5. ASSUME NEW t \in Thread, StoreWord(t) PROVE LocalsCurrent'
    <3>1. ASSUME NEW u \in Thread, u # t
          PROVE  /\ pc'[u] = pc[u] /\ old'[u] = old[u] /\ word'[u] = word[u]
                 /\ call'[u] = call[u]
                 /\ pc[u] \in {"load", "store"} => mem'[call[u].obj] = mem[call[u].obj]
      <4>1. pc[u] \in {"load", "store"} => call[u].obj # call[t].obj /\ call[u].obj \in Obj
        BY <2>5, <3>1, HolderUnique, CallFields DEF Holding, StoreWord
      <4>2. pc'[u] = pc[u] /\ word'[u] = word[u]
        BY <2>5, <3>1, Domains, ZenonT(60) DEF StoreWord
      <4>3. old' = old /\ call' = call /\ \A b \in Obj : b # call[t].obj => mem'[b] = mem[b]
        BY <2>5, StoreWordFacts
      <4> QED
        BY <4>1, <4>2, <4>3
    <3>2. /\ call'[t].fn \in LockedFn /\ Stores(call'[t], old'[t])
          /\ pc'[t] \in {"store", "unlock"}
          /\ pc'[t] = "store" => /\ word'[t] = 2
                                /\ mem'[call'[t].obj][1] = NewValue(call'[t], old'[t])[1]
      BY <2>5, StoreWordFacts DEF LocalsCurrent
    <3> QED
      BY <3>1, <3>2 DEF LocalsCurrent
  <2>6. ASSUME NEW t \in Thread, sst_stripe_unlock(t) PROVE LocalsCurrent'
    BY <2>6, NoCallIsCall, CallFields DEF sst_stripe_unlock, Returns, LocalsCurrent
  <2>7. ASSUME NEW t \in Thread, PlainLoad(t) PROVE LocalsCurrent'
    BY <2>7 DEF PlainLoad, LocalsCurrent
  <2>8. ASSUME NEW t \in Thread, PlainStore(t) PROVE LocalsCurrent'
    BY <2>8, CallFields DEF PlainStore, LocalsCurrent, StoreDiscipline, LockedFn, PlainFn
  <2>9. ASSUME NEW t \in Thread, PlainReturn(t) PROVE LocalsCurrent'
    BY <2>9, NoCallIsCall, CallFields DEF PlainReturn, Returns, LocalsCurrent
  <2>10. CASE UNCHANGED vars
    BY <2>10 DEF vars, LocalsCurrent
  <2> QED
    BY <2>1, <2>2, <2>3, <2>4, <2>5, <2>6, <2>7, <2>8, <2>9, <2>10 DEF Next, Step
<1> QED
  BY <1>1, <1>2, TypeCorrect, StripesExclude, PTL DEF Spec

------------------------------------------------------------------------------
(* The instance of the abstract memory computes what AtomicOps computes. *)
LEMMA AbstractOperators ==
    /\ AM!NoCall = NoCall
    /\ \A a \in Obj : AM!Value(a) = Value(a)
    /\ AM!Values = Values
    /\ \A c, v : /\ AM!ReadsTarget(c) = ReadsTarget(c)
                 /\ AM!Stores(c, v) = Stores(c, v)
                 /\ AM!NewValue(c, v) = NewValue(c, v)
                 /\ AM!Result(c, v) = Result(c, v)
BY DEF NoCall, AM!NoCall, Words, AM!Words, Value, AM!Value, Values, AM!Values,
       ReadsTarget, AM!ReadsTarget, Stores, AM!Stores, NewValue, AM!NewValue,
       Result, AM!Result

LEMMA OverlayLemma == \A v, w : Overlay({}, v) = v /\ Overlay({w}, v) = w
BY DEF Overlay

(* Only the holder of its lock can have begun to store an object. *)
LEMMA PendingUnderLock ==
    ASSUME StripeMutex, NEW t \in Thread, pc[t] \in Holding
    PROVE  Pending(call[t].obj) =
             IF Storing(t, call[t].obj) THEN {NewValue(call[t], old[t])} ELSE {}
<1>1. \A u \in Thread : Storing(u, call[t].obj) => u = t
  BY HolderUnique DEF Storing, Holding
<1> QED
  BY <1>1 DEF Pending

(* A 4-byte object is stored at once. *)
LEMMA NothingPendingOnWord ==
    ASSUME TypeOK, NEW a \in Obj, Size[a] = 4
    PROVE  Pending(a) = {}
<1>1. \A u \in Thread : ~Storing(u, a)
  BY DEF Storing, TypeOK, LastWord
<1> QED
  BY <1>1 DEF Pending

(* The step is t's: the locals of the other threads stay as they are. *)
Others(t) ==
    \A u \in Thread : u # t => /\ pc'[u] = pc[u] /\ word'[u] = word[u]
                               /\ call'[u] = call[u] /\ old'[u] = old[u]

(* A step that neither stores nor begins or ends a store of t leaves the   *)
(* abstract memory alone.                                                  *)
LEMMA AbsMemKept ==
    ASSUME mem' = mem, NEW t \in Thread, Others(t),
           \A a \in Obj : ~Storing(t, a) /\ ~Storing(t, a)'
    PROVE  absMem' = absMem
<1>1. ASSUME NEW a \in Obj PROVE Pending(a)' = Pending(a)
  <2>1. \A u \in Thread : Storing(u, a)' = Storing(u, a)
    BY <1>1 DEF Storing, Others
  <2>2. \A u \in Thread : Storing(u, a) => u # t
    BY <1>1
  <2> QED
    BY <2>1, <2>2 DEF Pending, Others
<1> QED
  BY <1>1 DEF absMem

(* One that changes the value of a alone changes that one in the abstract  *)
(* memory.                                                                 *)
LEMMA AbsMemSet ==
    ASSUME NEW a \in Obj, NEW v, Overlay(Pending(a)', mem'[a]) = v,
           \A b \in Obj : b # a => Pending(b)' = Pending(b) /\ mem'[b] = mem[b]
    PROVE  absMem' = [absMem EXCEPT ![a] = v]
<1>1. absMem'[a] = v
  BY DEF absMem
<1>2. \A b \in Obj : b # a => absMem'[b] = absMem[b]
  BY DEF absMem
<1> QED
  BY <1>1, <1>2, Zenon DEF absMem

(* A function on threads of which a step changes the value at t alone. *)
LEMMA OneThread ==
    ASSUME NEW t \in Thread, NEW f, NEW g, NEW x,
           f = [u \in Thread |-> f[u]], g = [u \in Thread |-> g[u]],
           g[t] = x, \A u \in Thread : u # t => g[u] = f[u]
    PROVE  g = [f EXCEPT ![t] = x]
OBVIOUS

PhaseOf(t) == IF pc[t] = "idle" THEN "idle" ELSE IF Effective(t) THEN "done" ELSE "pending"

RetOf(t) == IF Effective(t) THEN Result(call[t], old[t]) ELSE NoCall.val

(* The abstract phase and result of the thread that takes the step. *)
LEMMA AbsThreadStep ==
    ASSUME NEW t \in Thread, Others(t)
    PROVE  /\ absPhase[t] = PhaseOf(t)
           /\ absPhase' = [absPhase EXCEPT ![t] = PhaseOf(t)']
           /\ absRet' = [absRet EXCEPT ![t] = RetOf(t)']
<1>1. \A u \in Thread : u # t => Effective(u)' = Effective(u)
  BY DEF Others, Effective
<1>2. \A u \in Thread : u # t => PhaseOf(u)' = PhaseOf(u) /\ RetOf(u)' = RetOf(u)
  BY <1>1 DEF Others, PhaseOf, RetOf
<1>3. absPhase = [u \in Thread |-> PhaseOf(u)] /\ absRet = [u \in Thread |-> RetOf(u)]
  BY DEF absPhase, absRet, PhaseOf, RetOf
<1>4. absPhase' = [u \in Thread |-> PhaseOf(u)'] /\ absRet' = [u \in Thread |-> RetOf(u)']
  BY DEF absPhase, absRet, PhaseOf, RetOf
<1> HIDE DEF absPhase, absRet, PhaseOf, RetOf
<1>5. absPhase' = [absPhase EXCEPT ![t] = PhaseOf(t)']
  BY <1>2, <1>3, <1>4, OneThread
<1>6. absRet' = [absRet EXCEPT ![t] = RetOf(t)']
  BY <1>2, <1>3, <1>4, OneThread
<1> QED
  BY <1>3, <1>5, <1>6

(* A step after which t has the phase and the result it had. *)
LEMMA AbsThreadKept ==
    ASSUME NEW t \in Thread, Others(t), PhaseOf(t)' = PhaseOf(t), RetOf(t)' = RetOf(t)
    PROVE  absPhase' = absPhase /\ absRet' = absRet
<1>1. /\ absPhase' = [absPhase EXCEPT ![t] = PhaseOf(t)]
      /\ absRet' = [absRet EXCEPT ![t] = RetOf(t)]
  BY AbsThreadStep
<1>2. absPhase = [u \in Thread |-> PhaseOf(u)] /\ absRet = [u \in Thread |-> RetOf(u)]
  BY DEF absPhase, absRet, PhaseOf, RetOf
<1> QED
  BY <1>1, <1>2, Zenon

(* Every step of the threads is one of the abstract memory, or none. *)
LEMMA StepRefines ==
    ASSUME TypeOK, StripeMutex, LocalsCurrent, [Next]_vars, TypeOK', StripeMutex'
    PROVE  [AM!Next]_(AM!vars)
<1>1. ASSUME NEW t \in Thread, NEW c \in Calls, Invoke(t, c) PROVE AM!Invoke(t, c)
  <2>0. /\ Others(t) /\ mem' = mem /\ pc[t] = "idle" /\ pc'[t] \in {"plain", "lock"}
        /\ call' = [call EXCEPT ![t] = c]
    BY <1>1 DEF Invoke, Others, TypeOK
  <2>1. absMem' = absMem
    BY <2>0, AbsMemKept DEF Storing
  <2>2. PhaseOf(t) = "idle" /\ PhaseOf(t)' = "pending" /\ RetOf(t)' = RetOf(t)
    BY <2>0 DEF PhaseOf, RetOf, Effective
  <2>3. absRet' = absRet
    <3>1. absRet' = [absRet EXCEPT ![t] = RetOf(t)]
      BY <2>0, <2>2, AbsThreadStep
    <3>2. absRet = [u \in Thread |-> RetOf(u)]
      BY DEF absRet, RetOf
    <3> QED
      BY <3>1, <3>2, Zenon
  <2> QED
    BY <2>0, <2>1, <2>2, <2>3, AbsThreadStep DEF AM!Invoke
<1>2. ASSUME NEW t \in Thread, sst_ldstub(t) \/ Spin(t) PROVE UNCHANGED AM!vars
  <2>0. /\ Others(t) /\ mem' = mem /\ call' = call /\ old' = old /\ word' = word
        /\ pc[t] \in {"lock", "spin"} /\ pc'[t] \in {"lock", "spin", "load", "store"}
        /\ word[t] = 1
    BY <1>2 DEF sst_ldstub, Spin, Others, TypeOK, LocalsCurrent
  <2>1. absMem' = absMem
    BY <2>0, AbsMemKept DEF Storing
  <2>2. PhaseOf(t)' = PhaseOf(t) /\ RetOf(t)' = RetOf(t)
    BY <2>0, SMTT(30) DEF PhaseOf, RetOf, Effective
  <2> QED
    BY <2>0, <2>1, <2>2, AbsThreadKept DEF AM!vars
<1>3. ASSUME NEW t \in Thread, LoadWord(t)
      PROVE  AM!Perform(t) \/ UNCHANGED AM!vars
  <2> DEFINE c == call[t]
  <2>0. PICK seen \in Value(c.obj) :
             /\ old' = [old EXCEPT ![t] = seen]
             /\ \/ /\ word' = [word EXCEPT ![t] = 2]
                   /\ pc' = [pc EXCEPT ![t] = "load"]
                \/ /\ seen = mem[c.obj]
                   /\ word' = [word EXCEPT ![t] = 1]
                   /\ pc' = [pc EXCEPT ![t] = IF Stores(c, mem[c.obj])
                                             THEN "store" ELSE "unlock"]
    BY <1>3, LoadWordFacts
  <2>1. /\ c \in Calls /\ c.obj \in Obj /\ ReadsTarget(c)
        /\ pc[t] = "load" /\ mem' = mem /\ call' = call
    BY <1>3, LoadWordFacts
  <2>2. Others(t)
    <3>1. \A u \in Thread : u # t => pc'[u] = pc[u] /\ word'[u] = word[u]
      BY <2>0, Domains
    <3>2. \A u \in Thread : u # t => old'[u] = old[u]
      BY <2>0, Domains, Zenon
    <3> QED
      BY <2>1, <3>1, <3>2 DEF Others
  <2>3. \/ pc'[t] = "load"
        \/ pc'[t] = "store" /\ word'[t] = 1
        \/ pc'[t] = "unlock" /\ old'[t] = mem[c.obj] /\ ~Stores(c, mem[c.obj])
    <3>1. CASE pc' = [pc EXCEPT ![t] = "load"]
      BY <3>1, Domains
    <3>2. CASE /\ seen = mem[c.obj]
               /\ word' = [word EXCEPT ![t] = 1]
               /\ pc' = [pc EXCEPT ![t] = IF Stores(c, mem[c.obj]) THEN "store" ELSE "unlock"]
      BY <2>0, <3>2, Domains
    <3> QED
      BY <2>0, <3>1, <3>2
  <2>4. absMem' = absMem
    BY <2>1, <2>2, <2>3, AbsMemKept DEF Storing
  <2>5. CASE pc'[t] # "unlock"
    <3>1. PhaseOf(t)' = PhaseOf(t) /\ RetOf(t)' = RetOf(t)
      BY <2>1, <2>3, <2>5, SMTT(60) DEF PhaseOf, RetOf, Effective
    <3> QED
      BY <2>1, <2>2, <2>4, <3>1, AbsThreadKept, Zenon DEF AM!vars
  <2>6. CASE pc'[t] = "unlock"
    <3>1. PhaseOf(t) = "pending" /\ PhaseOf(t)' = "done" /\ RetOf(t)' = Result(c, mem[c.obj])
      BY <2>1, <2>3, <2>6 DEF PhaseOf, RetOf, Effective
    <3>2. absMem[c.obj] = mem[c.obj]
      BY <2>1, PendingUnderLock, OverlayLemma, Zenon DEF absMem, Storing, Holding
    <3>3. /\ absPhase[t] = "pending" /\ absPhase' = [absPhase EXCEPT ![t] = "done"]
          /\ absRet' = [absRet EXCEPT ![t] = Result(c, mem[c.obj])]
      BY <2>2, <3>1, AbsThreadStep
    <3>4. ~Stores(c, mem[c.obj])
      BY <2>3, <2>6
    <3> QED
      BY <2>1, <2>4, <3>2, <3>3, <3>4, AbstractOperators, Zenon DEF AM!Perform
  <2> QED
    BY <2>5, <2>6, Zenon
<1>4. ASSUME NEW t \in Thread, StoreWord(t)
      PROVE  AM!Perform(t) \/ UNCHANGED AM!vars
  <2> DEFINE c == call[t]
             nv == NewValue(c, old[t])
             whole == word[t] = LastWord(t)
  <2>1. /\ c \in Calls /\ c.obj \in Obj /\ Stores(c, old[t])
        /\ pc[t] = "store" /\ call' = call /\ old' = old
        /\ \A b \in Obj : b # c.obj => mem'[b] = mem[b]
    BY <1>4, StoreWordFacts, Zenon
  <2>2. \/ /\ ~whole /\ word[t] = 1 /\ word' = [word EXCEPT ![t] = 2]
           /\ pc' = [pc EXCEPT ![t] = "store"]
        \/ /\ whole /\ mem'[c.obj] = nv /\ word' = [word EXCEPT ![t] = 1]
           /\ pc' = [pc EXCEPT ![t] = "unlock"]
    BY <1>4, StoreWordFacts
  <2> HIDE DEF nv, whole
  <2>3. \/ ~whole /\ word[t] = 1 /\ pc'[t] = "store" /\ word'[t] = 2
        \/ whole /\ pc'[t] = "unlock" /\ mem'[c.obj] = nv
    BY <2>2, Domains, Zenon
  <2>4. Others(t)
    <3>1. \A u \in Thread : u # t => pc'[u] = pc[u] /\ word'[u] = word[u]
      BY <2>2, Domains
    <3> QED
      BY <2>1, <3>1 DEF Others
  <2>5. \A u \in Thread : u # t => ~Storing(u, c.obj) /\ ~Storing(u, c.obj)'
    <3>1. \A u \in Thread : u # t => ~Storing(u, c.obj)
      BY <2>1, HolderUnique DEF Storing, Holding
    <3> QED
      BY <2>1, <2>4, <3>1 DEF Others, Storing
  <2>6. Pending(c.obj)' = IF whole THEN {} ELSE {nv}
    <3>1. Storing(t, c.obj)' <=> ~whole
      BY <2>1, <2>3 DEF Storing
    <3> QED
      BY <2>1, <2>5, <3>1, Zenon DEF Pending, nv
  <2>7. \A b \in Obj : b # c.obj => Pending(b)' = Pending(b) /\ mem'[b] = mem[b]
    <3>1. \A b \in Obj, u \in Thread : b # c.obj => Storing(u, b)' = Storing(u, b)
      BY <2>1, <2>4, SMTT(60) DEF Storing, Others
    <3> QED
      BY <2>1, <3>1 DEF Pending
  <2>8. absMem' = [absMem EXCEPT ![c.obj] = nv]
    <3>1. Overlay(Pending(c.obj)', mem'[c.obj]) = nv
      <4>1. CASE whole
        <5>1. Pending(c.obj)' = {} /\ mem'[c.obj] = nv
          BY <2>3, <2>6, <4>1
        <5> QED
          BY <5>1, OverlayLemma
      <4>2. CASE ~whole
        <5>1. Pending(c.obj)' = {nv}
          BY <2>6, <4>2
        <5>2. Overlay({nv}, mem'[c.obj]) = nv
          BY OverlayLemma
        <5> QED
          BY <5>1, <5>2, Zenon
      <4> QED
        BY <4>1, <4>2
    <3> QED
      BY <2>1, <2>7, <3>1, AbsMemSet, Zenon
  <2>9. PhaseOf(t)' = "done" /\ RetOf(t)' = Result(c, old[t])
    BY <2>1, <2>3, SMTT(60) DEF PhaseOf, RetOf, Effective
  <2>10. CASE word[t] = 1
    <3>1. absMem[c.obj] = mem[c.obj]
      <4>1. Pending(c.obj) = {}
        <5>1. pc[t] \in Holding /\ ~Storing(t, c.obj)
          BY <2>1, <2>10 DEF Storing, Holding
        <5> QED
          BY <5>1, PendingUnderLock, Zenon
      <4> QED
        BY <2>1, <4>1, OverlayLemma, Zenon DEF absMem
    <3>2. old[t] = IF ReadsTarget(c) THEN mem[c.obj] ELSE c.val
      BY <2>1, <2>10 DEF LocalsCurrent
    <3>3. PhaseOf(t) = "pending"
      BY <2>1, <2>10, SMTT(60) DEF PhaseOf, Effective
    <3>4. /\ absPhase[t] = "pending" /\ absPhase' = [absPhase EXCEPT ![t] = "done"]
          /\ absRet' = [absRet EXCEPT ![t] = Result(c, old[t])]
      BY <2>4, <2>9, <3>3, AbsThreadStep
    <3> QED
      BY <2>1, <2>8, <3>1, <3>2, <3>4, AbstractOperators, Zenon DEF AM!Perform, nv
  <2>11. CASE word[t] # 1
    <3>0. word[t] > 1
      BY <2>11 DEF TypeOK
    <3>1. Storing(t, c.obj) /\ PhaseOf(t) = "done" /\ RetOf(t) = Result(c, old[t])
      BY <2>1, <3>0 DEF Storing, Effective, PhaseOf, RetOf
    <3>2. absMem[c.obj] = nv
      <4>1. Pending(c.obj) = {nv}
        <5>1. pc[t] \in Holding
          BY <2>1 DEF Holding
        <5> QED
          BY <3>1, <5>1, PendingUnderLock, Zenon DEF nv
      <4>2. absMem[c.obj] = Overlay(Pending(c.obj), mem[c.obj])
        BY <2>1 DEF absMem
      <4>3. Overlay({nv}, mem[c.obj]) = nv
        BY OverlayLemma, Zenon
      <4> QED
        BY <4>1, <4>2, <4>3, Zenon
    <3>3. absMem' = absMem
      BY <2>8, <3>2 DEF absMem
    <3>4. absPhase' = absPhase /\ absRet' = absRet
      BY <2>4, <2>9, <3>1, AbsThreadKept
    <3> QED
      BY <2>1, <3>3, <3>4 DEF AM!vars
  <2> QED
    BY <2>10, <2>11, Zenon
<1>5. ASSUME NEW t \in Thread, sst_stripe_unlock(t) \/ PlainReturn(t) PROVE AM!Respond(t)
  <2>0. pc[t] \in {"unlock", "return"} /\ Returns(t) /\ mem' = mem
    BY <1>5 DEF sst_stripe_unlock, PlainReturn
  <2>1. Others(t) /\ pc'[t] = "idle" /\ call' = [call EXCEPT ![t] = NoCall]
    BY <2>0, SMTT(60) DEF Returns, Others, TypeOK
  <2>2. absMem' = absMem
    BY <2>0, <2>1, AbsMemKept, Zenon DEF Storing
  <2>3. PhaseOf(t) = "done" /\ PhaseOf(t)' = "idle" /\ RetOf(t)' = NoCall.val
    BY <2>0, <2>1 DEF PhaseOf, RetOf, Effective
  <2>4. /\ absPhase[t] = "done" /\ absPhase' = [absPhase EXCEPT ![t] = "idle"]
        /\ absRet' = [absRet EXCEPT ![t] = NoCall.val]
    BY <2>1, <2>3, AbsThreadStep, Zenon
  <2> QED
    BY <2>1, <2>2, <2>4, AbstractOperators DEF AM!Respond
<1>6. ASSUME NEW t \in Thread, PlainLoad(t) PROVE AM!Perform(t)
  <2> DEFINE c == call[t]
  <2>1. /\ Others(t) /\ mem' = mem /\ call' = call /\ pc[t] = "plain" /\ pc'[t] = "return"
        /\ old'[t] = mem[c.obj]
    BY <1>6, SMTT(60) DEF PlainLoad, Others, TypeOK
  <2>2. c \in Calls /\ c.obj \in Obj /\ Size[c.obj] = 4 /\ c.fn = "load_4"
    BY <1>6, CallFields DEF PlainLoad, PlainFn, TypeOK
  <2>3. absMem' = absMem
    BY <2>1, AbsMemKept DEF Storing
  <2>4. absMem[c.obj] = mem[c.obj]
    BY <2>2, NothingPendingOnWord, OverlayLemma, Zenon DEF absMem
  <2>5. PhaseOf(t) = "pending" /\ PhaseOf(t)' = "done" /\ RetOf(t)' = Result(c, mem[c.obj])
    BY <2>1, Zenon DEF PhaseOf, RetOf, Effective
  <2>6. /\ absPhase[t] = "pending" /\ absPhase' = [absPhase EXCEPT ![t] = "done"]
        /\ absRet' = [absRet EXCEPT ![t] = Result(c, mem[c.obj])]
    BY <2>1, <2>5, AbsThreadStep, Zenon
  <2>7. ReadsTarget(c) /\ ~Stores(c, mem[c.obj])
    BY <2>2, Zenon DEF ReadsTarget, Stores
  <2> QED
    BY <2>1, <2>3, <2>4, <2>6, <2>7, AbstractOperators, Zenon DEF AM!Perform
<1>7. ASSUME NEW t \in Thread, PlainStore(t) PROVE AM!Perform(t)
  <2> DEFINE c == call[t]
  <2>1. /\ Others(t) /\ call' = call /\ old' = old /\ pc[t] = "plain" /\ pc'[t] = "return"
        /\ mem' = [mem EXCEPT ![c.obj] = c.val]
    BY <1>7 DEF PlainStore, Others, TypeOK
  <2>2. c \in Calls /\ c.obj \in Obj /\ Size[c.obj] = 4 /\ c.fn = "store_4" /\ old[t] = c.val
    BY <1>7, CallFields, Zenon DEF PlainStore, PlainFn, TypeOK, LocalsCurrent
  <2>3. \A b \in Obj : Pending(b)' = Pending(b)
    <3>1. \A b \in Obj, u \in Thread : Storing(u, b)' = Storing(u, b)
      BY <2>1 DEF Storing, Others
    <3> QED
      BY <2>1, <3>1 DEF Pending
  <2>4. absMem' = [absMem EXCEPT ![c.obj] = c.val]
    <3>0. PICK a \in Obj : a = c.obj
      BY <2>2
    <3>1. mem'[a] = c.val /\ \A b \in Obj : b # a => mem'[b] = mem[b]
      BY <2>1, <3>0, Domains
    <3>2. Pending(a) = {}
      BY <2>2, <3>0, NothingPendingOnWord
    <3>3. Pending(a)' = {}
      BY <2>3, <3>2
    <3>4. Overlay(Pending(a)', mem'[a]) = c.val
      BY <3>1, <3>3, OverlayLemma
    <3>5. \A b \in Obj : b # a => Pending(b)' = Pending(b) /\ mem'[b] = mem[b]
      BY <2>3, <3>1, Zenon
    <3>6. absMem' = [absMem EXCEPT ![a] = c.val]
      BY <3>4, <3>5, AbsMemSet, Zenon
    <3> QED
      BY <3>0, <3>6
  <2>5. PhaseOf(t) = "pending" /\ PhaseOf(t)' = "done" /\ RetOf(t)' = Result(c, c.val)
    BY <2>1, <2>2, Zenon DEF PhaseOf, RetOf, Effective
  <2>6. /\ absPhase[t] = "pending" /\ absPhase' = [absPhase EXCEPT ![t] = "done"]
        /\ absRet' = [absRet EXCEPT ![t] = Result(c, c.val)]
    BY <2>1, <2>5, AbsThreadStep
  <2>7. ~ReadsTarget(c) /\ Stores(c, c.val) /\ NewValue(c, c.val) = c.val
    BY <2>2 DEF ReadsTarget, Stores, NewValue
  <2> QED
    BY <2>1, <2>4, <2>6, <2>7, AbstractOperators, Zenon DEF AM!Perform
<1>8. CASE UNCHANGED vars
  <2>1. \A a \in Obj : Pending(a)' = Pending(a)
    BY <1>8 DEF vars, Pending, Storing
  <2>2. absMem' = absMem
    BY <1>8, <2>1, Zenon DEF vars, absMem
  <2>3. absPhase' = absPhase /\ absRet' = absRet
    BY <1>8 DEF vars, absPhase, absRet, Effective
  <2> QED
    BY <1>8, <2>2, <2>3, Zenon DEF vars, AM!vars
<1>9. ASSUME NEW t \in Thread, Step(t) PROVE AM!Next \/ UNCHANGED AM!vars
  BY <1>2, <1>3, <1>4, <1>5, <1>6, <1>7, <1>9 DEF Step, AM!Next
<1> QED
  BY <1>1, <1>8, <1>9 DEF Next, AM!Next

(* The primitives are atomic, for any program that keeps the unlocked      *)
(* __atomic_store_4 away from objects that are updated under their lock.   *)
THEOREM PrimitivesAtomic ==
    ASSUME StoreDiscipline
    PROVE  Spec => Linearizable
<1>1. Init => AM!Init
  <2> SUFFICES ASSUME Init PROVE AM!Init
    OBVIOUS
  <2>1. absMem = mem
    <3>1. \A a \in Obj : Pending(a) = {}
      BY Zenon DEF Init, Pending, Storing
    <3>2. mem = [a \in Obj |-> mem[a]]
      BY DEF Init
    <3> QED
      BY <3>1, <3>2, OverlayLemma DEF absMem
  <2>2. absPhase = [t \in Thread |-> "idle"] /\ absRet = [t \in Thread |-> NoCall.val]
    BY DEF Init, absPhase, absRet, Effective
  <2> QED
    BY <2>1, <2>2, AbstractOperators DEF Init, AM!Init
<1>2. TypeOK /\ StripeMutex /\ LocalsCurrent /\ [Next]_vars /\ TypeOK' /\ StripeMutex'
        => [AM!Next]_(AM!vars)
  BY StepRefines
<1> QED
  BY <1>1, <1>2, TypeCorrect, StripesExclude, LocalsCurrentInv, PTL
     DEF Spec, Linearizable, AM!Spec

------------------------------------------------------------------------------
(* The timed waits. *)
(* A thread that has tried in vain and not woken up since has missed       *)
(* nothing: its object was away at the try.                                *)
TriedInVain == \A t \in Thread : wait_pc[t] \in {"late?", "poll", "ETIMEDOUT"} => ~free[t]

WaitInv == W!TypeOK /\ W!ResultTells /\ TriedInVain

LEMMA WaitInit ==
    ASSUME W!TimedWaitAssumption, W!Init
    PROVE  WaitInv
  BY DEF W!TimedWaitAssumption, W!Init, WaitInv, W!TypeOK, W!ResultTells, TriedInVain, W!Waiting, W!Object

LEMMA AvailableType ==
    ASSUME W!TypeOK, NEW o \in W!Object
    PROVE  W!Available(o) \in BOOLEAN
<1>1. CASE o = "sem"
  <2>1. W!Available(o) <=> value > 0
    BY <1>1 DEF W!Available
  <2>2. (value > 0) \in BOOLEAN
    BY DEF W!TypeOK
  <2> QED
    BY <1>1, <2>1, <2>2 DEF W!Available
<1>2. CASE o = "rd"
  <2>1. W!Available(o) = (writer = NONE)
    BY <1>2, Zenon DEF W!Available
  <2> QED
    BY <2>1
<1>3. CASE o = "wr"
  <2>1. W!Available(o) = (writer = NONE /\ readers = {})
    BY <1>3, Zenon DEF W!Available
  <2> QED
    BY <2>1
<1> QED
  BY <1>1, <1>2, <1>3 DEF W!Object

(* Watch never makes an object free that was not.                          *)
LEMMA WatchOnly ==
    ASSUME W!TypeOK, W!Watch
    PROVE  free' \in [Thread -> BOOLEAN] /\ \A t \in Thread : free'[t] => free[t] /\ W!Available(op[t])'
  BY Zenon DEF W!TypeOK, W!Watch, W!Available, W!Object

------------------------------------------------------------------------------
LEMMA CallStep ==
    ASSUME W!TimedWaitAssumption, WaitInv, NEW t \in Thread, NEW o \in W!Object, NEW d \in Deadlines, W!Call(t, o, d)
    PROVE  WaitInv'
<1>1. d \in 0..MaxTime
  BY DEF W!TimedWaitAssumption
<1>2. W!Available(o) \in BOOLEAN
  BY AvailableType DEF WaitInv
<1>3. W!TypeOK'
  BY <1>1, <1>2 DEF WaitInv, W!TypeOK, W!Call, W!Goto, W!Waiting
<1>4. W!ResultTells'
  BY DEF WaitInv, W!TypeOK, W!ResultTells, W!Call, W!Goto, W!TimedWaitAssumption
<1>5. TriedInVain'
  BY Zenon DEF WaitInv, W!TypeOK, TriedInVain, W!Call, W!Goto
<1> QED
  BY <1>3, <1>4, <1>5 DEF WaitInv

(* A successful try takes the object for t and leaves the others' alone.   *)
LEMMA TakeStep ==
    ASSUME W!TimedWaitAssumption, WaitInv, NEW t \in Thread, wait_pc[t] = "try", W!Available(op[t]), W!Take(t), W!Goto(t, "ok"),
           UNCHANGED <<posts, had, now, set, op, abs_timeout>>, W!Watch
    PROVE  WaitInv'
<1>1. op[t] \in W!Object /\ free' \in [Thread -> BOOLEAN] /\ \A u \in Thread : free'[u] => free[u]
  BY WatchOnly DEF WaitInv, W!TypeOK
<1>2. wait_pc' \in [Thread -> W!Waiting \cup {"user", "ok", "ETIMEDOUT", "error"}] /\ wait_pc'[t] = "ok"
       /\ \A u \in Thread : u # t => wait_pc'[u] = wait_pc[u]
  BY Zenon DEF WaitInv, W!TypeOK, W!Goto, W!Waiting
<1>3. TriedInVain'
  BY <1>1, <1>2, Zenon DEF WaitInv, TriedInVain
<1>4. CASE op[t] = "sem"
  <2>1. value' = value - 1 /\ value > 0 /\ held' = [held EXCEPT ![t] = @ + 1] /\ UNCHANGED <<readers, writer>>
    BY <1>4 DEF W!Take, W!Available
  <2>2. W!TypeOK'
    BY <1>1, <1>2, <2>1, SMTT(60) DEF WaitInv, W!TypeOK
  <2>3. W!ResultTells'
    BY <1>2, <1>4, <2>1 DEF WaitInv, W!TypeOK, W!ResultTells
  <2> QED
    BY <1>3, <2>2, <2>3 DEF WaitInv
<1>5. CASE op[t] = "rd"
  <2>1. readers' = readers \cup {t} /\ UNCHANGED <<value, held, writer>>
    BY <1>5 DEF W!Take
  <2>2. W!TypeOK'
    BY <1>1, <1>2, <2>1, Zenon DEF WaitInv, W!TypeOK
  <2>3. W!ResultTells'
    BY <1>2, <1>5, <2>1 DEF WaitInv, W!TypeOK, W!ResultTells
  <2> QED
    BY <1>3, <2>2, <2>3 DEF WaitInv
<1>6. CASE op[t] = "wr"
  <2>1. writer' = t /\ writer = NONE /\ UNCHANGED <<value, held, readers>>
    BY <1>6 DEF W!Take, W!Available
  <2>2. W!TypeOK'
    BY <1>1, <1>2, <2>1, Zenon DEF WaitInv, W!TypeOK
  <2>3. W!ResultTells'
    BY <1>2, <1>6, <2>1, Zenon DEF WaitInv, W!TypeOK, W!ResultTells, W!TimedWaitAssumption
  <2> QED
    BY <1>3, <2>2, <2>3 DEF WaitInv
<1> QED
  BY <1>1, <1>4, <1>5, <1>6 DEF W!Object

(* A try that takes nothing: in vain, when the object is away, and then it *)
(* is recorded as such; or with an error.                                  *)
LEMMA TryStep ==
    ASSUME W!TimedWaitAssumption, WaitInv, NEW t \in Thread, W!Try(t)
    PROVE  WaitInv'
<1>1. free' \in [Thread -> BOOLEAN] /\ \A u \in Thread : free'[u] => free[u] /\ W!Available(op[u])'
  BY WatchOnly, Zenon DEF WaitInv, W!Try
<1>2. CASE W!Available(op[t]) /\ W!Take(t) /\ W!Goto(t, "ok")
  BY <1>2, TakeStep, Zenon DEF W!Try
<1>3. ASSUME NEW label \in {"late?", "error"}, W!Goto(t, label), label = "late?" => ~W!Available(op[t]),
             UNCHANGED <<value, held, readers, writer>>
      PROVE  WaitInv'
  <2>1. UNCHANGED <<posts, had, now, set, op, abs_timeout>> /\ wait_pc[t] = "try"
    BY Zenon DEF W!Try
  <2>2. wait_pc' \in [Thread -> W!Waiting \cup {"user", "ok", "ETIMEDOUT", "error"}] /\ wait_pc'[t] = label
         /\ \A u \in Thread : u # t => wait_pc'[u] = wait_pc[u]
    BY <1>3, Zenon DEF WaitInv, W!TypeOK, W!Goto, W!Waiting
  <2>3. W!TypeOK'
    BY <1>1, <1>3, <2>1, <2>2, Zenon DEF WaitInv, W!TypeOK
  <2>4. W!ResultTells'
    BY <1>3, <2>1, <2>2 DEF WaitInv, W!TypeOK, W!ResultTells
  <2>5. W!Available(op[t])' <=> W!Available(op[t])
    BY <1>3, <2>1, Zenon DEF W!Available
  <2>6. TriedInVain'
    BY <1>1, <1>3, <2>1, <2>2, <2>5, Zenon DEF WaitInv, TriedInVain
  <2> QED
    BY <2>3, <2>4, <2>6, Zenon DEF WaitInv
<1> QED
  BY <1>2, <1>3, Zenon DEF W!Try

------------------------------------------------------------------------------
LEMMA LookStep ==
    ASSUME WaitInv, NEW t \in Thread, W!Look(t)
    PROVE  WaitInv'
<1>1. PICK label \in {"ETIMEDOUT", "poll"} : W!Goto(t, label)
  BY Zenon DEF W!Look
<1>2. W!TypeOK'
  BY <1>1, Zenon DEF WaitInv, W!TypeOK, W!Look, W!Goto, W!Waiting
<1>3. W!ResultTells'
  BY <1>1 DEF WaitInv, W!TypeOK, W!ResultTells, W!Look, W!Goto
<1>4. TriedInVain'
  BY <1>1 DEF WaitInv, W!TypeOK, TriedInVain, W!Look, W!Goto
<1> QED
  BY <1>2, <1>3, <1>4, Zenon DEF WaitInv

LEMMA WakeStep ==
    ASSUME WaitInv, NEW t \in Thread, W!Wake(t)
    PROVE  WaitInv'
<1>1. W!Available(op[t]) \in BOOLEAN
  BY AvailableType, Zenon DEF WaitInv, W!TypeOK
<1>2. W!TypeOK'
  BY <1>1, Zenon DEF WaitInv, W!TypeOK, W!Wake, W!Goto, W!Waiting
<1>3. W!ResultTells'
  BY DEF WaitInv, W!TypeOK, W!ResultTells, W!Wake, W!Goto
<1>4. TriedInVain'
  BY DEF WaitInv, W!TypeOK, TriedInVain, W!Wake, W!Goto
<1> QED
  BY <1>2, <1>3, <1>4 DEF WaitInv

LEMMA ReturnStep ==
    ASSUME W!TimedWaitAssumption, WaitInv, NEW t \in Thread, W!Return(t)
    PROVE  WaitInv'
<1>1. W!TypeOK'
  BY SMTT(60) DEF WaitInv, W!TypeOK, W!Return, W!Goto, W!Waiting, W!Object, W!TimedWaitAssumption
<1>2. W!ResultTells'
  BY DEF WaitInv, W!TypeOK, W!ResultTells, W!Return, W!Goto
<1>3. TriedInVain'
  BY Zenon DEF WaitInv, W!TypeOK, TriedInVain, W!Return, W!Goto
<1> QED
  BY <1>1, <1>2, <1>3, Zenon DEF WaitInv

(* Posts and unlocks are of threads that do not wait.                      *)
LEMMA PostStep ==
    ASSUME W!TimedWaitAssumption, WaitInv, NEW t \in Thread, W!Post(t)
    PROVE  WaitInv'
<1>1. free' \in [Thread -> BOOLEAN] /\ \A u \in Thread : free'[u] => free[u]
  BY WatchOnly, Zenon DEF WaitInv, W!Post
<1>2. value' \in Nat /\ posts' \in 0..MaxPosts /\ held' \in [Thread -> Nat]
       /\ \A u \in Thread : u # t => held'[u] = held[u]
  BY SMTT(60) DEF WaitInv, W!TypeOK, W!Post, W!TimedWaitAssumption
<1>3. W!TypeOK'
  BY <1>1, <1>2, Zenon DEF WaitInv, W!TypeOK, W!Post
<1>4. W!ResultTells'
  BY <1>2, Zenon DEF WaitInv, W!TypeOK, W!ResultTells, W!Post
<1>5. TriedInVain'
  BY <1>1, Zenon DEF WaitInv, TriedInVain, W!Post
<1> QED
  BY <1>3, <1>4, <1>5 DEF WaitInv

LEMMA UnlockStep ==
    ASSUME W!TimedWaitAssumption, WaitInv, NEW t \in Thread, W!Unlock(t)
    PROVE  WaitInv'
<1>1. free' \in [Thread -> BOOLEAN] /\ \A u \in Thread : free'[u] => free[u]
  BY WatchOnly DEF WaitInv, W!Unlock
<1>2. W!TypeOK'
  BY <1>1 DEF WaitInv, W!TypeOK, W!Unlock
<1>3. W!ResultTells'
  BY Zenon DEF WaitInv, W!TypeOK, W!ResultTells, W!Unlock, W!TimedWaitAssumption
<1>4. TriedInVain'
  BY <1>1, Zenon DEF WaitInv, TriedInVain, W!Unlock
<1> QED
  BY <1>2, <1>3, <1>4 DEF WaitInv

------------------------------------------------------------------------------
LEMMA WaitNext ==
    ASSUME W!TimedWaitAssumption, WaitInv, [W!Next]_waitVars
    PROVE  WaitInv'
<1>1. CASE W!Tick
  BY <1>1, SMTT(60) DEF W!Tick, WaitInv, W!TypeOK, W!ResultTells, TriedInVain, W!TimedWaitAssumption
<1>2. ASSUME NEW n \in 0..MaxTime, W!SetClock(n)
      PROVE  WaitInv'
  BY <1>2, SMTT(60) DEF W!SetClock, WaitInv, W!TypeOK, W!ResultTells, TriedInVain, W!TimedWaitAssumption
<1>3. CASE UNCHANGED waitVars
  BY <1>3 DEF waitVars, WaitInv, W!TypeOK, W!ResultTells, TriedInVain
<1> QED
  BY <1>1, <1>2, <1>3, CallStep, TryStep, LookStep, WakeStep, ReturnStep, PostStep, UnlockStep, Zenon DEF W!Next, W!Steps

(* A step of Threads is a step of the part it exercises. *)
LEMMA ThreadSteps ==
    ASSUME [ThreadsNext]_threadsVars
    PROVE  part' = part /\ [Next]_vars /\ [W!Next]_waitVars
<1>1. CASE UNCHANGED threadsVars
  BY <1>1 DEF threadsVars
<1> QED
  BY <1>1 DEF ThreadsNext

(* The primitives stay atomic, under the same discipline, in a program     *)
(* whose threads also wait.                                                *)
THEOREM ThreadsAtomic ==
    ASSUME StoreDiscipline
    PROVE  ThreadsSpec => Linearizable
<1>1. ThreadsInit => Init
  BY DEF ThreadsInit
<1>2. [ThreadsNext]_threadsVars => [Next]_vars
  BY ThreadSteps
<1>3. ThreadsSpec => Spec
  BY <1>1, <1>2, PTL DEF ThreadsSpec, Spec
<1> QED
  BY <1>3, PrimitivesAtomic, PTL

(* stubs.c:153-173, process.c:580-596 - whatever other threads do between  *)
(* the try, the look at the clock and the poll, and however the clock is   *)
(* set: a call has taken its object exactly when it returns 0, and times   *)
(* out only if the object was away at some moment since it last woke up.   *)
THEOREM WaitTells == ThreadsSpec => []WaitResult
<1>1. ThreadsInit => WaitInv
  BY WaitInit, WaitAssumption DEF ThreadsInit
<1>2. WaitInv /\ [ThreadsNext]_threadsVars => WaitInv'
  BY WaitNext, ThreadSteps, WaitAssumption
<1>3. WaitInv => WaitResult
  BY DEF WaitInv, TriedInVain, W!NotMissed, WaitResult
<1> QED
  BY <1>1, <1>2, <1>3, PTL DEF ThreadsSpec
==============================================================================
