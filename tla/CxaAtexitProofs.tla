--------------------------- MODULE CxaAtexitProofs ---------------------------
(***************************************************************************)
(* Proofs about src/cxa_atexit.c for any number of threads, shared objects *)
(* and table entries.                                                      *)
(***************************************************************************)
EXTENDS CxaAtexit, SequenceTheorems, TLAPS

(* The calls of __cxa_finalize that have consumed what lies above them,    *)
(* and those of them that have consumed the entry they are at.             *)
Good == {f \in Frame : f.index <= f.from /\ f.from <= count /\ Consumed(f)}

Busy == {f \in Good : f.index > 0 /\ f.index \notin in_use}

TypeInv ==
    /\ TypeOK
    /\ cur \in [Thread -> Good]
    /\ stack \in [Thread -> Seq(Busy)]
    /\ \A t \in Thread : pc[t] = "call" => cur[t] \in Busy

LEMMA FrameType ==
    ASSUME NEW f \in Frame
    PROVE  /\ f.dso \in Handle /\ f.index \in Nat /\ f.from \in Nat
           /\ f.index <= CXA_ATEXIT_MAX /\ f.from <= CXA_ATEXIT_MAX
BY CxaAssumption DEF Frame

(* A new call is good, and so is one that moves down past an entry that is *)
(* consumed or is not for it.                                              *)
LEMMA NewIsGood ==
    ASSUME count \in 0..CXA_ATEXIT_MAX, NEW dso \in Handle
    PROVE  [dso |-> dso, index |-> count, from |-> count] \in Good /\ Idle \in Good
<1>1. [dso |-> dso, index |-> count, from |-> count] \in Good
  BY CxaAssumption DEF Good, Frame, Consumed
<1>2. Idle \in Good
  BY CxaAssumption DEF Good, Frame, Consumed, Idle, Handle
<1> QED
  BY <1>1, <1>2

LEMMA DownIsGood ==
    ASSUME NEW f \in Good, f.index > 0, count \in Nat,
           f.index \notin in_use \/ ~Matches(f.dso, f.index)
    PROVE  [f EXCEPT !.index = f.index - 1] \in Good
<1> DEFINE g == [f EXCEPT !.index = f.index - 1]
<1>1. f \in Frame /\ f.index <= f.from /\ f.from <= count /\ Consumed(f)
  BY DEF Good
<1>2. f.index \in Nat /\ f.from \in Nat /\ f.index <= CXA_ATEXIT_MAX
  BY <1>1, FrameType
<1>3. g \in Frame /\ g.index = f.index - 1 /\ g.from = f.from /\ g.dso = f.dso
  BY <1>1, <1>2, CxaAssumption DEF Frame
<1> HIDE DEF g
<1>4. Consumed(g)
  <2>1. SUFFICES ASSUME NEW i \in (g.index + 1)..g.from, Matches(g.dso, i) PROVE i \notin in_use
    BY DEF Consumed
  <2>2. i = f.index \/ i \in (f.index + 1)..f.from
    BY <1>2, <1>3
  <2> QED
    BY <1>1, <1>3, <2>1, <2>2 DEF Consumed, Matches
<1>5. g \in Good
  BY <1>1, <1>2, <1>3, <1>4 DEF Good
<1> QED
  BY <1>5 DEF g

(* Good calls stay good when entries are consumed, or added above them. *)
LEMMA GoodKept ==
    ASSUME count \in Nat, count' \in Nat, count <= count',
           \A i \in 1..count : table'[i] = table[i],
           \A i \in 1..count : i \in in_use' => i \in in_use
    PROVE  Good \subseteq Good' /\ Busy \subseteq Busy'
<1>1. ASSUME NEW f \in Good PROVE f \in Good'
  <2>1. f \in Frame /\ f.index <= f.from /\ f.from <= count /\ Consumed(f)
    BY <1>1 DEF Good
  <2>2. f.index \in Nat /\ f.from \in Nat /\ f.from <= count'
    BY <2>1, FrameType
  <2>3. Consumed(f)'
    <3>1. SUFFICES ASSUME NEW i \in (f.index + 1)..f.from, Matches(f.dso, i)'
                   PROVE  i \notin in_use'
      BY DEF Consumed, Matches
    <3>2. i \in 1..count
      BY <2>1, <2>2
    <3>3. Matches(f.dso, i)
      BY <3>1, <3>2 DEF Matches
    <3> QED
      BY <2>1, <3>2, <3>3 DEF Consumed
  <2> QED
    BY <2>1, <2>2, <2>3 DEF Good
<1>2. Good \subseteq Good'
  BY <1>1
<1>3. ASSUME NEW f \in Busy PROVE f \in Busy'
  <2>1. f \in Good /\ f.index > 0 /\ f.index \notin in_use
    BY <1>3 DEF Busy
  <2>2. f.index \in 1..count
    BY <2>1, FrameType DEF Good
  <2> QED
    BY <1>2, <2>1, <2>2 DEF Busy
<1> QED
  BY <1>2, <1>3

LEMMA StacksKept ==
    ASSUME Good \subseteq Good', Busy \subseteq Busy',
           cur \in [Thread -> Good], stack \in [Thread -> Seq(Busy)]
    PROVE  cur \in [Thread -> Good'] /\ stack \in [Thread -> Seq(Busy')]
<1>1. cur \in [Thread -> Good']
  OBVIOUS
<1>2. ASSUME NEW t \in Thread PROVE stack[t] \in Seq(Busy')
  BY <1>2, SeqMonotonic
<1> QED
  BY <1>1, <1>2

(* The call whose destructor returns. *)
LEMMA TopIsBusy ==
    ASSUME stack \in [Thread -> Seq(Busy)], NEW t \in Thread, stack[t] # <<>>
    PROVE  /\ stack[t][Len(stack[t])] \in Busy
           /\ SubSeq(stack[t], 1, Len(stack[t]) - 1) \in Seq(Busy)
<1>1. stack[t] \in Seq(Busy) /\ Len(stack[t]) \in Nat \ {0}
  OBVIOUS
<1> QED
  BY <1>1

LEMMA TypeInvariant == Spec => []TypeInv
<1>1. Init => TypeInv
  <2>1. SUFFICES ASSUME Init PROVE TypeInv
    OBVIOUS
  <2>2. TypeOK
    <3>1. Idle \in Frame
      BY CxaAssumption DEF Idle, Frame, Handle
    <3> QED
      <4>1. /\ table \in [Entry -> Handle] /\ count \in 0..CXA_ATEXIT_MAX /\ in_use \subseteq 1..count
            /\ before \in 0..CXA_ATEXIT_MAX /\ called \in [Entry -> Nat]
        BY <2>1, CxaAssumption DEF Init, Handle
      <4>2. cur \in [Thread -> Frame] /\ stack \in [Thread -> Seq(Frame)]
        BY <2>1, <3>1 DEF Init
      <4>3. /\ lock \in Thread \cup {NULL} /\ cleanup \in Cleanup /\ exiter \in Thread \cup {NULL}
            /\ pc \in [Thread -> {"user", "walk", "call"}]
        BY <2>1, Zenon DEF Init, Cleanup
      <4> QED
        BY <4>1, <4>2, <4>3 DEF TypeOK
  <2>3. Idle \in Good
    BY <2>2, NewIsGood, Zenon DEF TypeOK, Handle
  <2> QED
    BY <2>1, <2>2, <2>3 DEF Init, TypeInv
<1>2. TypeInv /\ [Next]_vars => TypeInv'
  <2>s. SUFFICES ASSUME TypeInv, [Next]_vars PROVE TypeInv'
    OBVIOUS
  <2>0. /\ TypeOK /\ cur \in [Thread -> Good] /\ stack \in [Thread -> Seq(Busy)]
        /\ count \in Nat /\ \A t \in Thread : pc[t] = "call" => cur[t] \in Busy
    BY <2>s, CxaAssumption DEF TypeInv, TypeOK
  <2>t. Good \subseteq Frame /\ Busy \subseteq Good
    BY DEF Good, Busy
  <2>i. Idle \in Good
    BY <2>0, NewIsGood, Zenon DEF TypeOK, Handle
  <2>1. ASSUME NEW t \in Thread, NEW dso \in Handle, cxa_atexit(t, dso) PROVE TypeInv'
    <3>1. /\ count' \in 0..CXA_ATEXIT_MAX /\ count <= count'
          /\ table' \in [Entry -> Handle] /\ in_use' \subseteq 1..count'
          /\ \A i \in 1..count : table'[i] = table[i]
          /\ \A i \in 1..count : i \in in_use' => i \in in_use
      <4>1. CASE count < CXA_ATEXIT_MAX
        <5>1. /\ table' = [table EXCEPT ![count + 1] = dso] /\ count' = count + 1
              /\ in_use' = in_use \cup {count + 1}
          BY <2>1, <4>1 DEF cxa_atexit
        <5>2. count' \in 0..CXA_ATEXIT_MAX /\ count <= count' /\ count + 1 \in Entry
          BY <2>0, <4>1, <5>1, CxaAssumption DEF Entry
        <5>3. in_use' \subseteq 1..count' /\ \A i \in 1..count : i \in in_use' => i \in in_use
          BY <2>0, <5>1 DEF TypeOK
        <5>4. table' \in [Entry -> Handle] /\ \A i \in 1..count : table'[i] = table[i]
          BY <2>0, <5>1, <5>2, CxaAssumption DEF TypeOK, Entry
        <5> QED
          BY <5>2, <5>3, <5>4
      <4>2. CASE ~(count < CXA_ATEXIT_MAX)
        <5>1. table' = table /\ count' = count /\ in_use' = in_use
          BY <2>1, <4>2 DEF cxa_atexit
        <5>2. /\ table \in [Entry -> Handle] /\ count \in 0..CXA_ATEXIT_MAX
              /\ in_use \subseteq 1..count
          BY <2>0 DEF TypeOK
        <5> QED
          BY <5>1, <5>2, CxaAssumption
      <4> QED
        BY <4>1, <4>2
    <3>2. Good \subseteq Good' /\ Busy \subseteq Busy'
      BY <2>0, <3>1, CxaAssumption, GoodKept
    <3>3. cur' \in [Thread -> Good'] /\ stack' \in [Thread -> Seq(Busy')]
      BY <2>0, <2>1, <3>2, StacksKept DEF cxa_atexit
    <3>4. TypeOK'
      <4>1. cleanup' \in Cleanup
        BY <2>0, <2>1, Zenon DEF cxa_atexit, TypeOK, Cleanup
      <4> QED
        BY <2>0, <2>1, <3>1, <4>1 DEF cxa_atexit, TypeOK
    <3> QED
      BY <2>0, <2>1, <3>2, <3>3, <3>4 DEF cxa_atexit, TypeInv
  <2>2. ASSUME NEW t \in Thread, NEW dso \in Handle, Enter(t, dso),
               cleanup' \in Cleanup, exiter' \in Thread \cup {NULL}, before' \in 0..CXA_ATEXIT_MAX
        PROVE  TypeInv'
    <3> DEFINE f == [dso |-> dso, index |-> count, from |-> count]
    <3>1. f \in Good
      BY <2>0, NewIsGood DEF TypeOK
    <3>2. Good' = Good /\ Busy' = Busy /\ stack' = stack
      BY <2>2 DEF Enter, Good, Busy, Consumed, Matches
    <3>3. cur' = [cur EXCEPT ![t] = f] /\ pc' = [pc EXCEPT ![t] = "walk"]
      BY <2>2 DEF Enter
    <3> HIDE DEF f
    <3>4. cur' \in [Thread -> Good] /\ \A u \in Thread : u # t => cur'[u] = cur[u]
      BY <2>0, <3>1, <3>3
    <3>5. pc' \in [Thread -> {"user", "walk", "call"}] /\ pc'[t] = "walk"
          /\ \A u \in Thread : u # t => pc'[u] = pc[u]
      BY <2>0, <3>3 DEF TypeOK
    <3>6. TypeOK'
      BY <2>0, <2>2, <2>t, <3>4, <3>5 DEF Enter, TypeOK
    <3> QED
      BY <2>0, <3>2, <3>4, <3>5, <3>6 DEF TypeInv
  <2>3. ASSUME NEW t \in Thread, Skip(t) PROVE TypeInv'
    <3> DEFINE f == [cur[t] EXCEPT !.index = cur[t].index - 1]
    <3>1. f \in Good
      BY <2>0, <2>3, DownIsGood DEF Skip
    <3>2. Good' = Good /\ Busy' = Busy /\ stack' = stack /\ pc' = pc
      BY <2>3 DEF Skip, Good, Busy, Consumed, Matches
    <3>3. cur' = [cur EXCEPT ![t] = f] /\ pc[t] = "walk"
      BY <2>3 DEF Skip
    <3> HIDE DEF f
    <3>4. cur' \in [Thread -> Good] /\ \A u \in Thread : u # t => cur'[u] = cur[u]
      BY <2>0, <3>1, <3>3
    <3>5. TypeOK'
      BY <2>0, <2>3, <2>t, <3>4 DEF Skip, TypeOK
    <3> QED
      BY <2>0, <3>2, <3>3, <3>4, <3>5 DEF TypeInv
  <2>4. ASSUME NEW t \in Thread, Take(t) PROVE TypeInv'
    <3>1. /\ count' = count /\ table' = table /\ in_use' = in_use \ {cur[t].index}
          /\ cur' = cur /\ stack' = stack /\ pc' = [pc EXCEPT ![t] = "call"]
          /\ cur[t].index \in in_use
      BY <2>4 DEF Take
    <3>2. Good \subseteq Good' /\ Busy \subseteq Busy'
      BY <2>0, <3>1, GoodKept
    <3>3. cur' \in [Thread -> Good'] /\ stack' \in [Thread -> Seq(Busy')]
      BY <2>0, <3>1, <3>2, StacksKept
    <3>4. cur'[t] \in Busy'
      <4>0. in_use \subseteq 1..count
        BY <2>0 DEF TypeOK
      <4>1. cur[t].index > 0 /\ cur[t].index \notin in_use'
        <5>1. cur[t].index \in 1..count /\ cur[t].index \notin in_use'
          BY <3>1, <4>0, Zenon
        <5> QED
          BY <2>0, <5>1
      <4> QED
        BY <3>1, <3>3, <4>1 DEF Busy
    <3>5. pc' \in [Thread -> {"user", "walk", "call"}] /\ \A u \in Thread : u # t => pc'[u] = pc[u]
      BY <2>0, <3>1 DEF TypeOK
    <3>6. TypeOK'
      BY <2>0, <2>4, <3>5, Zenon DEF Take, TypeOK
    <3> QED
      BY <2>0, <3>1, <3>2, <3>3, <3>4, <3>5, <3>6 DEF TypeInv
  <2>5. ASSUME NEW t \in Thread, Call(t) PROVE TypeInv'
    <3>1. /\ Good' = Good /\ Busy' = Busy
          /\ cur' = [cur EXCEPT ![t] = Idle] /\ pc' = [pc EXCEPT ![t] = "user"]
          /\ stack' = [stack EXCEPT ![t] = Append(@, cur[t])]
      BY <2>5 DEF Call, Good, Busy, Consumed, Matches
    <3>2. cur[t] \in Busy
      BY <2>0, <2>5 DEF Call
    <3>3. cur' \in [Thread -> Good] /\ \A u \in Thread : u # t => cur'[u] = cur[u]
      BY <2>0, <2>i, <3>1
    <3>4. stack' \in [Thread -> Seq(Busy)]
      <4>1. Append(stack[t], cur[t]) \in Seq(Busy)
        BY <2>0, <3>2, AppendProperties
      <4> QED
        BY <2>0, <3>1, <4>1
    <3>5. pc' \in [Thread -> {"user", "walk", "call"}] /\ pc'[t] = "user"
          /\ \A u \in Thread : u # t => pc'[u] = pc[u]
      BY <2>0, <3>1 DEF TypeOK
    <3>6. called' \in [Entry -> Nat]
      <4>1. called \in [Entry -> Nat] /\ called' = [called EXCEPT ![cur[t].index] = called[cur[t].index] + 1]
        BY <2>0, <2>5 DEF Call, TypeOK
      <4>2. cur[t].index \in Entry
        <5>1. cur[t] \in Frame /\ cur[t].index > 0
          BY <3>2, <2>t DEF Busy
        <5> QED
          BY <5>1, FrameType DEF Entry
      <4> QED
        BY <4>1, <4>2
    <3>7. stack' \in [Thread -> Seq(Frame)]
      BY <2>t, <3>4, SeqMonotonic
    <3>8. TypeOK'
      BY <2>0, <2>5, <2>t, <3>3, <3>5, <3>6, <3>7 DEF Call, TypeOK
    <3> QED
      BY <2>0, <3>1, <3>3, <3>4, <3>5, <3>8 DEF TypeInv
  <2>6. ASSUME NEW t \in Thread, Return(t) PROVE TypeInv'
    <3> DEFINE f == stack[t][Len(stack[t])]
               g == [f EXCEPT !.index = f.index - 1]
               q == SubSeq(stack[t], 1, Len(stack[t]) - 1)
    <3>1. /\ Good' = Good /\ Busy' = Busy
          /\ cur' = [cur EXCEPT ![t] = g] /\ pc' = [pc EXCEPT ![t] = "walk"]
          /\ stack' = [stack EXCEPT ![t] = q]
      BY <2>6 DEF Return, Resume, Good, Busy, Consumed, Matches
    <3>2. f \in Busy /\ q \in Seq(Busy)
      BY <2>0, <2>6, TopIsBusy DEF Return, Resume
    <3> HIDE DEF f, q
    <3>3. g \in Good
      BY <2>0, <3>2, DownIsGood DEF Busy
    <3> HIDE DEF g
    <3>4. cur' \in [Thread -> Good] /\ \A u \in Thread : u # t => cur'[u] = cur[u]
      BY <2>0, <3>1, <3>3
    <3>5. stack' \in [Thread -> Seq(Busy)]
      BY <2>0, <3>1, <3>2
    <3>6. pc' \in [Thread -> {"user", "walk", "call"}] /\ pc'[t] = "walk"
          /\ \A u \in Thread : u # t => pc'[u] = pc[u]
      BY <2>0, <3>1 DEF TypeOK
    <3>7. stack' \in [Thread -> Seq(Frame)]
      BY <2>t, <3>5, SeqMonotonic
    <3>8. TypeOK'
      <4>1. lock' = t /\ UNCHANGED <<table, count, in_use, cleanup, called, exiter, before>>
        BY <2>6 DEF Return, Resume
      <4> QED
        BY <2>0, <2>t, <3>4, <3>6, <3>7, <4>1 DEF TypeOK
    <3> QED
      BY <2>0, <3>1, <3>4, <3>5, <3>6, <3>8 DEF TypeInv
  <2>7. ASSUME NEW t \in Thread, Leave(t) PROVE TypeInv'
    <3>1. /\ Good' = Good /\ Busy' = Busy /\ stack' = stack
          /\ cur' = [cur EXCEPT ![t] = Idle] /\ pc' = [pc EXCEPT ![t] = "user"]
      BY <2>7 DEF Leave, Good, Busy, Consumed, Matches
    <3>2. cur' \in [Thread -> Good] /\ \A u \in Thread : u # t => cur'[u] = cur[u]
      BY <2>0, <2>i, <3>1
    <3>3. pc' \in [Thread -> {"user", "walk", "call"}] /\ pc'[t] = "user"
          /\ \A u \in Thread : u # t => pc'[u] = pc[u]
      BY <2>0, <3>1 DEF TypeOK
    <3>4. TypeOK'
      BY <2>0, <2>7, <2>t, <3>2, <3>3 DEF Leave, TypeOK
    <3> QED
      BY <2>0, <3>1, <3>2, <3>3, <3>4 DEF TypeInv
  <2>8. CASE UNCHANGED vars
    BY <2>s, <2>8, Zenon DEF vars, TypeInv, TypeOK, Good, Busy, Consumed, Matches
  <2>9. ASSUME NEW t \in Thread, NEW dso \in Handle, cxa_finalize(t, dso) PROVE TypeInv'
    BY <2>0, <2>2, <2>9 DEF cxa_finalize, TypeOK
  <2>10. ASSUME NEW t \in Thread, Exit(t) PROVE TypeInv'
    <3>1. NULL \in Handle /\ count \in 0..CXA_ATEXIT_MAX
      BY <2>0 DEF Handle, TypeOK
    <3> QED
      BY <2>2, <2>10, <3>1, Zenon DEF Exit, Cleanup
  <2> QED
    BY <2>s, <2>1, <2>3, <2>4, <2>5, <2>6, <2>7, <2>8, <2>9, <2>10 DEF Next, Inside
<1> QED
  BY <1>1, <1>2, PTL DEF Spec

(* Every variable of a behaviour has its type: in particular the table     *)
(* never holds more than CXA_ATEXIT_MAX entries.                           *)
THEOREM TypeCorrect == Spec => []TypeOK
BY TypeInvariant, PTL DEF TypeInv

(* A call of __cxa_finalize passes no entry that it is to run, whatever    *)
(* other calls, nested in it or in other threads, do to the table.         *)
THEOREM NothingPassed == Spec => []Drained
<1>1. TypeInv => Drained
  <2>1. SUFFICES ASSUME TypeInv, NEW t \in Thread
                 PROVE  Consumed(cur[t]) /\ \A n \in 1..Len(stack[t]) : Consumed(stack[t][n])
    BY DEF Drained
  <2>2. cur[t] \in Good /\ stack[t] \in Seq(Busy)
    BY <2>1 DEF TypeInv
  <2>3. ASSUME NEW n \in 1..Len(stack[t]) PROVE stack[t][n] \in Busy
    BY <2>2, <2>3, ElementOfSeq
  <2> QED
    BY <2>2, <2>3 DEF Good, Busy
<1> QED
  BY <1>1, TypeInvariant, PTL

------------------------------------------------------------------------------
LEMMA LockStep ==
    ASSUME TypeOK, LockedWhileWalking, NEW t \in Thread,
           pc' \in [Thread -> {"user", "walk", "call"}],
           \A u \in Thread : u # t => pc'[u] = pc[u],
           \/ lock' = lock /\ (pc'[t] = "walk" <=> pc[t] = "walk")
           \/ lock' = t /\ lock = NULL /\ pc'[t] = "walk"
           \/ lock' = NULL /\ pc[t] = "walk" /\ pc'[t] # "walk"
    PROVE  LockedWhileWalking'
<1>1. ASSUME NEW u \in Thread PROVE lock' = u <=> pc'[u] = "walk"
  BY <1>1, CxaAssumption DEF LockedWhileWalking
<1> QED
  BY <1>1 DEF LockedWhileWalking

(* The lock is held by the thread that walks the table and by no thread   *)
(* that is in a destructor.                                                *)
THEOREM UnlockedInDestructors == Spec => []LockedWhileWalking
<1>1. Init => LockedWhileWalking
  BY CxaAssumption DEF Init, LockedWhileWalking
<1>2. TypeOK /\ TypeOK' /\ LockedWhileWalking /\ [Next]_vars => LockedWhileWalking'
  <2>s. SUFFICES ASSUME TypeOK, TypeOK', LockedWhileWalking, [Next]_vars PROVE LockedWhileWalking'
    OBVIOUS
  <2>0. /\ pc \in [Thread -> {"user", "walk", "call"}] /\ pc' \in [Thread -> {"user", "walk", "call"}]
        /\ LockedWhileWalking /\ TypeOK
    BY <2>s DEF TypeOK
  <2>1. ASSUME NEW t \in Thread, NEW dso \in Handle, cxa_atexit(t, dso) PROVE LockedWhileWalking'
    BY <2>0, <2>1 DEF cxa_atexit, LockedWhileWalking
  <2>2. ASSUME NEW t \in Thread, NEW dso \in Handle, Enter(t, dso) PROVE LockedWhileWalking'
    <3>1. lock = NULL /\ lock' = t /\ pc'[t] = "walk" /\ \A u \in Thread : u # t => pc'[u] = pc[u]
      BY <2>0, <2>2 DEF Enter
    <3> QED
      BY <2>0, <3>1, LockStep
  <2>3. ASSUME NEW t \in Thread, Skip(t) PROVE LockedWhileWalking'
    BY <2>0, <2>3 DEF Skip, LockedWhileWalking
  <2>4. ASSUME NEW t \in Thread, Take(t) PROVE LockedWhileWalking'
    <3>1. lock' = NULL /\ pc[t] = "walk" /\ pc'[t] = "call" /\ \A u \in Thread : u # t => pc'[u] = pc[u]
      BY <2>0, <2>4 DEF Take
    <3> QED
      BY <2>0, <3>1, LockStep
  <2>5. ASSUME NEW t \in Thread, Call(t) PROVE LockedWhileWalking'
    <3>1. lock' = lock /\ pc[t] = "call" /\ pc'[t] = "user" /\ \A u \in Thread : u # t => pc'[u] = pc[u]
      BY <2>0, <2>5 DEF Call
    <3> QED
      BY <2>0, <3>1, LockStep
  <2>6. ASSUME NEW t \in Thread, Return(t) PROVE LockedWhileWalking'
    <3>1. lock = NULL /\ lock' = t /\ pc'[t] = "walk" /\ \A u \in Thread : u # t => pc'[u] = pc[u]
      BY <2>0, <2>6 DEF Return, Resume
    <3> QED
      BY <2>0, <3>1, LockStep
  <2>7. ASSUME NEW t \in Thread, Leave(t) PROVE LockedWhileWalking'
    <3>1. lock' = NULL /\ pc[t] = "walk" /\ pc'[t] = "user" /\ \A u \in Thread : u # t => pc'[u] = pc[u]
      BY <2>0, <2>7 DEF Leave
    <3> QED
      BY <2>0, <3>1, LockStep
  <2>8. CASE UNCHANGED vars
    BY <2>s, <2>8 DEF vars, LockedWhileWalking
  <2>9. NULL \in Handle
    BY DEF Handle
  <2> QED
    BY <2>s, <2>1, <2>2, <2>3, <2>4, <2>5, <2>6, <2>7, <2>8, <2>9 DEF Next, Inside, cxa_finalize, Exit
<1> QED
  BY <1>1, <1>2, TypeCorrect, PTL DEF Spec

------------------------------------------------------------------------------
(* An entry has not been called while it is in use, or while a thread is   *)
(* about to call it, and at most one thread is.                            *)
OnceInv ==
    /\ \A i \in Entry : called[i] \in {0, 1}
    /\ \A i \in Entry : i \in in_use \/ i > count => called[i] = 0
    /\ \A t \in Thread : pc[t] = "call" => called[cur[t].index] = 0
    /\ \A t, u \in Thread :
        pc[t] = "call" /\ pc[u] = "call" /\ cur[t].index = cur[u].index => t = u

(* Steps that call nothing and bring no thread before a call. *)
LEMMA OnceKept ==
    ASSUME OnceInv, called' = called,
           \A t \in Thread : pc'[t] = "call" => pc[t] = "call" /\ cur'[t] = cur[t],
           \A i \in Entry : i \in in_use' \/ i > count' => i \in in_use \/ i > count
    PROVE  OnceInv'
<1>1. (\A i \in Entry : called[i] \in {0, 1})'
      /\ (\A i \in Entry : i \in in_use \/ i > count => called[i] = 0)'
  BY DEF OnceInv
<1>2. \A t \in Thread : pc'[t] = "call" => called'[cur'[t].index] = 0
  BY DEF OnceInv
<1>3. \A t, u \in Thread :
        pc'[t] = "call" /\ pc'[u] = "call" /\ cur'[t].index = cur'[u].index => t = u
  BY DEF OnceInv
<1> QED
  BY <1>1, <1>2, <1>3 DEF OnceInv

LEMMA OnceInvariant == Spec => []OnceInv
<1>1. Init => OnceInv
  BY DEF Init, OnceInv
<1>2. TypeInv /\ OnceInv /\ [Next]_vars => OnceInv'
  <2>s. SUFFICES ASSUME TypeInv, OnceInv, [Next]_vars PROVE OnceInv'
    OBVIOUS
  <2>0. /\ pc \in [Thread -> {"user", "walk", "call"}] /\ cur \in [Thread -> Frame]
        /\ called \in [Entry -> Nat] /\ in_use \subseteq 1..count /\ count \in 0..CXA_ATEXIT_MAX
        /\ OnceInv
    BY <2>s DEF TypeInv, TypeOK
  <2>c. ASSUME NEW t \in Thread, pc[t] = "call"
        PROVE  /\ cur[t].index \in Entry /\ cur[t].index <= count /\ cur[t].index \notin in_use
    <3>1. cur[t] \in Frame /\ cur[t].index > 0 /\ cur[t].index \notin in_use
          /\ cur[t].index <= cur[t].from /\ cur[t].from <= count
      BY <2>s, <2>c DEF TypeInv, Busy, Good
    <3>2. cur[t].index \in Nat /\ cur[t].from \in Nat /\ cur[t].index <= CXA_ATEXIT_MAX /\ count \in Nat
      BY <2>0, <3>1, FrameType
    <3> QED
      BY <3>1, <3>2 DEF Entry
  <2>1. ASSUME NEW t \in Thread, NEW dso \in Handle, cxa_atexit(t, dso) PROVE OnceInv'
    <3>1. called' = called /\ pc' = pc /\ cur' = cur
      BY <2>1 DEF cxa_atexit
    <3>2. ASSUME NEW i \in Entry, i \in in_use' \/ i > count' PROVE i \in in_use \/ i > count
      <4>1. CASE count < CXA_ATEXIT_MAX
        <5>1. count' = count + 1 /\ in_use' = in_use \cup {count + 1}
          BY <2>1, <4>1 DEF cxa_atexit
        <5> QED
          BY <2>0, <3>2, <5>1, CxaAssumption DEF Entry
      <4>2. CASE ~(count < CXA_ATEXIT_MAX)
        BY <2>1, <3>2, <4>2 DEF cxa_atexit
      <4> QED
        BY <4>1, <4>2
    <3> QED
      BY <2>0, <3>1, <3>2, OnceKept
  <2>2. ASSUME NEW t \in Thread, NEW dso \in Handle, Enter(t, dso) PROVE OnceInv'
    <3>1. called' = called /\ count' = count /\ in_use' = in_use
      BY <2>2 DEF Enter
    <3>2. \A u \in Thread : pc'[u] = "call" => pc[u] = "call" /\ cur'[u] = cur[u]
      BY <2>0, <2>2 DEF Enter
    <3> QED
      BY <2>0, <3>1, <3>2, OnceKept
  <2>3. ASSUME NEW t \in Thread, Skip(t) PROVE OnceInv'
    <3>1. called' = called /\ count' = count /\ in_use' = in_use
      BY <2>3 DEF Skip
    <3>2. \A u \in Thread : pc'[u] = "call" => pc[u] = "call" /\ cur'[u] = cur[u]
      BY <2>0, <2>3 DEF Skip
    <3> QED
      BY <2>0, <3>1, <3>2, OnceKept
  <2>4. ASSUME NEW t \in Thread, Take(t) PROVE OnceInv'
    <3>1. /\ called' = called /\ count' = count /\ cur' = cur
          /\ in_use' = in_use \ {cur[t].index} /\ cur[t].index \in in_use
      BY <2>4 DEF Take
    <3>2. \A u \in Thread : pc'[u] = "call" => u = t \/ pc[u] = "call"
      BY <2>0, <2>4 DEF Take
    <3>3. cur[t].index \in Entry /\ called[cur[t].index] = 0
      <4>1. cur[t].index \in 1..count
        BY <2>0, <3>1, Zenon
      <4>2. cur[t].index \in Entry
        BY <2>0, <4>1, CxaAssumption DEF Entry
      <4> QED
        BY <2>0, <3>1, <4>2, Zenon DEF OnceInv
    <3>4. \A u \in Thread : pc[u] = "call" => cur[u].index # cur[t].index
      BY <2>c, <3>1
    <3>5. (\A i \in Entry : called[i] \in {0, 1})'
          /\ (\A i \in Entry : i \in in_use \/ i > count => called[i] = 0)'
      BY <2>0, <3>1 DEF OnceInv
    <3>6. \A u \in Thread : pc'[u] = "call" => called'[cur'[u].index] = 0
      BY <2>0, <3>1, <3>2, <3>3 DEF OnceInv
    <3>7. \A u, v \in Thread :
            pc'[u] = "call" /\ pc'[v] = "call" /\ cur'[u].index = cur'[v].index => u = v
      BY <2>0, <3>1, <3>2, <3>4 DEF OnceInv
    <3> QED
      BY <3>5, <3>6, <3>7 DEF OnceInv
  <2>5. ASSUME NEW t \in Thread, Call(t) PROVE OnceInv'
    <3> DEFINE k == cur[t].index
    <3>1. /\ pc[t] = "call" /\ pc'[t] = "user" /\ cur' = [cur EXCEPT ![t] = Idle]
          /\ count' = count /\ in_use' = in_use
          /\ called' = [called EXCEPT ![k] = called[k] + 1]
      BY <2>0, <2>5 DEF Call
    <3>2. k \in Entry /\ k <= count /\ k \notin in_use /\ called[k] = 0
      BY <2>0, <2>c, <3>1 DEF OnceInv
    <3>3. \A u \in Thread : pc'[u] = "call" => pc[u] = "call" /\ u # t /\ cur'[u] = cur[u]
      BY <2>0, <2>5 DEF Call
    <3>4. \A u \in Thread : pc'[u] = "call" => cur[u].index # k /\ cur[u].index \in Entry
      BY <2>0, <2>c, <3>1, <3>3 DEF OnceInv
    <3> HIDE DEF k
    <3>5. called'[k] = 1 /\ \A i \in Entry : i # k => called'[i] = called[i]
      BY <2>0, <3>1, <3>2
    <3>6. /\ \A i \in Entry : called'[i] \in {0, 1}
          /\ \A i \in Entry : i \in in_use' \/ i > count' => called'[i] = 0
      <4>1. \A i \in Entry : i > count => i # k
        BY <2>0, <3>2, CxaAssumption DEF Entry
      <4> QED
        BY <2>0, <3>1, <3>2, <3>5, <4>1 DEF OnceInv
    <3>7. ASSUME NEW u \in Thread, pc'[u] = "call" PROVE called'[cur'[u].index] = 0
      <4>1. pc[u] = "call" /\ cur'[u] = cur[u] /\ cur[u].index # k /\ cur[u].index \in Entry
        BY <3>3, <3>4, <3>7
      <4>2. called[cur[u].index] = 0
        BY <2>0, <4>1 DEF OnceInv
      <4> QED
        BY <3>5, <4>1, <4>2
    <3>8. \A u, v \in Thread :
            pc'[u] = "call" /\ pc'[v] = "call" /\ cur'[u].index = cur'[v].index => u = v
      BY <2>0, <3>3 DEF OnceInv
    <3> QED
      BY <3>6, <3>7, <3>8 DEF OnceInv
  <2>6. ASSUME NEW t \in Thread, Return(t) PROVE OnceInv'
    <3>1. called' = called /\ count' = count /\ in_use' = in_use
      BY <2>6 DEF Return, Resume
    <3>2. \A u \in Thread : pc'[u] = "call" => pc[u] = "call" /\ cur'[u] = cur[u]
      BY <2>0, <2>6 DEF Return, Resume
    <3> QED
      BY <2>0, <3>1, <3>2, OnceKept
  <2>7. ASSUME NEW t \in Thread, Leave(t) PROVE OnceInv'
    <3>1. called' = called /\ count' = count /\ in_use' = in_use
      BY <2>7 DEF Leave
    <3>2. \A u \in Thread : pc'[u] = "call" => pc[u] = "call" /\ cur'[u] = cur[u]
      BY <2>0, <2>7 DEF Leave
    <3> QED
      BY <2>0, <3>1, <3>2, OnceKept
  <2>8. CASE UNCHANGED vars
    BY <2>0, <2>8 DEF vars, OnceInv
  <2>9. NULL \in Handle
    BY DEF Handle
  <2> QED
    BY <2>s, <2>1, <2>2, <2>3, <2>4, <2>5, <2>6, <2>7, <2>8, <2>9 DEF Next, Inside, cxa_finalize, Exit
<1> QED
  BY <1>1, <1>2, TypeInvariant, PTL DEF Spec

(* No destructor is called twice, whichever threads finalize whatever      *)
(* shared objects at the same time and however calls are nested.           *)
THEOREM CalledOnce == Spec => []AtMostOnce
<1>1. OnceInv => AtMostOnce
  BY DEF OnceInv, AtMostOnce
<1> QED
  BY <1>1, OnceInvariant, PTL

------------------------------------------------------------------------------
(* No destructor is lost: an entry is in use, has been called, or is with  *)
(* the thread that took it and is about to call it.                        *)
Settled ==
    \A i \in 1..count :
        i \in in_use \/ called[i] > 0 \/ \E u \in Thread : pc[u] = "call" /\ cur[u].index = i

LEMMA SettledKept ==
    ASSUME Settled, count' = count, in_use' = in_use, called' = called,
           \A u \in Thread : pc[u] = "call" => pc'[u] = "call" /\ cur'[u] = cur[u]
    PROVE  Settled'
<1>1. ASSUME NEW i \in 1..count
      PROVE  i \in in_use' \/ called'[i] > 0 \/ \E u \in Thread : pc'[u] = "call" /\ cur'[u].index = i
  <2>1. CASE \E u \in Thread : pc[u] = "call" /\ cur[u].index = i
    BY <2>1
  <2>2. CASE i \in in_use \/ called[i] > 0
    BY <2>2
  <2> QED
    BY <2>1, <2>2 DEF Settled
<1> QED
  BY <1>1 DEF Settled

LEMMA SettledInvariant == Spec => []Settled
<1>1. Init => Settled
  BY DEF Init, Settled
<1>2. TypeInv /\ Settled /\ [Next]_vars => Settled'
  <2>s. SUFFICES ASSUME TypeInv, Settled, [Next]_vars PROVE Settled'
    OBVIOUS
  <2>0. /\ pc \in [Thread -> {"user", "walk", "call"}] /\ cur \in [Thread -> Frame]
        /\ called \in [Entry -> Nat] /\ count \in 0..CXA_ATEXIT_MAX /\ Settled
    BY <2>s DEF TypeInv, TypeOK
  <2>1. ASSUME NEW t \in Thread, NEW dso \in Handle, cxa_atexit(t, dso) PROVE Settled'
    <3>1. called' = called /\ pc' = pc /\ cur' = cur
      BY <2>1 DEF cxa_atexit
    <3>2. CASE count < CXA_ATEXIT_MAX
      <4>1. count' = count + 1 /\ in_use' = in_use \cup {count + 1}
        BY <2>1, <3>2 DEF cxa_atexit
      <4>2. \A i \in 1..count' : i \in 1..count \/ i = count + 1
        BY <2>0, <4>1, CxaAssumption
      <4> QED
        BY <2>0, <3>1, <4>1, <4>2 DEF Settled
    <3>3. CASE ~(count < CXA_ATEXIT_MAX)
      BY <2>0, <2>1, <3>1, <3>3 DEF cxa_atexit, Settled
    <3> QED
      BY <3>2, <3>3
  <2>2. ASSUME NEW t \in Thread, NEW dso \in Handle, Enter(t, dso) PROVE Settled'
    <3>1. \A u \in Thread : pc[u] = "call" => pc'[u] = "call" /\ cur'[u] = cur[u]
      BY <2>0, <2>2 DEF Enter
    <3>2. count' = count /\ in_use' = in_use /\ called' = called
      BY <2>2 DEF Enter
    <3> QED
      BY <2>0, <3>1, <3>2, SettledKept
  <2>3. ASSUME NEW t \in Thread, Skip(t) PROVE Settled'
    <3>1. \A u \in Thread : pc[u] = "call" => pc'[u] = "call" /\ cur'[u] = cur[u]
      BY <2>0, <2>3 DEF Skip
    <3>2. count' = count /\ in_use' = in_use /\ called' = called
      BY <2>3 DEF Skip
    <3> QED
      BY <2>0, <3>1, <3>2, SettledKept
  <2>4. ASSUME NEW t \in Thread, Take(t) PROVE Settled'
    <3>1. /\ count' = count /\ called' = called /\ cur' = cur
          /\ in_use' = in_use \ {cur[t].index}
          /\ pc'[t] = "call" /\ \A u \in Thread : pc[u] = "call" => pc'[u] = "call"
      BY <2>0, <2>4 DEF Take
    <3> QED
      BY <2>0, <3>1 DEF Settled
  <2>5. ASSUME NEW t \in Thread, Call(t) PROVE Settled'
    <3> DEFINE k == cur[t].index
    <3>1. /\ count' = count /\ in_use' = in_use /\ called' = [called EXCEPT ![k] = called[k] + 1]
          /\ \A u \in Thread : u # t => pc'[u] = pc[u] /\ cur'[u] = cur[u]
      BY <2>0, <2>5 DEF Call
    <3>2. ASSUME NEW i \in 1..count
          PROVE  \/ i \in in_use' \/ called'[i] > 0
                 \/ \E u \in Thread : pc'[u] = "call" /\ cur'[u].index = i
      <4>1. i \in Entry /\ called[i] \in Nat
        BY <2>0, CxaAssumption DEF Entry
      <4>2. CASE i = k
        BY <2>0, <3>1, <4>1, <4>2
      <4>3. CASE i # k
        <5>1. called'[i] = called[i]
          BY <2>0, <3>1, <4>1, <4>3
        <5> QED
          BY <2>0, <3>1, <4>3, <5>1 DEF Settled
      <4> QED
        BY <4>2, <4>3
    <3> QED
      BY <3>1, <3>2 DEF Settled
  <2>6. ASSUME NEW t \in Thread, Return(t) PROVE Settled'
    <3>1. \A u \in Thread : pc[u] = "call" => pc'[u] = "call" /\ cur'[u] = cur[u]
      BY <2>0, <2>6 DEF Return, Resume
    <3>2. count' = count /\ in_use' = in_use /\ called' = called
      BY <2>6 DEF Return, Resume
    <3> QED
      BY <2>0, <3>1, <3>2, SettledKept
  <2>7. ASSUME NEW t \in Thread, Leave(t) PROVE Settled'
    <3>1. \A u \in Thread : pc[u] = "call" => pc'[u] = "call" /\ cur'[u] = cur[u]
      BY <2>0, <2>7 DEF Leave
    <3>2. count' = count /\ in_use' = in_use /\ called' = called
      BY <2>7 DEF Leave
    <3> QED
      BY <2>0, <3>1, <3>2, SettledKept
  <2>8. CASE UNCHANGED vars
    BY <2>0, <2>8, SettledKept DEF vars
  <2>9. NULL \in Handle
    BY DEF Handle
  <2> QED
    BY <2>s, <2>1, <2>2, <2>3, <2>4, <2>5, <2>6, <2>7, <2>8, <2>9 DEF Next, Inside, cxa_finalize, Exit
<1> QED
  BY <1>1, <1>2, TypeInvariant, PTL DEF Spec

(* Destructors run in the reverse of the order of their registration, as   *)
(* far as one call of __cxa_finalize decides it: when a thread is about to *)
(* call one, every later one the call is to run has been called or is with *)
(* another thread that took it.                                            *)
THEOREM LaterOnesFirst == Spec => []ReverseOrder
<1>1. TypeInv /\ Settled => ReverseOrder
  <2>1. SUFFICES ASSUME TypeInv, Settled, NEW t \in Thread, pc[t] = "call",
                        NEW i \in (cur[t].index + 1)..cur[t].from, Matches(cur[t].dso, i)
                 PROVE  CalledBut(t, i)
    BY DEF ReverseOrder
  <2>2. cur[t] \in Frame /\ cur[t].from <= count /\ Consumed(cur[t]) /\ count \in 0..CXA_ATEXIT_MAX
    BY <2>1 DEF TypeInv, TypeOK, Good
  <2>3. i \in 1..count /\ i # cur[t].index
    BY <2>2, FrameType, CxaAssumption
  <2>4. i \notin in_use
    BY <2>1, <2>2 DEF Consumed
  <2> QED
    BY <2>1, <2>3, <2>4 DEF Settled, CalledBut
<1> QED
  BY <1>1, TypeInvariant, SettledInvariant, PTL

------------------------------------------------------------------------------
(* exit()'s own call of __cxa_finalize: the outermost of the thread. *)
ExitFrame(f) == f.dso = NULL /\ f.from = before

AtExit ==
    \/ stack[exiter] # <<>> /\ ExitFrame(stack[exiter][1])
    \/ stack[exiter] = <<>> /\ pc[exiter] # "user" /\ ExitFrame(cur[exiter])

(* cxa_atexit_cleanup has not been run, and was offered to atexit() before *)
(* anything was registered.                                                *)
ToRun == cleanup # "run" /\ (in_use # {} => cleanup # "none")

(* exit() will run what is registered before it; it is on its way, or has  *)
(* consumed all that was there.                                            *)
ExitInv ==
    /\ exiter = NULL => ToRun
    /\ exiter # NULL => /\ before <= count
                        /\ AtExit \/ \A i \in 1..before : i \notin in_use

(* A step after exit() was called, or that does not call it. *)
LEMMA ExitKept ==
    ASSUME TypeInv, ExitInv, exiter' = exiter, before' = before,
           count' \in Nat, count <= count',
           \A i \in 1..count : i \in in_use' => i \in in_use,
           exiter = NULL => ToRun',
           exiter \in Thread /\ AtExit => AtExit' \/ \A i \in 1..before : i \notin in_use
    PROVE  ExitInv'
<1>1. count \in Nat /\ before \in Nat /\ exiter \in Thread \cup {NULL}
  BY CxaAssumption DEF TypeInv, TypeOK
<1>2. ASSUME exiter # NULL PROVE before <= count' /\ (AtExit' \/ \A i \in 1..before : i \notin in_use')
  <2>1. before <= count
    BY <1>2 DEF ExitInv
  <2>2. before <= count' /\ \A i \in 1..before : i \in 1..count
    BY <1>1, <2>1
  <2>3. AtExit' \/ \A i \in 1..before : i \notin in_use
    BY <1>1, <1>2 DEF ExitInv
  <2> QED
    BY <2>2, <2>3
<1> QED
  BY <1>2 DEF ExitInv

(* The same for steps that add no entry. *)
LEMMA ExitKeptInside ==
    ASSUME TypeInv, ExitInv, exiter' = exiter, before' = before, cleanup' = cleanup,
           count' = count, in_use' \subseteq in_use,
           exiter \in Thread /\ AtExit => AtExit' \/ \A i \in 1..before : i \notin in_use
    PROVE  ExitInv'
<1>1. count' \in Nat /\ count <= count'
  BY CxaAssumption DEF TypeInv, TypeOK
<1>2. exiter = NULL => ToRun'
  BY DEF ExitInv, ToRun
<1>3. \A i \in 1..count : i \in in_use' => i \in in_use
  OBVIOUS
<1> QED
  BY <1>1, <1>2, <1>3, ExitKept

(* What AtExit speaks of is the state of exit()'s thread. *)
LEMMA ExitElsewhere ==
    ASSUME AtExit, exiter' = exiter, before' = before,
           stack'[exiter] = stack[exiter], pc'[exiter] = pc[exiter], cur'[exiter] = cur[exiter]
    PROVE  AtExit'
BY DEF AtExit, ExitFrame

(* The outermost call stays when an inner one goes on. *)
LEMMA BottomStays ==
    ASSUME NEW S, NEW q \in Seq(S), Len(q) > 1
    PROVE  SubSeq(q, 1, Len(q) - 1) # <<>> /\ SubSeq(q, 1, Len(q) - 1)[1] = q[1]
<1> DEFINE n == Len(q) - 1
<1>1. n \in Int /\ 1 <= n /\ \A i \in 1..n : q[i] \in S
  OBVIOUS
<1> HIDE DEF n
<1>2. SubSeq(q, 1, n) \in Seq(S) /\ Len(SubSeq(q, 1, n)) >= 1 /\ SubSeq(q, 1, n)[1] = q[1]
  BY <1>1, SubSeqProperties
<1>3. SubSeq(q, 1, n) # <<>>
  BY <1>2
<1> QED
  BY <1>2, <1>3 DEF n

LEMMA ExitInvariant == Spec => []ExitInv
<1>1. Init => ExitInv
  BY DEF Init, ExitInv, ToRun
<1>2. TypeInv /\ ExitInv /\ [Next]_vars => ExitInv'
  <2>s. SUFFICES ASSUME TypeInv, ExitInv, [Next]_vars PROVE ExitInv'
    OBVIOUS
  <2>0. /\ pc \in [Thread -> {"user", "walk", "call"}] /\ cur \in [Thread -> Frame]
        /\ stack \in [Thread -> Seq(Frame)] /\ exiter \in Thread \cup {NULL}
        /\ count \in Nat /\ before \in Nat /\ in_use \subseteq 1..count
        /\ TypeInv /\ ExitInv
    BY <2>s, CxaAssumption DEF TypeInv, TypeOK
  <2>1. ASSUME NEW t \in Thread, NEW dso \in Handle, cxa_atexit(t, dso) PROVE ExitInv'
    <3>1. /\ exiter' = exiter /\ before' = before /\ pc' = pc /\ cur' = cur /\ stack' = stack
          /\ exiter = NULL => ToRun'
      <4>1. cleanup' \in IF cleanup = "none" THEN {"listed", "refused"} ELSE {cleanup}
        BY <2>1, Zenon DEF cxa_atexit
      <4>2. exiter = NULL => cleanup' # "none" /\ cleanup' # "run"
        BY <2>0, <4>1 DEF ExitInv, ToRun
      <4> QED
        BY <2>1, <4>2, Zenon DEF cxa_atexit, ToRun
    <3>2. count' \in Nat /\ count <= count' /\ \A i \in 1..count : i \in in_use' => i \in in_use
      <4>1. CASE count < CXA_ATEXIT_MAX
        BY <2>0, <2>1, <4>1 DEF cxa_atexit
      <4>2. CASE ~(count < CXA_ATEXIT_MAX)
        BY <2>0, <2>1, <4>2 DEF cxa_atexit
      <4> QED
        BY <4>1, <4>2
    <3>3. AtExit => AtExit'
      BY <3>1, ExitElsewhere
    <3> QED
      BY <2>0, <3>1, <3>2, <3>3, ExitKept
  <2>2. ASSUME NEW t \in Thread, NEW dso \in Handle, cxa_finalize(t, dso) PROVE ExitInv'
    <3>1. /\ exiter' = exiter /\ before' = before /\ count' = count /\ in_use' = in_use
          /\ cleanup' = cleanup /\ stack' = stack /\ pc[t] = "user"
      BY <2>2 DEF cxa_finalize, Enter
    <3>2. \A u \in Thread : u # t => pc'[u] = pc[u] /\ cur'[u] = cur[u]
      BY <2>0, <2>2 DEF cxa_finalize, Enter
    <3>3. ASSUME exiter \in Thread, AtExit PROVE AtExit'
      <4>1. CASE exiter = t
        BY <3>1, <3>3, <4>1 DEF AtExit, ExitFrame
      <4>2. CASE exiter # t
        BY <3>1, <3>2, <3>3, <4>2, ExitElsewhere
      <4> QED
        BY <4>1, <4>2
    <3> QED
      BY <2>0, <3>1, <3>3, ExitKeptInside
  <2>3. ASSUME NEW t \in Thread, Exit(t) PROVE ExitInv'
    <3> DEFINE f == [dso |-> NULL, index |-> count, from |-> count]
    <3>1. /\ exiter' = t /\ before' = count /\ count' = count /\ stack' = stack /\ stack[t] = <<>>
          /\ cur' = [cur EXCEPT ![t] = f] /\ pc' = [pc EXCEPT ![t] = "walk"]
      BY <2>3 DEF Exit, Enter
    <3>2. stack'[exiter'] = <<>> /\ pc'[exiter'] = "walk" /\ cur'[exiter'] = f
      BY <2>0, <3>1
    <3>3. f.dso = NULL /\ f.from = count
      OBVIOUS
    <3>4. AtExit'
      BY <3>1, <3>2, <3>3 DEF AtExit, ExitFrame
    <3>5. exiter' # NULL /\ before' <= count'
      BY <2>0, <3>1, CxaAssumption
    <3> QED
      BY <3>4, <3>5 DEF ExitInv
  <2>4. ASSUME NEW t \in Thread, Skip(t) \/ Take(t) PROVE ExitInv'
    <3>1. /\ exiter' = exiter /\ before' = before /\ count' = count /\ in_use' \subseteq in_use
          /\ cleanup' = cleanup /\ stack' = stack /\ pc[t] = "walk" /\ pc'[t] # "user"
      BY <2>0, <2>4 DEF Skip, Take
    <3>2. /\ \A u \in Thread : u # t => pc'[u] = pc[u] /\ cur'[u] = cur[u]
          /\ cur'[t].dso = cur[t].dso /\ cur'[t].from = cur[t].from
      <4>1. CASE Skip(t)
        <5>1. cur' = [cur EXCEPT ![t] = [cur[t] EXCEPT !.index = cur[t].index - 1]] /\ pc' = pc
          BY <4>1 DEF Skip
        <5>2. cur[t] \in Frame
          BY <2>0
        <5> QED
          BY <2>0, <5>1, <5>2 DEF Frame
      <4>2. CASE Take(t)
        BY <2>0, <4>2 DEF Take
      <4> QED
        BY <2>4, <4>1, <4>2
    <3>3. ASSUME exiter \in Thread, AtExit PROVE AtExit'
      <4>1. CASE exiter = t
        BY <3>1, <3>2, <3>3, <4>1 DEF AtExit, ExitFrame
      <4>2. CASE exiter # t
        BY <3>1, <3>2, <3>3, <4>2, ExitElsewhere
      <4> QED
        BY <4>1, <4>2
    <3> QED
      BY <2>0, <3>1, <3>3, ExitKeptInside
  <2>5. ASSUME NEW t \in Thread, Call(t) PROVE ExitInv'
    <3>1. /\ exiter' = exiter /\ before' = before /\ count' = count /\ in_use' = in_use
          /\ cleanup' = cleanup /\ stack'[t] = Append(stack[t], cur[t])
          /\ \A u \in Thread : u # t => pc'[u] = pc[u] /\ cur'[u] = cur[u] /\ stack'[u] = stack[u]
      BY <2>0, <2>5 DEF Call
    <3>2. /\ stack'[t] # <<>>
          /\ stack[t] = <<>> => stack'[t][1] = cur[t]
          /\ stack[t] # <<>> => stack'[t][1] = stack[t][1]
      <4>1. stack[t] \in Seq(Frame) /\ cur[t] \in Frame
        BY <2>0
      <4> QED
        BY <3>1, <4>1, AppendProperties
    <3>3. ASSUME exiter \in Thread, AtExit PROVE AtExit'
      <4>1. CASE exiter = t
        BY <3>1, <3>2, <3>3, <4>1 DEF AtExit, ExitFrame
      <4>2. CASE exiter # t
        BY <3>1, <3>3, <4>2, ExitElsewhere
      <4> QED
        BY <4>1, <4>2
    <3> QED
      BY <2>0, <3>1, <3>3, ExitKeptInside
  <2>6. ASSUME NEW t \in Thread, Return(t) PROVE ExitInv'
    <3> DEFINE q == stack[t]
               f == q[Len(q)]
    <3>1. /\ exiter' = exiter /\ before' = before /\ count' = count /\ in_use' = in_use
          /\ cleanup' = cleanup /\ pc[t] = "user" /\ pc'[t] = "walk"
          /\ q # <<>> /\ stack'[t] = SubSeq(q, 1, Len(q) - 1)
          /\ cur'[t] = [f EXCEPT !.index = f.index - 1]
          /\ \A u \in Thread : u # t => pc'[u] = pc[u] /\ cur'[u] = cur[u] /\ stack'[u] = stack[u]
      BY <2>0, <2>6 DEF Return, Resume
    <3>2. q \in Seq(Frame) /\ Len(q) \in Nat /\ 1 <= Len(q)
      BY <2>0, <3>1
    <3>3. cur'[t].dso = f.dso /\ cur'[t].from = f.from
      <4>1. f \in Frame
        BY <3>2
      <4> QED
        BY <3>1, <4>1 DEF Frame
    <3>4. CASE Len(q) <= 1
      <4>1. stack'[t] = <<>> /\ f = q[1]
        BY <3>1, <3>2, <3>4
      <4>2. ASSUME exiter \in Thread, AtExit PROVE AtExit'
        <5>1. CASE exiter = t
          BY <3>1, <3>3, <4>1, <4>2, <5>1 DEF AtExit, ExitFrame
        <5>2. CASE exiter # t
          BY <3>1, <4>2, <5>2, ExitElsewhere
        <5> QED
          BY <5>1, <5>2
      <4> QED
        BY <2>0, <3>1, <4>2, ExitKeptInside
    <3>5. CASE Len(q) > 1
      <4>1. stack'[t] # <<>> /\ stack'[t][1] = q[1]
        BY <3>1, <3>2, <3>5, BottomStays
      <4>2. ASSUME exiter \in Thread, AtExit PROVE AtExit'
        <5>1. CASE exiter = t
          BY <3>1, <4>1, <4>2, <5>1 DEF AtExit, ExitFrame
        <5>2. CASE exiter # t
          BY <3>1, <4>2, <5>2, ExitElsewhere
        <5> QED
          BY <5>1, <5>2
      <4> QED
        BY <2>0, <3>1, <4>2, ExitKeptInside
    <3> QED
      BY <3>2, <3>4, <3>5
  <2>7. ASSUME NEW t \in Thread, Leave(t) PROVE ExitInv'
    <3>1. /\ exiter' = exiter /\ before' = before /\ count' = count /\ in_use' = in_use
          /\ cleanup' = cleanup /\ stack' = stack /\ cur[t].index = 0
          /\ \A u \in Thread : u # t => pc'[u] = pc[u] /\ cur'[u] = cur[u]
      BY <2>0, <2>7 DEF Leave
    <3>2. Consumed(cur[t])
      BY <2>0 DEF TypeInv, Good
    <3>3. ASSUME exiter \in Thread, AtExit PROVE AtExit' \/ \A i \in 1..before : i \notin in_use
      <4>1. CASE exiter # t
        BY <3>1, <3>3, <4>1, ExitElsewhere
      <4>2. CASE exiter = t /\ stack[t] # <<>>
        BY <3>1, <3>3, <4>2 DEF AtExit, ExitFrame
      <4>3. CASE exiter = t /\ stack[t] = <<>>
        <5>1. cur[t].dso = NULL /\ cur[t].from = before
          BY <3>3, <4>3 DEF AtExit, ExitFrame
        <5>2. (0 + 1)..before = 1..before
          OBVIOUS
        <5> QED
          BY <3>1, <3>2, <5>1, <5>2 DEF Consumed, Matches
      <4> QED
        BY <4>1, <4>2, <4>3
    <3> QED
      BY <2>0, <3>1, <3>3, ExitKeptInside
  <2>8. CASE UNCHANGED vars
    BY <2>0, <2>8 DEF vars, ExitInv, ToRun, AtExit, ExitFrame
  <2> QED
    BY <2>s, <2>1, <2>2, <2>3, <2>4, <2>5, <2>6, <2>7, <2>8 DEF Next, Inside
<1> QED
  BY <1>1, <1>2, TypeInvariant, PTL DEF Spec

(* Until exit() is called it is going to run whatever is registered, if    *)
(* atexit() took cxa_atexit_cleanup; and when it has run, every destructor *)
(* registered before it was called has been called, or was taken by a      *)
(* thread that the end of the process has kept from calling it.            *)
THEOREM ExitRunsThem == Spec => []ExitRanAll
<1>1. TypeInv /\ Settled /\ ExitInv => ExitRanAll
  <2>1. SUFFICES ASSUME TypeInv, Settled, ExitInv, Exited PROVE \A i \in 1..before : CalledBut(exiter, i)
    <3>1. TypeInv /\ ExitInv /\ exiter = NULL /\ in_use # {} => cleanup \in {"listed", "refused"}
      BY DEF TypeInv, TypeOK, ExitInv, ToRun, Cleanup
    <3> QED
      BY <3>1, Zenon DEF ExitRanAll
  <2>2. /\ before <= count /\ count \in Nat /\ before \in Nat
        /\ \A i \in 1..before : i \notin in_use
    <3>1. exiter # NULL /\ pc[exiter] = "user" /\ stack[exiter] = <<>>
      BY <2>1 DEF Exited
    <3>2. count \in Nat /\ before \in Nat
      BY <2>1, CxaAssumption DEF TypeInv, TypeOK
    <3> QED
      BY <2>1, <3>1, <3>2 DEF ExitInv, AtExit
  <2>3. pc[exiter] # "call"
    BY <2>1 DEF Exited
  <2>4. ASSUME NEW i \in 1..before PROVE CalledBut(exiter, i)
    <3>1. i \in 1..count /\ i \notin in_use
      BY <2>2
    <3> QED
      BY <2>1, <2>3, <3>1 DEF Settled, CalledBut
  <2> QED
    BY <2>4
<1> QED
  BY <1>1, TypeInvariant, SettledInvariant, ExitInvariant, PTL
==============================================================================
