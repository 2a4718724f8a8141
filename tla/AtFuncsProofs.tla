---------------------------- MODULE AtFuncsProofs ----------------------------
(***************************************************************************)
(* Proofs about src/at_funcs.c for any number of threads and directories.  *)
(***************************************************************************)
EXTENDS AtFuncs, TLAPS

LEMMA NoCallIsCall == NoCall \in Calls
BY CallsAssumption DEF NoCall

LEMMA CallFields ==
    ASSUME NEW c \in Calls
    PROVE  /\ c.fn \in {"at", "renameat", "linkat", "utimensat", "fdopendir"}
           /\ c.path \in [Slot -> Path]
           /\ c.fdcwd \in BOOLEAN /\ c.omit \in BOOLEAN
BY CallsAssumption DEF Call

(* What resolve_dirfd_path works on is a path given by a dirfd. *)
LEMMA RelativeType ==
    ASSUME NEW c \in Calls
    PROVE  /\ Relative(c) \subseteq Slot
           /\ \A s \in Relative(c) : c.path[s] \in Dir
BY CallFields DEF Relative, Slots, Slot

(* Type correctness, for every mix of calls; a path to be resolved is      *)
(* relative to a dirfd.                                                    *)
Resolving == {"r_open", "r_chdir", "r_getcwd", "r_back", "r_backfail"}

ThreadInv(t) ==
    /\ todo[t] \subseteq Relative(call[t])
    /\ pc[t] \in Resolving => todo[t] # {}
    /\ pc[t] = "chdir" => call[t].path["new"] \in Dir
    /\ pc[t] \in {"chdir", "leave", "r_chdir", "r_getcwd", "r_back", "r_backfail"} => saved[t] # NONE
    /\ pc[t] = "op" /\ call[t].fn = "at" => saved[t] # NONE
    /\ pc[t] \in {"open", "chdir", "leave"} => call[t].fn = "at"
    /\ pc[t] \in Resolving \cup {"stat"} => call[t].fn # "at"

TypeInv == TypeOK /\ \A t \in Thread : ThreadInv(t)

(* The directory resolve_dirfd_path enters. *)
LEMMA SlotType ==
    ASSUME TypeInv, NEW t \in Thread, todo[t] # {}
    PROVE  slot(t) \in todo[t] /\ slot(t) \in Slot /\ call[t].path[slot(t)] \in Dir
BY RelativeType DEF TypeInv, ThreadInv, TypeOK, slot, Slot

LEMMA ContinueType ==
    ASSUME NEW c, NEW q
    PROVE  /\ Continue(c, q) \in {"r_open", "open", "stat", "op"}
           /\ Continue(c, q) = "r_open" => q # {}
           /\ Continue(c, q) = "open" <=> q = {} /\ c.fn = "at"
           /\ Continue(c, q) = "op" => c.fn # "at"
           /\ Continue(c, q) = "stat" => c.fn = "utimensat"
BY DEF Continue

LEMMA LookupType ==
    ASSUME TypeOK, NEW t \in Thread
    PROVE  Hits(t) \subseteq Path \X Path
<1>1. ASSUME NEW p \in Path PROVE Lookup(p) \in Path
  BY <1>1 DEF Lookup, TypeOK, Path
<1>2. call[t].path \in [Slot -> Path] /\ full[t] \in [Slot -> Path] /\ cwd \in Path /\ ABS \in Path
  BY CallFields DEF TypeOK, Path
<1>3. Slots(call[t]) \subseteq Slot /\ "new" \in Slot
  BY DEF Slots, Slot
<1> QED
  BY <1>1, <1>2, <1>3 DEF Hits

(* A step of t leaves alone what the other threads have. *)
Others(t) ==
    \A u \in Thread : u # t =>
        /\ pc'[u] = pc[u] /\ call'[u] = call[u] /\ saved'[u] = saved[u]
        /\ todo'[u] = todo[u] /\ full'[u] = full[u] /\ hit'[u] = hit[u]

LEMMA Domains ==
    ASSUME TypeOK
    PROVE  /\ DOMAIN pc = Thread /\ DOMAIN call = Thread /\ DOMAIN saved = Thread
           /\ DOMAIN todo = Thread /\ DOMAIN full = Thread /\ DOMAIN hit = Thread
BY DEF TypeOK

LEMMA InvokeOthers ==
    ASSUME TypeOK, NEW t \in Thread, NEW c \in Calls, Invoke(t, c)
    PROVE  Others(t)
<1>1. \A u \in Thread : u # t => pc'[u] = pc[u]
  BY DEF Invoke, Goto, TypeOK
<1>2. \A u \in Thread : u # t => call'[u] = call[u]
  BY DEF Invoke, TypeOK
<1>3. \A u \in Thread : u # t => todo'[u] = todo[u]
  BY DEF Invoke, TypeOK
<1>4. \A u \in Thread : u # t => full'[u] = full[u]
  BY DEF Invoke, TypeOK
<1> QED
  BY <1>1, <1>2, <1>3, <1>4 DEF Invoke, Others

LEMMA StepOthers ==
    ASSUME TypeOK, NEW t \in Thread, Step(t)
    PROVE  Others(t)
<1>1. \A u \in Thread : u # t => pc'[u] = pc[u]
  <2>1. \E l : pc' = [pc EXCEPT ![t] = l]
    BY DEF Step, Goto, Fail, Returns, Lock, Unlock, Return, at_enter_open, at_enter_chdir, at_leave, resolve_open, resolve_chdir, resolve_getcwd, resolve_back, Op, Stat
  <2> QED
    BY <2>1 DEF TypeOK
<1>2. \A u \in Thread : u # t => call'[u] = call[u]
  <2>1. call' = [call EXCEPT ![t] = NoCall] \/ call' = call
    BY DEF Step, Returns, Lock, Unlock, Return, at_enter_open, at_enter_chdir, at_leave, resolve_open, resolve_chdir, resolve_getcwd, resolve_back, Op, Stat
  <2> QED
    BY <2>1 DEF TypeOK
<1>3. \A u \in Thread : u # t => saved'[u] = saved[u]
  <2>1. (\E d : saved' = [saved EXCEPT ![t] = d]) \/ saved' = saved
    BY DEF Step, Restore, Lock, Unlock, Return, at_enter_open, at_enter_chdir, at_leave, resolve_open, resolve_chdir, resolve_getcwd, resolve_back, Op, Stat
  <2> QED
    BY <2>1 DEF TypeOK
<1>4. \A u \in Thread : u # t => todo'[u] = todo[u]
  <2>1. (\E q : todo' = [todo EXCEPT ![t] = q]) \/ todo' = todo
    BY DEF Step, Returns, Lock, Unlock, Return, at_enter_open, at_enter_chdir, at_leave, resolve_open, resolve_chdir, resolve_getcwd, resolve_back, Op, Stat
  <2> QED
    BY <2>1 DEF TypeOK
<1>5. \A u \in Thread : u # t => full'[u] = full[u]
  <2>1. (\E q : full' = [full EXCEPT ![t] = q]) \/ full' = full
    BY DEF Step, Returns, Lock, Unlock, Return, at_enter_open, at_enter_chdir, at_leave, resolve_open, resolve_chdir, resolve_getcwd, resolve_back, Op, Stat
  <2> QED
    BY <2>1 DEF TypeOK
<1>6. \A u \in Thread : u # t => hit'[u] = hit[u]
  <2>1. (\E q : hit' = [hit EXCEPT ![t] = q]) \/ hit' = hit
    BY DEF Step, Returns, Lock, Unlock, Return, at_enter_open, at_enter_chdir, at_leave, resolve_open, resolve_chdir, resolve_getcwd, resolve_back, Op, Stat
  <2> QED
    BY <2>1 DEF TypeOK
<1> QED
  BY <1>1, <1>2, <1>3, <1>4, <1>5, <1>6 DEF Others

(* The threads that do not move keep what is known of them. *)
LEMMA OthersKept ==
    ASSUME TypeInv, NEW t \in Thread, ThreadInv(t)', Others(t)
    PROVE  \A u \in Thread : ThreadInv(u)'
<1>1. ASSUME NEW u \in Thread, u # t PROVE ThreadInv(u)'
  BY <1>1 DEF Others, TypeInv, ThreadInv, Relative, Slots
<1> QED
  BY <1>1

LEMMA TypeInvariant == Spec => []TypeInv
<1>1. Init => TypeInv
  BY NoCallIsCall, CallFields DEF Init, TypeInv, TypeOK, ThreadInv, Resolving
<1>2. TypeInv /\ [Next]_vars => TypeInv'
  <2> SUFFICES ASSUME TypeInv, [Next]_vars PROVE TypeInv'
    OBVIOUS
  <2>0. TypeOK /\ \A t \in Thread : ThreadInv(t)
    BY DEF TypeInv
  <2>1. ASSUME NEW t \in Thread, NEW c \in Calls, Invoke(t, c) PROVE TypeInv'
    <3>1. TypeOK'
      <4>1. \E l \in {"lock", "r_open", "open", "stat", "op"} : pc' = [pc EXCEPT ![t] = l]
        BY <2>1, ContinueType, Zenon DEF Invoke, Goto
      <4>2. Relative(c) \in SUBSET Slot /\ c.path \in [Slot -> Path]
        BY CallFields, RelativeType
      <4> QED
        BY <2>0, <2>1, <4>1, <4>2 DEF Invoke, TypeOK
    <3>2. ThreadInv(t)'
      <4> DEFINE l == IF Locked(c) THEN "lock" ELSE Continue(c, Relative(c))
      <4>1. pc'[t] = l /\ call'[t] = c /\ todo'[t] = Relative(c)
        BY <2>0, <2>1 DEF Invoke, TypeOK, Goto
      <4>2. l \in {"lock", "r_open", "open", "stat", "op"} /\ (l = "r_open" => Relative(c) # {})
             /\ (l = "open" => c.fn = "at") /\ (l = "op" => c.fn # "at") /\ (l = "stat" => c.fn # "at")
        BY ContinueType
      <4>3. l = "r_open" => c.fn # "at"
        BY <4>2 DEF Relative
      <4> HIDE DEF l
      <4> QED
        BY <4>1, <4>2, <4>3 DEF ThreadInv, Resolving, Relative
    <3>3. Others(t)
      BY <2>0, <2>1, InvokeOthers
    <3> QED
      BY <3>1, <3>2, <3>3, OthersKept DEF TypeInv
  <2>2. ASSUME NEW t \in Thread, Lock(t) PROVE TypeInv'
    <3>1. TypeOK'
      BY <2>0, <2>2, ContinueType DEF Lock, Relative, TypeOK, Goto, ThreadInv, Resolving
    <3>2. ThreadInv(t)'
      BY <2>0, <2>2, ContinueType DEF Lock, Relative, TypeOK, Goto, ThreadInv, Resolving
    <3>3. Others(t)
      BY <2>0, <2>2, StepOthers DEF Step
    <3> QED
      BY <3>1, <3>2, <3>3, OthersKept DEF TypeInv
  <2>3. ASSUME NEW t \in Thread, Unlock(t) PROVE TypeInv'
    <3>1. TypeOK'
      BY <2>0, <2>3, NoCallIsCall, CallFields DEF Unlock, Returns, TypeOK, Goto, ThreadInv, Resolving
    <3>2. ThreadInv(t)'
      BY <2>0, <2>3, NoCallIsCall, CallFields DEF Unlock, Returns, TypeOK, Goto, ThreadInv, Resolving
    <3>3. Others(t)
      BY <2>0, <2>3, StepOthers DEF Step
    <3> QED
      BY <3>1, <3>2, <3>3, OthersKept DEF TypeInv
  <2>4. ASSUME NEW t \in Thread, Return(t) PROVE TypeInv'
    <3>1. TypeOK'
      BY <2>0, <2>4, NoCallIsCall, CallFields DEF Return, Returns, TypeOK, Goto, ThreadInv, Resolving
    <3>2. ThreadInv(t)'
      BY <2>0, <2>4, NoCallIsCall, CallFields DEF Return, Returns, TypeOK, Goto, ThreadInv, Resolving
    <3>3. Others(t)
      BY <2>0, <2>4, StepOthers DEF Step
    <3> QED
      BY <3>1, <3>2, <3>3, OthersKept DEF TypeInv
  <2>5. ASSUME NEW t \in Thread, at_enter_open(t) PROVE TypeInv'
    <3>1. TypeOK'
      <4>1. pc' \in [Thread -> {"idle", "lock", "open", "chdir", "op", "leave", "unlock", "r_open", "r_chdir",
                           "r_getcwd", "r_back", "r_backfail", "stat", "return"}]
        BY <2>0, <2>5 DEF at_enter_open, TypeOK, Goto
      <4>2. saved' \in [Thread -> Dir \cup {NONE}]
        BY <2>0, <2>5 DEF at_enter_open, TypeOK
      <4> QED
        BY <2>0, <2>5, <4>1, <4>2 DEF at_enter_open, TypeOK
    <3>2. ThreadInv(t)'
      BY <2>0, <2>5, AtAssumption DEF at_enter_open, TypeOK, Goto, ThreadInv, Resolving
    <3>3. Others(t)
      BY <2>0, <2>5, StepOthers DEF Step
    <3> QED
      BY <3>1, <3>2, <3>3, OthersKept DEF TypeInv
  <2>6. ASSUME NEW t \in Thread, at_enter_chdir(t) PROVE TypeInv'
    <3>1. TypeOK'
      <4>1. pc' \in [Thread -> {"idle", "lock", "open", "chdir", "op", "leave", "unlock", "r_open", "r_chdir",
                           "r_getcwd", "r_back", "r_backfail", "stat", "return"}]
        BY <2>0, <2>6 DEF at_enter_chdir, TypeOK, Goto
      <4>2. cwd' \in Dir
        BY <2>0, <2>6 DEF at_enter_chdir, TypeOK, ThreadInv
      <4>3. saved' \in [Thread -> Dir \cup {NONE}]
        BY <2>0, <2>6 DEF at_enter_chdir, TypeOK
      <4> QED
        BY <2>0, <2>6, <4>1, <4>2, <4>3 DEF at_enter_chdir, TypeOK
    <3>2. ThreadInv(t)'
      BY <2>0, <2>6, AtAssumption DEF at_enter_chdir, TypeOK, Goto, ThreadInv, Resolving
    <3>3. Others(t)
      BY <2>0, <2>6, StepOthers DEF Step
    <3> QED
      BY <3>1, <3>2, <3>3, OthersKept DEF TypeInv
  <2>7. ASSUME NEW t \in Thread, at_leave(t) PROVE TypeInv'
    <3>1. TypeOK'
      BY <2>0, <2>7, AtAssumption DEF at_leave, Restore, TypeOK, Goto, ThreadInv, Resolving
    <3>2. ThreadInv(t)'
      BY <2>0, <2>7, AtAssumption DEF at_leave, Restore, TypeOK, Goto, ThreadInv, Resolving
    <3>3. Others(t)
      BY <2>0, <2>7, StepOthers DEF Step
    <3> QED
      BY <3>1, <3>2, <3>3, OthersKept DEF TypeInv
  <2>8. ASSUME NEW t \in Thread, resolve_open(t) PROVE TypeInv'
    <3>1. TypeOK'
      <4>1. pc' \in [Thread -> {"idle", "lock", "open", "chdir", "op", "leave", "unlock", "r_open", "r_chdir",
                           "r_getcwd", "r_back", "r_backfail", "stat", "return"}]
        BY <2>0, <2>8 DEF resolve_open, Fail, TypeOK, Goto
      <4>2. saved' \in [Thread -> Dir \cup {NONE}]
        BY <2>0, <2>8 DEF resolve_open, Fail, TypeOK
      <4> QED
        BY <2>0, <2>8, <4>1, <4>2 DEF resolve_open, Fail, TypeOK
    <3>2. ThreadInv(t)'
      BY <2>0, <2>8, AtAssumption DEF resolve_open, Fail, TypeOK, Goto, ThreadInv, Resolving
    <3>3. Others(t)
      BY <2>0, <2>8, StepOthers DEF Step
    <3> QED
      BY <3>1, <3>2, <3>3, OthersKept DEF TypeInv
  <2>9. ASSUME NEW t \in Thread, resolve_chdir(t) PROVE TypeInv'
    <3>1. TypeOK'
      <4>1. pc' \in [Thread -> {"idle", "lock", "open", "chdir", "op", "leave", "unlock", "r_open", "r_chdir",
                           "r_getcwd", "r_back", "r_backfail", "stat", "return"}]
        BY <2>0, <2>9 DEF resolve_chdir, Fail, TypeOK, Goto
      <4>2. cwd' \in Dir
        <5>1. todo[t] # {}
          BY <2>0, <2>9 DEF resolve_chdir, ThreadInv, Resolving
        <5> QED
          BY <2>0, <2>9, <5>1, SlotType DEF resolve_chdir, TypeOK
      <4>3. saved' \in [Thread -> Dir \cup {NONE}]
        BY <2>0, <2>9 DEF resolve_chdir, TypeOK
      <4> QED
        BY <2>0, <2>9, <4>1, <4>2, <4>3 DEF resolve_chdir, TypeOK
    <3>2. ThreadInv(t)'
      BY <2>0, <2>9, SlotType DEF resolve_chdir, Fail, TypeOK, Goto, ThreadInv, Resolving
    <3>3. Others(t)
      BY <2>0, <2>9, StepOthers DEF Step
    <3> QED
      BY <3>1, <3>2, <3>3, OthersKept DEF TypeInv
  <2>10. ASSUME NEW t \in Thread, resolve_getcwd(t) PROVE TypeInv'
    <3>1. TypeOK'
      <4>1. pc' \in [Thread -> {"idle", "lock", "open", "chdir", "op", "leave", "unlock", "r_open", "r_chdir",
                           "r_getcwd", "r_back", "r_backfail", "stat", "return"}]
        BY <2>0, <2>10 DEF resolve_getcwd, TypeOK, Goto
      <4>2. slot(t) \in Slot /\ cwd \in Path
        BY <2>0, <2>10, SlotType DEF resolve_getcwd, TypeOK, ThreadInv, Resolving, Path
      <4>3. [full[t] EXCEPT ![slot(t)] = cwd] \in [Slot -> Path]
        BY <2>0, <4>2 DEF TypeOK
      <4>4. full' \in [Thread -> [Slot -> Path]]
        <5>1. full \in [Thread -> [Slot -> Path]]
          BY <2>0 DEF TypeOK
        <5> QED
          BY <2>10, <4>3, <5>1 DEF resolve_getcwd
      <4> QED
        BY <2>0, <2>10, <4>1, <4>4 DEF resolve_getcwd, TypeOK
    <3>2. ThreadInv(t)'
      BY <2>0, <2>10, SlotType DEF resolve_getcwd, Path, TypeOK, Goto, ThreadInv, Resolving
    <3>3. Others(t)
      BY <2>0, <2>10, StepOthers DEF Step
    <3> QED
      BY <3>1, <3>2, <3>3, OthersKept DEF TypeInv
  <2>11. ASSUME NEW t \in Thread, resolve_back(t) PROVE TypeInv'
    <3>1. TypeOK'
      <4>1. pc' \in [Thread -> {"idle", "lock", "open", "chdir", "op", "leave", "unlock", "r_open", "r_chdir",
                           "r_getcwd", "r_back", "r_backfail", "stat", "return"}]
        <5>1. \E l \in {"r_open", "open", "stat", "op", "unlock", "return"} : pc' = [pc EXCEPT ![t] = l]
          BY <2>11, ContinueType DEF resolve_back, Fail, Goto
        <5> QED
          BY <2>0, <5>1 DEF TypeOK
      <4>2. todo' \in [Thread -> SUBSET Slot]
        <5>1. todo \in [Thread -> SUBSET Slot]
          BY <2>0 DEF TypeOK
        <5>2. todo' = todo \/ todo' = [todo EXCEPT ![t] = todo[t] \ {slot(t)}]
          BY <2>11 DEF resolve_back
        <5> QED
          BY <5>1, <5>2
      <4>3. cwd' \in Dir /\ saved' \in [Thread -> Dir \cup {NONE}]
        BY <2>0, <2>11 DEF resolve_back, Restore, TypeOK, ThreadInv
      <4> QED
        BY <2>0, <2>11, <4>1, <4>2, <4>3 DEF resolve_back, TypeOK
    <3>2. ThreadInv(t)'
      <4>1. /\ todo[t] \subseteq Relative(call[t]) /\ call'[t] = call[t]
            /\ call[t].fn # "at" /\ saved'[t] = NONE
        BY <2>0, <2>11 DEF resolve_back, Restore, TypeOK, ThreadInv, Resolving
      <4>2. \/ /\ todo'[t] \subseteq todo[t]
               /\ pc'[t] = Continue(call[t], todo'[t])
            \/ todo'[t] = todo[t] /\ pc'[t] \in {"unlock", "return"}
        <5>1. CASE /\ todo' = [todo EXCEPT ![t] = @ \ {slot(t)}]
                   /\ pc' = [pc EXCEPT ![t] = Continue(call[t], todo[t] \ {slot(t)})]
          BY <2>0, <5>1 DEF TypeOK
        <5>2. CASE Fail(t) /\ UNCHANGED todo
          BY <2>0, <5>2 DEF Fail, TypeOK, Goto
        <5> QED
          BY <2>11, <5>1, <5>2 DEF resolve_back, Goto
      <4> QED
        BY <4>1, <4>2, ContinueType DEF ThreadInv, Resolving, Relative, Slots
    <3>3. Others(t)
      BY <2>0, <2>11, StepOthers DEF Step
    <3> QED
      BY <3>1, <3>2, <3>3, OthersKept DEF TypeInv
  <2>12. ASSUME NEW t \in Thread, Op(t) PROVE TypeInv'
    <3>1. TypeOK'
      BY <2>0, <2>12, LookupType DEF Op, TypeOK, Goto, ThreadInv, Resolving
    <3>2. ThreadInv(t)'
      BY <2>0, <2>12, LookupType DEF Op, TypeOK, Goto, ThreadInv, Resolving
    <3>3. Others(t)
      BY <2>0, <2>12, StepOthers DEF Step
    <3> QED
      BY <3>1, <3>2, <3>3, OthersKept DEF TypeInv
  <2>13. ASSUME NEW t \in Thread, Stat(t) PROVE TypeInv'
    <3>1. TypeOK'
      BY <2>0, <2>13, LookupType DEF Stat, TypeOK, Goto, ThreadInv, Resolving
    <3>2. ThreadInv(t)'
      BY <2>0, <2>13, LookupType DEF Stat, TypeOK, Goto, ThreadInv, Resolving
    <3>3. Others(t)
      BY <2>0, <2>13, StepOthers DEF Step
    <3> QED
      BY <3>1, <3>2, <3>3, OthersKept DEF TypeInv
  <2>14. ASSUME NEW d \in Dir, Chdir(d) PROVE TypeInv'
    BY <2>0, <2>14 DEF Chdir, TypeInv, TypeOK, ThreadInv
  <2>15. CASE UNCHANGED vars
    BY <2>0, <2>15 DEF vars, TypeInv, TypeOK, ThreadInv
  <2> QED
    BY <2>1, <2>2, <2>3, <2>4, <2>5, <2>6, <2>7, <2>8, <2>9, <2>10, <2>11, <2>12,
       <2>13, <2>14, <2>15 DEF Next, Step
<1> QED
  BY <1>1, <1>2, PTL DEF Spec

(* Every variable of a behaviour has its type. *)
THEOREM TypeCorrect == Spec => []TypeOK
BY TypeInvariant, PTL DEF TypeInv

------------------------------------------------------------------------------
(* The mutex and the saved descriptor at each point of a function. *)
LockInv(t) ==
    /\ mutex = t <=> Locked(call[t]) /\ pc[t] \in Inside
    /\ pc[t] \in {"lock", "unlock"} => Locked(call[t])
    /\ pc[t] \in {"return", "stat"} => ~Locked(call[t])
    /\ pc[t] \in {"idle", "lock", "unlock", "return", "open", "r_open", "stat"} => saved[t] = NONE
    /\ pc[t] = "op" /\ call[t].fn # "at" => saved[t] = NONE

LEMMA OthersLocked ==
    ASSUME \A u \in Thread : LockInv(u), NEW t \in Thread, LockInv(t)', Others(t),
           \A u \in Thread : u # t => (mutex' = u <=> mutex = u)
    PROVE  \A u \in Thread : LockInv(u)'
<1>1. ASSUME NEW u \in Thread, u # t PROVE LockInv(u)'
  BY <1>1 DEF LockInv, Locked, Others
<1> QED
  BY <1>1

LEMMA LockInvariant == Spec => [](\A t \in Thread : LockInv(t))
<1> DEFINE Inv == \A t \in Thread : LockInv(t)
<1>1. Init => Inv
  <2>1. SUFFICES ASSUME Init, NEW t \in Thread PROVE LockInv(t)
    BY Zenon
  <2>2. pc[t] = "idle" /\ saved[t] = NONE /\ mutex # t
    BY <2>1, AtAssumption DEF Init
  <2> QED
    BY <2>2 DEF LockInv, Inside
<1>2. TypeInv /\ Inv /\ [Next]_vars => Inv'
  <2>s. SUFFICES ASSUME TypeInv, \A t \in Thread : LockInv(t), [Next]_vars
               PROVE  \A t \in Thread : LockInv(t)'
    OBVIOUS
  <2>0. TypeOK /\ \A t \in Thread : ThreadInv(t) /\ LockInv(t)
    BY <2>s DEF TypeInv
  <2>1. ASSUME NEW t \in Thread, NEW c \in Calls, Invoke(t, c) PROVE \A u \in Thread : LockInv(u)'
    <3>1. LockInv(t)'
      <4>1. /\ pc[t] = "idle" /\ mutex' = mutex /\ saved' = saved /\ call'[t] = c
            /\ pc'[t] = IF Locked(c) THEN "lock" ELSE Continue(c, Relative(c))
        BY <2>0, <2>1, Domains DEF Invoke, Goto
      <4> QED
        BY <2>0, <4>1, ContinueType DEF LockInv, Inside, Locked
    <3>2. Others(t)
      BY <2>0, <2>1, InvokeOthers
    <3>3. \A u \in Thread : u # t => (mutex' = u <=> mutex = u)
      BY <2>s, <2>0, <2>1, AtAssumption DEF Invoke, LockInv, Inside, TypeOK
    <3> QED
      BY <2>s, <3>1, <3>2, <3>3, OthersLocked
  <2>2. ASSUME NEW t \in Thread, Lock(t) PROVE \A u \in Thread : LockInv(u)'
    <3>1. LockInv(t)'
      <4>1. /\ pc[t] = "lock" /\ mutex' = t /\ saved' = saved /\ call' = call
            /\ pc'[t] = Continue(call[t], todo[t])
        BY <2>0, <2>2, Domains DEF Lock, Goto
      <4> QED
        BY <2>0, <4>1, ContinueType DEF LockInv, Inside, Locked
    <3>2. Others(t)
      BY <2>0, <2>2, StepOthers DEF Step
    <3>3. \A u \in Thread : u # t => (mutex' = u <=> mutex = u)
      BY <2>s, <2>0, <2>2, AtAssumption DEF Lock, LockInv, Inside, TypeOK
    <3> QED
      BY <2>s, <3>1, <3>2, <3>3, OthersLocked
  <2>3. ASSUME NEW t \in Thread, Unlock(t) PROVE \A u \in Thread : LockInv(u)'
    <3>1. LockInv(t)'
      BY <2>0, <2>3, AtAssumption DEF Unlock, Returns, TypeOK, Goto, ThreadInv, Resolving, LockInv, Inside, Locked
    <3>2. Others(t)
      BY <2>0, <2>3, StepOthers DEF Step
    <3>3. \A u \in Thread : u # t => (mutex' = u <=> mutex = u)
      BY <2>s, <2>0, <2>3, AtAssumption DEF Unlock, LockInv, Inside, TypeOK
    <3> QED
      BY <2>s, <3>1, <3>2, <3>3, OthersLocked
  <2>4. ASSUME NEW t \in Thread, Return(t) PROVE \A u \in Thread : LockInv(u)'
    <3>1. LockInv(t)'
      BY <2>0, <2>4, AtAssumption DEF Return, Returns, TypeOK, Goto, ThreadInv, Resolving, LockInv, Inside, Locked
    <3>2. Others(t)
      BY <2>0, <2>4, StepOthers DEF Step
    <3>3. \A u \in Thread : u # t => (mutex' = u <=> mutex = u)
      BY <2>s, <2>0, <2>4, AtAssumption DEF Return, LockInv, Inside, TypeOK
    <3> QED
      BY <2>s, <3>1, <3>2, <3>3, OthersLocked
  <2>5. ASSUME NEW t \in Thread, at_enter_open(t) PROVE \A u \in Thread : LockInv(u)'
    <3>1. LockInv(t)'
      <4>1. /\ pc[t] = "open" /\ call[t].fn = "at"
            /\ mutex' = mutex /\ call' = call
            /\ pc'[t] \in {"chdir", "op", "unlock"} /\ (pc'[t] = "unlock" => saved'[t] = saved[t])
        BY <2>0, <2>5, Domains DEF at_enter_open, Goto, ThreadInv
      <4> QED
        BY <2>0, <4>1 DEF LockInv, Inside, Locked
    <3>2. Others(t)
      BY <2>0, <2>5, StepOthers DEF Step
    <3>3. \A u \in Thread : u # t => (mutex' = u <=> mutex = u)
      BY <2>s, <2>0, <2>5, AtAssumption DEF at_enter_open, LockInv, Inside, TypeOK
    <3> QED
      BY <2>s, <3>1, <3>2, <3>3, OthersLocked
  <2>6. ASSUME NEW t \in Thread, at_enter_chdir(t) PROVE \A u \in Thread : LockInv(u)'
    <3>1. LockInv(t)'
      <4>1. /\ pc[t] = "chdir" /\ call[t].fn = "at"
            /\ mutex' = mutex /\ call' = call
            /\ pc'[t] \in {"op", "unlock"} /\ (pc'[t] = "unlock" => saved'[t] = NONE)
        BY <2>0, <2>6, Domains DEF at_enter_chdir, Goto, ThreadInv
      <4> QED
        BY <2>0, <4>1 DEF LockInv, Inside, Locked
    <3>2. Others(t)
      BY <2>0, <2>6, StepOthers DEF Step
    <3>3. \A u \in Thread : u # t => (mutex' = u <=> mutex = u)
      BY <2>s, <2>0, <2>6, AtAssumption DEF at_enter_chdir, LockInv, Inside, TypeOK
    <3> QED
      BY <2>s, <3>1, <3>2, <3>3, OthersLocked
  <2>7. ASSUME NEW t \in Thread, at_leave(t) PROVE \A u \in Thread : LockInv(u)'
    <3>1. LockInv(t)'
      BY <2>0, <2>7, AtAssumption DEF at_leave, Restore, TypeOK, Goto, ThreadInv, Resolving, LockInv, Inside, Locked
    <3>2. Others(t)
      BY <2>0, <2>7, StepOthers DEF Step
    <3>3. \A u \in Thread : u # t => (mutex' = u <=> mutex = u)
      BY <2>s, <2>0, <2>7, AtAssumption DEF at_leave, LockInv, Inside, TypeOK
    <3> QED
      BY <2>s, <3>1, <3>2, <3>3, OthersLocked
  <2>8. ASSUME NEW t \in Thread, resolve_open(t) PROVE \A u \in Thread : LockInv(u)'
    <3>1. LockInv(t)'
      <4>1. /\ pc[t] = "r_open"
            /\ mutex' = mutex /\ call' = call
            /\ \/ pc'[t] = "r_chdir"
               \/ saved' = saved /\ pc'[t] = IF Locked(call[t]) THEN "unlock" ELSE "return"
        BY <2>0, <2>8, Domains DEF resolve_open, Fail, Goto
      <4> QED
        BY <2>0, <4>1 DEF LockInv, Inside, Locked
    <3>2. Others(t)
      BY <2>0, <2>8, StepOthers DEF Step
    <3>3. \A u \in Thread : u # t => (mutex' = u <=> mutex = u)
      BY <2>s, <2>0, <2>8, AtAssumption DEF resolve_open, LockInv, Inside, TypeOK
    <3> QED
      BY <2>s, <3>1, <3>2, <3>3, OthersLocked
  <2>9. ASSUME NEW t \in Thread, resolve_chdir(t) PROVE \A u \in Thread : LockInv(u)'
    <3>1. LockInv(t)'
      <4>1. /\ pc[t] = "r_chdir"
            /\ mutex' = mutex /\ call' = call
            /\ \/ pc'[t] = "r_getcwd"
               \/ saved'[t] = NONE /\ pc'[t] = IF Locked(call[t]) THEN "unlock" ELSE "return"
        BY <2>0, <2>9, Domains DEF resolve_chdir, Fail, Goto
      <4> QED
        BY <2>0, <4>1 DEF LockInv, Inside, Locked
    <3>2. Others(t)
      BY <2>0, <2>9, StepOthers DEF Step
    <3>3. \A u \in Thread : u # t => (mutex' = u <=> mutex = u)
      BY <2>s, <2>0, <2>9, AtAssumption DEF resolve_chdir, LockInv, Inside, TypeOK
    <3> QED
      BY <2>s, <3>1, <3>2, <3>3, OthersLocked
  <2>10. ASSUME NEW t \in Thread, resolve_getcwd(t) PROVE \A u \in Thread : LockInv(u)'
    <3>1. LockInv(t)'
      <4>1. /\ pc[t] = "r_getcwd" /\ pc'[t] \in {"r_back", "r_backfail"}
            /\ mutex' = mutex /\ call' = call
        BY <2>0, <2>10, Domains DEF resolve_getcwd, Goto
      <4> QED
        BY <2>0, <4>1 DEF LockInv, Inside, Locked
    <3>2. Others(t)
      BY <2>0, <2>10, StepOthers DEF Step
    <3>3. \A u \in Thread : u # t => (mutex' = u <=> mutex = u)
      BY <2>s, <2>0, <2>10, AtAssumption DEF resolve_getcwd, LockInv, Inside, TypeOK
    <3> QED
      BY <2>s, <3>1, <3>2, <3>3, OthersLocked
  <2>11. ASSUME NEW t \in Thread, resolve_back(t) PROVE \A u \in Thread : LockInv(u)'
    <3>1. LockInv(t)'
      <4>1. /\ pc[t] \in {"r_back", "r_backfail"} /\ call[t].fn # "at"
            /\ saved'[t] = NONE /\ mutex' = mutex /\ call' = call
        BY <2>0, <2>11 DEF resolve_back, Restore, TypeOK, ThreadInv, Resolving
      <4>2. \/ pc'[t] \in {"r_open", "op"}
            \/ pc'[t] = "stat" /\ call[t].fn = "utimensat"
            \/ pc'[t] = IF Locked(call[t]) THEN "unlock" ELSE "return"
        <5>1. \/ \E q : pc'[t] = Continue(call[t], q)
              \/ pc'[t] = IF Locked(call[t]) THEN "unlock" ELSE "return"
          BY <2>0, <2>11, Domains DEF resolve_back, Fail, Goto
        <5> QED
          BY <4>1, <5>1, ContinueType
      <4> QED
        BY <2>0, <4>1, <4>2 DEF LockInv, Inside, Locked
    <3>2. Others(t)
      BY <2>0, <2>11, StepOthers DEF Step
    <3>3. \A u \in Thread : u # t => (mutex' = u <=> mutex = u)
      BY <2>s, <2>0, <2>11, AtAssumption DEF resolve_back, LockInv, Inside, TypeOK
    <3> QED
      BY <2>s, <3>1, <3>2, <3>3, OthersLocked
  <2>12. ASSUME NEW t \in Thread, Op(t) PROVE \A u \in Thread : LockInv(u)'
    <3>1. LockInv(t)'
      <4>1. /\ pc[t] = "op" /\ mutex' = mutex /\ call' = call /\ saved' = saved
            /\ pc'[t] = IF call[t].fn = "at" THEN "leave"
                         ELSE IF Locked(call[t]) THEN "unlock" ELSE "return"
        BY <2>0, <2>12, Domains DEF Op, Goto
      <4> QED
        BY <2>0, <4>1 DEF LockInv, Inside, Locked
    <3>2. Others(t)
      BY <2>0, <2>12, StepOthers DEF Step
    <3>3. \A u \in Thread : u # t => (mutex' = u <=> mutex = u)
      BY <2>s, <2>0, <2>12, AtAssumption DEF Op, LockInv, Inside, TypeOK
    <3> QED
      BY <2>s, <3>1, <3>2, <3>3, OthersLocked
  <2>13. ASSUME NEW t \in Thread, Stat(t) PROVE \A u \in Thread : LockInv(u)'
    <3>1. LockInv(t)'
      <4>1. /\ pc[t] = "stat" /\ pc'[t] \in {"op", "return"}
            /\ mutex' = mutex /\ call' = call /\ saved' = saved
        BY <2>0, <2>13, Domains DEF Stat, Goto
      <4> QED
        BY <2>0, <4>1 DEF LockInv, Inside, Locked
    <3>2. Others(t)
      BY <2>0, <2>13, StepOthers DEF Step
    <3>3. \A u \in Thread : u # t => (mutex' = u <=> mutex = u)
      BY <2>s, <2>0, <2>13, AtAssumption DEF Stat, LockInv, Inside, TypeOK
    <3> QED
      BY <2>s, <3>1, <3>2, <3>3, OthersLocked
  <2>14. ASSUME NEW d \in Dir, Chdir(d) PROVE \A u \in Thread : LockInv(u)'
    BY <2>s, <2>14 DEF Chdir, LockInv, Locked
  <2>15. CASE UNCHANGED vars
    BY <2>s, <2>15 DEF vars, LockInv, Locked
  <2> QED
    BY <2>s, <2>1, <2>2, <2>3, <2>4, <2>5, <2>6, <2>7, <2>8, <2>9, <2>10, <2>11, <2>12,
       <2>13, <2>14, <2>15 DEF Next, Step
<1> QED
  BY <1>1, <1>2, TypeInvariant, PTL DEF Spec

(* at_mutex is held exactly between lock and unlock, on every path of      *)
(* every function, and whatever system calls fail.                         *)
THEOREM MutexHeldInside == Spec => []MutexOwner
<1>1. (\A t \in Thread : LockInv(t)) => MutexOwner
  BY Zenon DEF LockInv, MutexOwner
<1> QED
  BY <1>1, LockInvariant, PTL

(* No path of a function leaves the descriptor of the saved directory open. *)
THEOREM DescriptorsClosed == Spec => []NoDescriptorLeak
<1>1. (\A t \in Thread : LockInv(t)) => NoDescriptorLeak
  BY DEF LockInv, NoDescriptorLeak
<1> QED
  BY <1>1, LockInvariant, PTL

------------------------------------------------------------------------------
(* When every call takes the mutex, a thread that is not its owner is not  *)
(* inside, and nothing that is known of it depends on where the process is. *)
LEMMA OthersTracked ==
    ASSUME LockedOnly, TypeOK, CwdTracked, \A u \in Thread : LockInv(u),
           NEW t \in Thread, Others(t), mutex = t \/ cwd' = cwd, home' = home,
           NEW u \in Thread, u # t
    PROVE  Tracked(u)'
<1>1. mutex = t => pc[u] \notin Inside
  BY DEF LockInv, LockedOnly, TypeOK
<1>2. /\ pc'[u] = pc[u] /\ call'[u] = call[u] /\ saved'[u] = saved[u]
      /\ full'[u] = full[u] /\ hit'[u] = hit[u] /\ slot(u)' = slot(u)
  BY DEF Others, slot
<1>3. Tracked(u)
  BY DEF CwdTracked
<1>4. CASE mutex = t
  BY <1>1, <1>2, <1>3, <1>4 DEF Tracked, Inside
<1>5. CASE cwd' = cwd
  BY <1>2, <1>3, <1>5 DEF Tracked
<1> QED
  BY <1>4, <1>5

(* A path that is looked up while the process is where the call put it is  *)
(* looked up where it was asked to be.                                     *)
LEMMA HitsRight ==
    ASSUME TypeOK, NEW t \in Thread, Tracked(t), pc[t] = "op"
    PROVE  \A h \in Hits(t) : h[2] = Want(h[1])
<1> DEFINE c == call[t]
<1>1. c.path \in [Slot -> Path] /\ "new" \in Slot /\ Slots(c) \subseteq Slot
  BY CallFields DEF TypeOK, Slot, Slots
<1>2. CASE c.fn = "at"
  <2>1. Hits(t) = {<<c.path["new"], IF c.path["new"] = ABS THEN ABS ELSE cwd>>}
    BY <1>2 DEF Hits
  <2>2. (IF c.path["new"] = ABS THEN ABS ELSE cwd) = Want(c.path["new"])
    BY <1>1, <1>2, AtAssumption DEF Tracked, Want, Path
  <2> QED
    BY <2>1, <2>2
<1>3. CASE c.fn # "at"
  <2>1. Hits(t) = {<<c.path[s], Lookup(c.path[s])>> : s \in Slots(c)}
    BY <1>3 DEF Hits, Tracked
  <2>2. cwd = home
    BY <1>3 DEF Tracked
  <2>3. \A p : Lookup(p) = Want(p)
    BY <2>2 DEF Lookup, Want
  <2> QED
    BY <2>1, <2>3
<1> QED
  BY <1>2, <1>3

(* A step that keeps what is known of its own thread, and looks nothing up *)
(* in a wrong directory, keeps what is known of all.                       *)
LEMMA TrackedStep ==
    ASSUME LockedOnly, TypeOK, CwdTracked, RightDirectory, \A u \in Thread : LockInv(u),
           NEW t \in Thread, Others(t), mutex = t \/ cwd' = cwd, home' = home,
           mutex' = NONE => cwd' = home', Tracked(t)',
           \A h \in hit'[t] : h \in hit[t] \/ h[2] = Want(h[1])
    PROVE  CwdTracked' /\ RightDirectory'
<1>1. \A u \in Thread : Tracked(u)'
  BY OthersTracked
<1>2. CwdTracked'
  BY <1>1 DEF CwdTracked
<1>3. \A p : Want(p)' = Want(p)
  BY DEF Want
<1>4. ASSUME NEW u \in Thread, NEW h \in hit'[u]
      PROVE  h[2] = Want(h[1])
  BY <1>4 DEF RightDirectory, Others
<1>5. RightDirectory'
  BY <1>3, <1>4 DEF RightDirectory
<1> QED
  BY <1>2, <1>5

(* While every call takes at_mutex and the saved directory can be entered  *)
(* again, the process is where each function expects it to be.             *)
LEMMA TrackedInvariant ==
    ASSUME LockedOnly, ~RestoreFails
    PROVE  Spec => [](CwdTracked /\ RightDirectory)
<1> DEFINE Inv == CwdTracked /\ RightDirectory
<1>1. Init => Inv
  BY DEF Init, CwdTracked, Tracked, RightDirectory
<1>2. TypeInv /\ (\A t \in Thread : LockInv(t)) /\ Inv /\ [Next]_vars => Inv'
  <2>s. SUFFICES ASSUME TypeInv, \A t \in Thread : LockInv(t), CwdTracked, RightDirectory,
                        [Next]_vars
                 PROVE  CwdTracked' /\ RightDirectory'
    OBVIOUS
  <2>0. /\ TypeOK
        /\ mutex = NONE => cwd = home
        /\ \A t \in Thread : ThreadInv(t) /\ LockInv(t) /\ Tracked(t) /\ Locked(call[t])
    BY <2>s DEF TypeInv, CwdTracked, LockedOnly, TypeOK
  <2>1. ASSUME NEW t \in Thread, NEW c \in Calls, Invoke(t, c) PROVE CwdTracked' /\ RightDirectory'
    <3>1. /\ hit[t] = {}
      BY <2>0, <2>1 DEF Invoke, Tracked
    <3>2. /\ call'[t] = c /\ full'[t] = c.path /\ hit'[t] = hit[t] /\ pc'[t] = "lock"
          /\ cwd' = cwd /\ home' = home /\ mutex' = mutex
      BY <2>0, <2>1 DEF Invoke, TypeOK, Goto, LockedOnly
    <3>3. Tracked(t)'
      BY <3>1, <3>2 DEF Tracked
    <3>4. Others(t)
      BY <2>0, <2>1, InvokeOthers, Zenon
    <3> QED
      BY <2>s, <2>0, <3>1, <3>2, <3>3, <3>4, AtAssumption, TrackedStep
  <2>2. ASSUME NEW t \in Thread, Lock(t) PROVE CwdTracked' /\ RightDirectory'
    <3>1. /\ cwd = home /\ full[t] = call[t].path
      BY <2>0, <2>2 DEF Lock, Tracked
    <3>2. /\ call'[t] = call[t] /\ full'[t] = full[t] /\ hit'[t] = hit[t]
          /\ cwd' = cwd /\ home' = home /\ mutex' = t
          /\ pc'[t] = Continue(call[t], todo[t])
      BY <2>0, <2>2 DEF Lock, TypeOK, Goto
    <3>3. Tracked(t)'
      BY <3>1, <3>2, ContinueType DEF Tracked
    <3>4. Others(t)
      BY <2>0, <2>2, StepOthers DEF Step
    <3> QED
      BY <2>s, <2>0, <3>1, <3>2, <3>3, <3>4, AtAssumption, TrackedStep
  <2>3. ASSUME NEW t \in Thread, Unlock(t) PROVE CwdTracked' /\ RightDirectory'
    <3>1. /\ mutex = t /\ cwd = home
      BY <2>0, <2>3 DEF Unlock, LockInv, Inside, Tracked
    <3>2. /\ call'[t] = NoCall /\ full'[t] = NoCall.path /\ hit'[t] = {} /\ pc'[t] = "idle"
          /\ cwd' = cwd /\ home' = home
      BY <2>0, <2>3 DEF Unlock, TypeOK, Returns, Goto
    <3>3. Tracked(t)'
      BY <3>1, <3>2 DEF Tracked
    <3>4. Others(t)
      BY <2>0, <2>3, StepOthers DEF Step
    <3> QED
      BY <2>s, <2>0, <3>1, <3>2, <3>3, <3>4, AtAssumption, TrackedStep
  <2>4. ASSUME NEW t \in Thread, Return(t) PROVE FALSE
    BY <2>0, <2>4 DEF Return, LockInv
  <2>5. ASSUME NEW t \in Thread, at_enter_open(t) PROVE CwdTracked' /\ RightDirectory'
    <3>1. /\ mutex = t /\ cwd = home /\ full[t] = call[t].path /\ call[t].fn = "at"
      BY <2>0, <2>5 DEF at_enter_open, LockInv, Inside, Tracked, ThreadInv
    <3>2. /\ call'[t] = call[t] /\ full'[t] = full[t] /\ hit'[t] = hit[t]
          /\ cwd' = cwd /\ home' = home /\ mutex' = mutex
          /\ \/ /\ saved'[t] = cwd
                /\ pc'[t] = IF call[t].path["new"] \in Dir THEN "chdir" ELSE "op"
             \/ pc'[t] = "unlock"
      BY <2>0, <2>5 DEF at_enter_open, TypeOK, Goto
    <3>3. Tracked(t)'
      BY <3>1, <3>2 DEF Tracked
    <3>4. Others(t)
      BY <2>0, <2>5, StepOthers DEF Step
    <3> QED
      BY <2>s, <2>0, <3>1, <3>2, <3>3, <3>4, AtAssumption, TrackedStep
  <2>6. ASSUME NEW t \in Thread, at_enter_chdir(t) PROVE CwdTracked' /\ RightDirectory'
    <3>1. /\ mutex = t /\ cwd = home /\ saved[t] = home /\ full[t] = call[t].path
          /\ call[t].fn = "at" /\ call[t].path["new"] \in Dir
      BY <2>0, <2>6 DEF at_enter_chdir, LockInv, Inside, Tracked, ThreadInv
    <3>2. /\ call'[t] = call[t] /\ full'[t] = full[t] /\ hit'[t] = hit[t]
          /\ home' = home /\ mutex' = mutex
          /\ \/ cwd' = call[t].path["new"] /\ pc'[t] = "op" /\ saved'[t] = saved[t]
             \/ cwd' = cwd /\ pc'[t] = "unlock"
      BY <2>0, <2>6, Domains DEF at_enter_chdir, Goto
    <3>3. Tracked(t)'
      BY <3>1, <3>2 DEF Tracked
    <3>4. Others(t)
      BY <2>0, <2>6, StepOthers DEF Step
    <3> QED
      BY <2>s, <2>0, <3>1, <3>2, <3>3, <3>4, AtAssumption, TrackedStep
  <2>7. ASSUME NEW t \in Thread, at_leave(t) PROVE CwdTracked' /\ RightDirectory'
    <3>1. /\ mutex = t /\ saved[t] = home /\ full[t] = call[t].path
      BY <2>0, <2>7 DEF at_leave, LockInv, Inside, Tracked
    <3>2. /\ call'[t] = call[t] /\ full'[t] = full[t] /\ hit'[t] = hit[t]
          /\ home' = home /\ mutex' = mutex /\ cwd' = saved[t] /\ pc'[t] = "unlock"
      BY <2>0, <2>7 DEF at_leave, TypeOK, Restore, Goto
    <3>3. Tracked(t)'
      BY <3>1, <3>2 DEF Tracked
    <3>4. Others(t)
      BY <2>0, <2>7, StepOthers, Zenon DEF Step
    <3> QED
      BY <2>s, <2>0, <3>1, <3>2, <3>3, <3>4, AtAssumption, TrackedStep
  <2>8. ASSUME NEW t \in Thread, resolve_open(t) PROVE CwdTracked' /\ RightDirectory'
    <3>1. /\ mutex = t /\ cwd = home /\ full[t] = call[t].path
      BY <2>0, <2>8 DEF resolve_open, LockInv, Inside, Tracked
    <3>2. /\ call'[t] = call[t] /\ full'[t] = full[t] /\ hit'[t] = hit[t]
          /\ cwd' = cwd /\ home' = home /\ mutex' = mutex
          /\ \/ saved'[t] = cwd /\ pc'[t] = "r_chdir"
             \/ pc'[t] = "unlock"
      BY <2>0, <2>8 DEF resolve_open, TypeOK, Goto, Fail
    <3>3. Tracked(t)'
      BY <3>1, <3>2 DEF Tracked
    <3>4. Others(t)
      BY <2>0, <2>8, StepOthers DEF Step
    <3> QED
      BY <2>s, <2>0, <3>1, <3>2, <3>3, <3>4, AtAssumption, TrackedStep
  <2>9. ASSUME NEW t \in Thread, resolve_chdir(t) PROVE CwdTracked' /\ RightDirectory'
    <3>1. /\ mutex = t /\ cwd = home /\ saved[t] = home /\ full[t] = call[t].path
      BY <2>0, <2>9 DEF resolve_chdir, LockInv, Inside, Tracked
    <3>2. /\ call'[t] = call[t] /\ full'[t] = full[t] /\ hit'[t] = hit[t]
          /\ home' = home /\ mutex' = mutex /\ slot(t)' = slot(t)
          /\ \/ cwd' = call[t].path[slot(t)] /\ pc'[t] = "r_getcwd" /\ saved'[t] = saved[t]
             \/ cwd' = cwd /\ pc'[t] = "unlock"
      BY <2>0, <2>9, Domains DEF resolve_chdir, Goto, Fail, slot
    <3>3. Tracked(t)'
      BY <3>1, <3>2 DEF Tracked
    <3>4. Others(t)
      BY <2>0, <2>9, StepOthers DEF Step
    <3> QED
      BY <2>s, <2>0, <3>1, <3>2, <3>3, <3>4, AtAssumption, TrackedStep
  <2>10. ASSUME NEW t \in Thread, resolve_getcwd(t) PROVE CwdTracked' /\ RightDirectory'
    <3>1. /\ mutex = t /\ saved[t] = home /\ full[t] = call[t].path
          /\ cwd = call[t].path[slot(t)]
      BY <2>0, <2>10 DEF resolve_getcwd, LockInv, Inside, Tracked
    <3>2. /\ call'[t] = call[t] /\ hit'[t] = hit[t] /\ saved'[t] = saved[t]
          /\ cwd' = cwd /\ home' = home /\ mutex' = mutex
          /\ pc'[t] \in {"r_back", "r_backfail"}
      BY <2>0, <2>10 DEF resolve_getcwd, TypeOK, Goto
    <3>a. full'[t] = full[t]
      <4>1. full[t] \in [Slot -> Path]
        BY <2>0 DEF TypeOK
      <4>2. [full[t] EXCEPT ![slot(t)] = cwd] = full[t]
        BY <3>1, <4>1
      <4> QED
        BY <2>0, <2>10, <4>2 DEF resolve_getcwd, TypeOK
    <3>3. Tracked(t)'
      BY <3>1, <3>2, <3>a DEF Tracked
    <3>4. Others(t)
      BY <2>0, <2>10, StepOthers DEF Step
    <3> QED
      BY <2>s, <2>0, <3>1, <3>2, <3>3, <3>4, AtAssumption, TrackedStep
  <2>11. ASSUME NEW t \in Thread, resolve_back(t) PROVE CwdTracked' /\ RightDirectory'
    <3>1. /\ mutex = t /\ saved[t] = home /\ full[t] = call[t].path
      BY <2>0, <2>11 DEF resolve_back, LockInv, Inside, Tracked
    <3>2. /\ call'[t] = call[t] /\ full'[t] = full[t] /\ hit'[t] = hit[t]
          /\ home' = home /\ mutex' = mutex /\ cwd' = saved[t]
          /\ \/ \E q : pc'[t] = Continue(call[t], q)
             \/ pc'[t] = "unlock"
      BY <2>0, <2>11, SMTT(20) DEF resolve_back, TypeOK, Restore, Goto, Fail
    <3>3. /\ pc'[t] \in {"r_open", "open", "stat", "op", "unlock"}
          /\ pc'[t] = "op" => call[t].fn # "at"
      BY <3>2, ContinueType
    <3>4. cwd' = home'
      BY <3>1, <3>2
    <3>5. Tracked(t)'
      BY <3>1, <3>2, <3>3, <3>4 DEF Tracked
    <3>6. Others(t)
      BY <2>0, <2>11, StepOthers DEF Step
    <3> QED
      BY <2>s, <2>0, <3>1, <3>2, <3>5, <3>6, AtAssumption, TrackedStep, Zenon
  <2>12. ASSUME NEW t \in Thread, Op(t) PROVE CwdTracked' /\ RightDirectory'
    <3>1. /\ mutex = t /\ full[t] = call[t].path
          /\ call[t].fn = "at" => saved[t] = home
          /\ call[t].fn # "at" => cwd = home
      BY <2>0, <2>12 DEF Op, LockInv, Inside, Tracked
    <3>2. /\ call'[t] = call[t] /\ full'[t] = full[t] /\ saved'[t] = saved[t]
          /\ cwd' = cwd /\ home' = home /\ mutex' = mutex
          /\ pc'[t] = IF call[t].fn = "at" THEN "leave" ELSE "unlock"
          /\ hit'[t] = hit[t] \cup Hits(t)
      BY <2>0, <2>12, Zenon DEF Op, TypeOK, Goto
    <3>3. Tracked(t)'
      BY <3>1, <3>2 DEF Tracked
    <3>4. Others(t)
      BY <2>0, <2>12, StepOthers DEF Step
    <3>5. \A h \in Hits(t) : h[2] = Want(h[1])
      BY <2>0, <2>12, HitsRight DEF Op
    <3> QED
      BY <2>s, <2>0, <3>1, <3>2, <3>3, <3>4, <3>5, AtAssumption, TrackedStep, Zenon
  <2>13. ASSUME NEW t \in Thread, Stat(t) PROVE FALSE
    BY <2>0, <2>13 DEF Stat, LockInv
  <2>14. ASSUME NEW d \in Dir, Chdir(d) PROVE CwdTracked' /\ RightDirectory'
    <3>1. ASSUME NEW t \in Thread PROVE hit[t] = {} /\ Tracked(t)'
      BY <2>0, <2>14, <3>1 DEF Chdir, Tracked, slot
    <3> QED
      BY <2>14, <3>1 DEF Chdir, CwdTracked, RightDirectory
  <2>15. CASE UNCHANGED vars
    BY <2>s, <2>15 DEF vars, CwdTracked, Tracked, RightDirectory, Want, slot
  <2> QED
    BY <2>s, <2>1, <2>2, <2>3, <2>4, <2>5, <2>6, <2>7, <2>8, <2>9, <2>10, <2>11, <2>12,
       <2>13, <2>14, <2>15 DEF Next, Step
<1> QED
  BY <1>1, <1>2, TypeInvariant, LockInvariant, PTL DEF Spec

(* A program that makes only calls that take at_mutex has every path       *)
(* looked up in the directory it names, whatever the other threads do, as  *)
(* long as the saved directory can be entered again.                       *)
THEOREM PathsGoWhereAsked ==
    ASSUME LockedOnly, ~RestoreFails
    PROVE  Spec => []RightDirectory
BY TrackedInvariant, PTL

(* ... and finds the working directory where it left it whenever no call   *)
(* is under way.                                                           *)
THEOREM CwdComesBack ==
    ASSUME LockedOnly, ~RestoreFails
    PROVE  Spec => []CwdRestored
<1>1. CwdTracked => CwdRestored
  BY DEF CwdTracked, CwdRestored
<1> QED
  BY <1>1, TrackedInvariant, PTL
==============================================================================
