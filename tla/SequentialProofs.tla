-------------------------- MODULE SequentialProofs --------------------------
(***************************************************************************)
(* Proofs about the parts of Sequential, for every value of the constants: *)
(* for each part an inductive invariant, the lemma that its steps preserve *)
(* it, and the theorem about PartsSpec.                                    *)
(***************************************************************************)
EXTENDS Sequential, TLAPS

(* Quotients, remainders and products. *)
LEMMA DivMod ==
    ASSUME NEW a \in Nat, NEW b \in Nat \ {0}
    PROVE  a \div b \in Nat /\ a % b \in 0..b - 1 /\ a = b * (a \div b) + (a % b)
OBVIOUS

LEMMA Quotient ==
    \A a \in Nat, b \in Nat \ {0} :
        a \div b \in Nat /\ a % b \in Nat /\ a % b < b /\ a = b * (a \div b) + (a % b)
BY DivMod

LEMMA Larger ==
    ASSUME NEW u \in Nat \ {0}, NEW a \in Nat, NEW b \in Nat, u * a < u * b + u
    PROVE  a <= b
<1> SUFFICES ASSUME a > b PROVE FALSE
  OBVIOUS
<1>1. PICK k \in Nat : a = b + 1 + k
  <2>1. a - b - 1 \in Nat /\ a = b + 1 + (a - b - 1)
    OBVIOUS
  <2> QED
    BY <2>1
<1>2. u * a = u * b + u + u * k /\ u * k \in Nat /\ u * a \in Nat /\ u * b \in Nat
  BY <1>1
<1> QED
  BY <1>2

LEMMA Whole ==
    ASSUME NEW a \in Nat, NEW b \in Nat \ {0}, a < b
    PROVE  a % b = a
OBVIOUS

LEMMA Products ==
    ASSUME NEW a \in Nat, NEW b \in Nat, NEW c \in Nat
    PROVE  (a * b) * c = a * (c * b) /\ a * (b + c) = a * b + a * c /\ a * b \in Nat
OBVIOUS

LEMMA Spread ==
    ASSUME NEW u \in Nat, NEW p \in Nat, NEW q \in Nat, NEW m \in Nat, NEW z \in Nat, z < u,
           NEW t, t = (u * p) * q + (u * m + z)
    PROVE  LET k == q * p + m
           IN  k \in Nat /\ u * k \in Nat /\ u * k <= t /\ t < u * k + u
<1>1. q * p \in Nat /\ u * m \in Nat /\ u * (q * p) \in Nat /\ (u * p) * q = u * (q * p)
  BY Products
<1>2. u * (q * p + m) = u * (q * p) + u * m
  BY <1>1, Products
<1> QED
  BY <1>1, <1>2

(* t in units of u, computed as seconds of p units and the rest.           *)
LEMMA Units ==
    ASSUME NEW t \in Nat, NEW u \in Nat \ {0}, NEW p \in Nat \ {0}
    PROVE  LET k == (t \div (u * p)) * p + (t % (u * p)) \div u
           IN  k \in Nat /\ u * k \in Nat /\ u * k <= t /\ t < u * k + u
<1>1. u * p \in Nat \ {0}
  OBVIOUS
<1> DEFINE q == t \div (u * p)  r == t % (u * p)  m == r \div u  z == r % u
<1>2. q \in Nat /\ r \in Nat /\ t = (u * p) * q + r
  BY <1>1, Quotient, Zenon
<1>3. m \in Nat /\ z \in Nat /\ z < u /\ r = u * m + z
  BY <1>2, Quotient, Zenon
<1>4. t = (u * p) * q + (u * m + z)
  BY <1>2, <1>3, Zenon
<1> HIDE DEF q, r, m, z
<1>u. u \in Nat /\ p \in Nat
  OBVIOUS
<1>5. LET k == q * p + m
      IN  k \in Nat /\ u * k \in Nat /\ u * k <= t /\ t < u * k + u
  BY <1>2, <1>3, <1>4, <1>u, Spread, Zenon
<1> QED
  BY <1>5, Zenon DEF q, r, m

------------------------------------------------------------------------------
(* A step is a step of each part, of all but one a stuttering one. *)
LEMMA PartSteps ==
    ASSUME [PartsNext]_partsVars
    PROVE  /\ part' = part
           /\ [G!Next]_lineVars /\ [N!Next]_netVars /\ [W!Next]_pollVars
           /\ [C!Next]_clockVars /\ [E!Next]_fenvVars
<1>1. CASE UNCHANGED partsVars
  BY <1>1 DEF partsVars
<1> QED
  BY <1>1 DEF PartsNext

------------------------------------------------------------------------------
(* fenv.c. *)
(* Every feholdexcept but the outermost was called where nothing traps.    *)
FenvInv ==
    /\ E!TypeOK /\ E!FlagsExact /\ E!HeldWithoutTraps
    /\ \A k \in DOMAIN envs : k > 1 => envs[k].tem = {}

LEMMA FenvInit ==
    ASSUME E!FenvAssumption, E!Init
    PROVE  FenvInv
<1>1. fsr \in E!FSR /\ fsr.aexc = {}
  BY DEF E!Init, E!FSR, E!Default, E!FenvAssumption
<1> QED
  BY <1>1 DEF E!Init, FenvInv, E!TypeOK, E!FlagsExact, E!HeldWithoutTraps, E!top

(* A step that changes the flags of the innermost section, in the register *)
(* as C99 has it, and neither the traps nor the sections around it.        *)
LEMMA FlagsStep ==
    ASSUME FenvInv, NEW set \in SUBSET Exception, NEW r \in Rounding, NEW t \in SUBSET fsr.tem,
           fsr' = [aexc |-> set, rd |-> r, tem |-> t], E!Raise(set), UNCHANGED envs,
           flagp'.is \subseteq flagp'.mask, flagp'.mask \subseteq Exception
    PROVE  FenvInv'
<1>1. raised \in Seq(SUBSET Exception) /\ Len(raised) = Len(envs) + 1 /\ envs \in Seq(E!FSR)
  BY DEF FenvInv, E!TypeOK
<1>2. Len(envs) \in Nat /\ E!top \in 1..Len(raised) /\ DOMAIN envs = 1..Len(envs) /\ DOMAIN raised = 1..Len(raised)
  BY <1>1 DEF E!top
<1>3. fsr \in E!FSR
  BY DEF FenvInv, E!TypeOK
<1>4. fsr' \in E!FSR
  BY <1>3 DEF E!FSR
<1>5. raised' \in Seq(SUBSET Exception) /\ Len(raised') = Len(raised) /\ raised'[E!top] = set
       /\ \A k \in DOMAIN envs : raised'[k] = raised[k]
  BY <1>1, <1>2 DEF E!Raise, E!top
<1>6. E!TypeOK'
  BY <1>1, <1>4, <1>5 DEF E!TypeOK
<1>7. E!FlagsExact'
  BY <1>2, <1>5 DEF FenvInv, E!FlagsExact, E!top
<1>8. E!HeldWithoutTraps'
  BY DEF FenvInv, E!HeldWithoutTraps
<1> QED
  BY <1>6, <1>7, <1>8 DEF FenvInv

LEMMA HoldStep ==
    ASSUME FenvInv, E!feholdexcept
    PROVE  FenvInv'
<1>1. raised \in Seq(SUBSET Exception) /\ Len(raised) = Len(envs) + 1 /\ envs \in Seq(E!FSR) /\ fsr \in E!FSR
  BY DEF FenvInv, E!TypeOK
<1>2. Len(envs) \in Nat /\ E!top = Len(envs) + 1 /\ E!top' = Len(envs) + 2
  BY <1>1 DEF E!top, E!feholdexcept
<1>3. envs' \in Seq(E!FSR) /\ Len(envs') = Len(envs) + 1 /\ envs'[Len(envs) + 1] = fsr
       /\ \A k \in 1..Len(envs) : envs'[k] = envs[k]
  BY <1>1 DEF E!feholdexcept
<1>4. raised' \in Seq(SUBSET Exception) /\ Len(raised') = Len(envs) + 2 /\ raised'[Len(envs) + 2] = {}
       /\ \A k \in 1..(Len(envs) + 1) : raised'[k] = raised[k]
  BY <1>1 DEF E!feholdexcept
<1>5. fsr' \in E!FSR /\ fsr'.aexc = {} /\ fsr'.tem = {}
  BY <1>1, Zenon DEF E!feholdexcept, E!FSR
<1>6. E!TypeOK'
  BY <1>3, <1>4, <1>5 DEF E!TypeOK, FenvInv, E!feholdexcept
<1>7. DOMAIN envs = 1..Len(envs) /\ DOMAIN envs' = 1..(Len(envs) + 1)
  BY <1>1, <1>3
<1>8. E!FlagsExact'
  <2>1. fsr'.aexc = raised'[E!top']
    BY <1>2, <1>4, <1>5
  <2>2. ASSUME NEW k \in 1..(Len(envs) + 1)
        PROVE  envs'[k].aexc = raised'[k]
    <3>1. CASE k = Len(envs) + 1
      BY <1>2, <1>3, <1>4, <3>1 DEF FenvInv, E!FlagsExact
    <3>2. CASE k \in 1..Len(envs)
      BY <1>2, <1>3, <1>4, <1>7, <3>2 DEF FenvInv, E!FlagsExact
    <3> QED
      BY <1>2, <3>1, <3>2
  <2> QED
    BY <1>7, <2>1, <2>2 DEF E!FlagsExact
<1>9. \A k \in DOMAIN envs' : k > 1 => envs'[k].tem = {}
  <2>1. SUFFICES ASSUME NEW k \in 1..(Len(envs) + 1), k > 1 PROVE envs'[k].tem = {}
    BY <1>7
  <2>2. CASE k = Len(envs) + 1
    BY <1>2, <1>3, <2>1, <2>2 DEF FenvInv, E!HeldWithoutTraps
  <2>3. CASE k \in 1..Len(envs)
    BY <1>3, <1>7, <2>1, <2>3 DEF FenvInv
  <2> QED
    BY <1>2, <2>2, <2>3
<1> QED
  BY <1>5, <1>6, <1>8, <1>9 DEF FenvInv, E!HeldWithoutTraps

LEMMA Updated ==
    ASSUME NEW S, NEW s \in Seq(S), NEW i \in 1..Len(s), NEW x \in S, NEW t, t = [s EXCEPT ![i] = x]
    PROVE  t \in Seq(S) /\ Len(t) = Len(s) /\ t[i] = x /\ \A k \in 1..Len(s) : k # i => t[k] = s[k]
  OBVIOUS

(* The flags of the section that ends join those of the one around it.     *)
LEMMA UpdateStep ==
    ASSUME FenvInv, E!feupdateenv
    PROVE  FenvInv'
<1> DEFINE n == Len(envs)
<1>1. raised \in Seq(SUBSET Exception) /\ Len(raised) = n + 1 /\ envs \in Seq(E!FSR) /\ fsr \in E!FSR
  BY DEF FenvInv, E!TypeOK
<1>2. n \in Nat \ {0} /\ E!top = n + 1 /\ DOMAIN envs = 1..n
  BY <1>1 DEF E!top, E!feupdateenv
<1>3. envs' \in Seq(E!FSR) /\ Len(envs') = n - 1 /\ \A k \in 1..(n - 1) : envs'[k] = envs[k]
  BY <1>1, <1>2 DEF E!feupdateenv
<1>4. envs[n] \in E!FSR /\ envs[n].aexc = raised[n] /\ fsr.aexc = raised[n + 1]
  BY <1>1, <1>2 DEF FenvInv, E!FlagsExact
<1>5. fsr' \in E!FSR /\ fsr'.aexc = raised[n] \cup raised[n + 1] /\ fsr'.tem = envs[n].tem
  BY <1>1, <1>4, Zenon DEF E!feupdateenv, E!FSR
<1>6. raised' \in Seq(SUBSET Exception) /\ Len(raised') = n /\ raised'[n] = raised[n] \cup raised[n + 1]
       /\ \A k \in 1..(n - 1) : raised'[k] = raised[k]
  <2> DEFINE outer == SubSeq(raised, 1, n)
             joined == raised[n] \cup raised[n + 1]
  <2>1. SubSeq(raised, 1, n) \in Seq(SUBSET Exception) /\ Len(SubSeq(raised, 1, n)) = n
         /\ \A k \in 1..n : SubSeq(raised, 1, n)[k] = raised[k]
    BY <1>1, <1>2
  <2>2. raised[n] \cup raised[n + 1] \in SUBSET Exception
    BY <1>1, <1>2
  <2>3. outer[n] = raised[n]
    BY <1>2, <2>1
  <2>4. raised' = [outer EXCEPT ![n] = joined]
    <3>1. E!top - 1 = n
      BY <1>2
    <3>2. raised' = [SubSeq(raised, 1, E!top - 1) EXCEPT ![E!top - 1] = SubSeq(raised, 1, E!top - 1)[E!top - 1] \cup raised[E!top]]
      BY Zenon DEF E!feupdateenv, E!Ends
    <3> QED
      BY ONLY <1>2, <2>3, <3>1, <3>2, Zenon
  <2>5. outer \in Seq(SUBSET Exception) /\ Len(outer) = n /\ n \in 1..Len(outer) /\ joined \in SUBSET Exception
    BY <1>2, <2>1, <2>2
  <2> HIDE DEF outer, joined
  <2>6. raised' \in Seq(SUBSET Exception) /\ Len(raised') = n /\ raised'[n] = joined
         /\ \A k \in 1..n : k # n => raised'[k] = outer[k]
    BY <2>4, <2>5, Updated
  <2>7. \A k \in 1..(n - 1) : raised'[k] = raised[k]
    <3>1. \A k \in 1..n : outer[k] = raised[k]
      BY <2>1, Zenon DEF outer
    <3>2. \A k \in 1..(n - 1) : k \in 1..n /\ k # n
      <4>1. n \in Nat
        BY <1>2
      <4> HIDE DEF n
      <4> QED
        BY ONLY <4>1
    <3> QED
      BY ONLY <2>6, <3>1, <3>2, Zenon
  <2> QED
    BY <2>6, <2>7 DEF joined
<1>7. E!TypeOK'
  BY <1>2, <1>3, <1>5, <1>6 DEF E!TypeOK, FenvInv, E!feupdateenv
<1>8. DOMAIN envs' = 1..(n - 1) /\ E!top' = n
  BY <1>3, <1>6 DEF E!top
<1>9. E!FlagsExact'
  <2>1. fsr'.aexc = raised'[E!top']
    BY <1>5, <1>6, <1>8
  <2>2. \A k \in 1..(n - 1) : k \in DOMAIN envs
    BY <1>2
  <2>3. \A k \in DOMAIN envs' : envs'[k].aexc = raised'[k]
    BY <1>3, <1>6, <1>8, <2>2, Zenon DEF FenvInv, E!FlagsExact
  <2> QED
    BY <2>1, <2>3 DEF E!FlagsExact
<1>10. E!HeldWithoutTraps' /\ \A k \in DOMAIN envs' : k > 1 => envs'[k].tem = {}
  <2>1. \A k \in 1..(n - 1) : k \in DOMAIN envs
    BY <1>2
  <2>2. \A k \in DOMAIN envs' : k > 1 => envs'[k].tem = {}
    BY <1>3, <1>8, <2>1, Zenon DEF FenvInv
  <2>3. envs' # <<>> => n > 1
    BY <1>2, <1>3
  <2>4. n > 1 => envs[n].tem = {}
    BY <1>2 DEF FenvInv
  <2> QED
    BY <1>5, <2>2, <2>3, <2>4 DEF E!HeldWithoutTraps
<1> QED
  BY <1>7, <1>9, <1>10 DEF FenvInv

LEMMA FenvNext ==
    ASSUME E!FenvAssumption, FenvInv, [E!Next]_fenvVars
    PROVE  FenvInv'
<1> DEFINE old == raised[E!top]
<1>1. fsr \in E!FSR /\ fsr = [aexc |-> fsr.aexc, rd |-> fsr.rd, tem |-> fsr.tem] /\ fsr.aexc = old
  BY DEF FenvInv, E!TypeOK, E!FlagsExact, E!FSR
<1>2. fsr.rd \in Rounding /\ fsr.aexc \in SUBSET Exception /\ flagp.is \subseteq flagp.mask
       /\ flagp.mask \subseteq Exception
  BY <1>1 DEF E!FSR, FenvInv, E!TypeOK
<1>3. ASSUME NEW e \in SUBSET Exception, E!Operate(e) \/ E!feraiseexcept(e)
      PROVE  FenvInv'
  <2>1. fsr' = [aexc |-> old \cup e, rd |-> fsr.rd, tem |-> fsr.tem] /\ E!Raise(old \cup e)
    BY <1>1, <1>3 DEF E!Operate, E!feraiseexcept
  <2>2. UNCHANGED <<envs, flagp>>
    BY <1>3 DEF E!Operate, E!feraiseexcept
  <2> QED
    BY <1>1, <1>2, <2>1, <2>2, FlagsStep, Zenon
<1>4. ASSUME NEW e \in SUBSET Exception, E!feclearexcept(e)
      PROVE  FenvInv'
  <2>1. fsr' = [aexc |-> old \ e, rd |-> fsr.rd, tem |-> fsr.tem] /\ E!Raise(old \ e)
    BY <1>1, <1>4 DEF E!feclearexcept
  <2> QED
    BY <1>1, <1>2, <1>4, <2>1, FlagsStep DEF E!feclearexcept
<1>5. ASSUME NEW e \in SUBSET Exception, E!fegetexceptflag(e)
      PROVE  FenvInv'
  BY <1>5 DEF E!fegetexceptflag, FenvInv, E!TypeOK, E!FlagsExact, E!HeldWithoutTraps, E!top
<1>6. ASSUME NEW e \in SUBSET Exception, E!fesetexceptflag(e)
      PROVE  FenvInv'
  <2> DEFINE new == (old \ e) \cup (flagp.is \cap e)
  <2>1. fsr' = [aexc |-> new, rd |-> fsr.rd, tem |-> fsr.tem] /\ E!Raise(new)
    BY <1>1, <1>6 DEF E!fesetexceptflag
  <2>2. new \in SUBSET Exception
    BY <1>1, <1>2
  <2> QED
    BY <1>2, <1>6, <2>1, <2>2, FlagsStep, Zenon DEF E!fesetexceptflag
<1>7. ASSUME NEW r \in Rounding, E!fesetround(r)
      PROVE  FenvInv'
  <2>1. fsr' = [aexc |-> fsr.aexc, rd |-> r, tem |-> fsr.tem] /\ fsr' \in E!FSR
    BY <1>1, <1>7 DEF E!fesetround, E!FSR
  <2> QED
    BY <1>7, <2>1 DEF E!fesetround, FenvInv, E!TypeOK, E!FlagsExact, E!HeldWithoutTraps, E!top
<1>8. CASE E!fesetenv
  <2>1. fsr' = [aexc |-> {}, rd |-> 0, tem |-> {}] /\ E!Raise({}) /\ 0 \in Rounding
    BY <1>8 DEF E!fesetenv, E!Default, E!FenvAssumption
  <2> QED
    BY <1>2, <1>8, <2>1, FlagsStep DEF E!fesetenv
<1>9. CASE E!feholdexcept
  BY <1>9, HoldStep
<1>10. CASE E!feupdateenv
  BY <1>10, UpdateStep
<1>11. CASE UNCHANGED fenvVars
  BY <1>11 DEF fenvVars, FenvInv, E!TypeOK, E!FlagsExact, E!HeldWithoutTraps, E!top
<1> QED
  BY <1>3, <1>4, <1>5, <1>6, <1>7, <1>8, <1>9, <1>10, <1>11 DEF E!Next

LEMMA FenvHolds == PartsSpec => []FenvInv
<1>1. PartsInit => FenvInv
  <2>1. ASSUME NoSection
        PROVE  E!Init
    <3>1. fsr = [E!Default EXCEPT !.tem = {}]
      BY <2>1 DEF NoSection, E!Default
    <3> QED
      BY <2>1, <3>1, Zenon DEF NoSection, E!Init
  <2> QED
    BY <2>1, FenvInit, PartsAssumption DEF PartsInit
<1>2. FenvInv /\ [PartsNext]_partsVars => FenvInv'
  BY FenvNext, PartSteps, PartsAssumption
<1> QED
  BY <1>1, <1>2, PTL DEF PartsSpec

(* fenv.c:181 - a section that ends gives back the rounding direction and  *)
(* the traps that its feholdexcept saved, and adds its flags.              *)
LEMMA UpdateRestores ==
    ASSUME FenvInv, [E!Next]_fenvVars, envs' # envs, Len(envs') < Len(envs)
    PROVE  /\ fsr'.rd = envs[Len(envs)].rd /\ fsr'.tem = envs[Len(envs)].tem
           /\ fsr'.aexc = envs[Len(envs)].aexc \cup fsr.aexc
<1>1. envs \in Seq(E!FSR) /\ fsr \in E!FSR
  BY DEF FenvInv, E!TypeOK
<1>2. ~E!feholdexcept
  BY <1>1 DEF E!feholdexcept
<1>3. E!feupdateenv
  BY <1>2, Zenon DEF E!Next, fenvVars, E!Operate, E!feclearexcept, E!feraiseexcept, E!fegetexceptflag,
                     E!fesetexceptflag, E!fesetround, E!fesetenv
<1>4. envs[Len(envs)] \in E!FSR
  BY <1>1, <1>3 DEF E!feupdateenv
<1> QED
  BY <1>3, <1>4 DEF E!feupdateenv, E!FSR

(* fenv.c:100, 169, 183 - however deep sections nest, the flags are what   *)
(* was raised since the innermost feholdexcept, those of sections that     *)
(* have ended among them, and nothing traps inside one; line 181 - a       *)
(* section that ends gives back what its feholdexcept saved.               *)
THEOREM FlagsAreExact == PartsSpec => FloatingPoint
<1>1. FenvInv => E!FlagsExact /\ E!HeldWithoutTraps
  BY DEF FenvInv
<1>2. FenvInv /\ [PartsNext]_partsVars =>
         [envs' # envs /\ Len(envs') < Len(envs) =>
             /\ fsr'.rd = envs[Len(envs)].rd /\ fsr'.tem = envs[Len(envs)].tem
             /\ fsr'.aexc = envs[Len(envs)].aexc \cup fsr.aexc]_(E!vars)
  BY PartSteps, UpdateRestores
<1> QED
  BY <1>1, <1>2, FenvHolds, PTL DEF PartsSpec, FloatingPoint, E!Restores

------------------------------------------------------------------------------
(* poll.c. *)
(* The mask while the call's own is in place.                              *)
Inside == IF poll.sigmask = NULL THEN callers ELSE poll.sigmask

(* What is caught is let through by the mask that was there at the time:   *)
(* the caller's before the first sigprocmask, either of the two after it.  *)
PollInv ==
    /\ poll_pc \in {"user", "mask", "enter", "wait", "restore"}
    /\ poll_pc = "user" => mask = callers /\ caught = {}
    /\ poll_pc = "mask" => mask = callers /\ caught \cap callers = {}
    /\ poll_pc \in {"enter", "wait", "restore"} =>
          mask = Inside /\ poll.origmask = callers /\ caught \cap callers \cap Inside = {}

(* call is a record, so that EXCEPT changes one field only.                *)
PollRecord == poll = [f \in {"fn", "asked", "timeout", "sigmask", "origmask", "due"} |-> poll[f]]

LEMMA PollInit ==
    ASSUME W!Init
    PROVE  PollInv /\ PollRecord
BY DEF W!Init, PollInv, PollRecord, W!NoCall

LEMMA PollNext ==
    ASSUME PollInv, PollRecord, [W!Next]_pollVars
    PROVE  PollInv' /\ PollRecord'
<1> USE DEF PollInv, PollRecord, W!Goto
<1>1. ASSUME NEW f, NEW t, NEW m, W!Call(f, t, m)
      PROVE  PollInv' /\ PollRecord'
  BY <1>1, Zenon DEF W!Call, W!NoCall
<1>2. CASE W!SetMask
  BY <1>2 DEF W!SetMask, Inside
<1>3. CASE W!Enter
  BY <1>3 DEF W!Enter, Inside
<1>4. CASE W!Wake
  BY <1>4 DEF W!Wake, Inside
<1>5. CASE W!Restore
  BY <1>5 DEF W!Restore, Inside, W!NoCall
<1>6. ASSUME NEW s, W!Handle(s)
      PROVE  PollInv' /\ PollRecord'
  BY <1>6 DEF W!Handle, Inside
<1>7. ASSUME NEW s, W!Send(s)
      PROVE  PollInv' /\ PollRecord'
  BY <1>7 DEF W!Send, Inside
<1>8. CASE W!Tick
  BY <1>8 DEF W!Tick, Inside
<1>9. CASE UNCHANGED pollVars
  BY <1>9 DEF pollVars, Inside
<1> QED
  BY <1>1, <1>2, <1>3, <1>4, <1>5, <1>6, <1>7, <1>8, <1>9 DEF W!Next

(* A timeout that fits an int is the time asked for, but for less than one *)
(* unit.                                                                   *)
LEMMA LongEnough ==
    ASSUME W!PollAssumption, NEW t \in Nat, NEW f, NEW c \in Nat, c >= Unit * W!timeout(f, t)
    PROVE  c > t - Unit \/ (f # "pselect" /\ t \div Unit > INT_MAX)
<1>1. Unit \in Nat \ {0} /\ PerSec \in Nat \ {0} /\ INT_MAX \in Nat \ {0}
  BY DEF W!PollAssumption
<1> DEFINE k == (t \div (Unit * PerSec)) * PerSec + (t % (Unit * PerSec)) \div Unit
<1>2. k \in Nat /\ Unit * k \in Nat /\ Unit * k <= t /\ t < Unit * k + Unit
  BY <1>1, Units, Zenon
<1>3. W!timeout(f, t) = IF f = "pselect" THEN k ELSE IF W!int(k) < 0 THEN 0 ELSE W!int(k)
  BY Zenon DEF W!timeout
<1> HIDE DEF k
<1>4. CASE f = "pselect"
  <2>1. W!timeout(f, t) = k
    BY <1>3, <1>4, Zenon
  <2> QED
    BY <1>1, <1>2, <2>1
<1>5. CASE f # "pselect" /\ k <= INT_MAX
  <2>1. k + INT_MAX + 1 \in Nat /\ 2 * INT_MAX + 2 \in Nat \ {0} /\ k + INT_MAX + 1 < 2 * INT_MAX + 2
    BY <1>1, <1>2, <1>5
  <2>2. (k + INT_MAX + 1) % (2 * INT_MAX + 2) = k + INT_MAX + 1
    BY <2>1, Whole, Zenon
  <2>3. W!int(k) = k
    BY <1>1, <1>2, <2>2 DEF W!int
  <2>4. ~(k < 0)
    BY <1>2
  <2>5. W!timeout(f, t) = k
    BY <1>3, <1>5, <2>3, <2>4, Zenon
  <2> QED
    BY <1>1, <1>2, <2>5
<1>6. CASE f # "pselect" /\ k > INT_MAX
  <2> DEFINE d == t \div Unit  r == t % Unit
  <2>1. d \in Nat /\ r \in Nat /\ r < Unit /\ t = Unit * d + r
    BY <1>1, Quotient, Zenon
  <2> HIDE DEF d, r
  <2>2. Unit * d \in Nat
    BY <1>1, <2>1, Products
  <2>3. Unit * k < Unit * d + Unit
    BY <1>1, <1>2, <2>1, <2>2
  <2>4. k <= d
    BY <1>1, <1>2, <2>1, <2>3, Larger, Zenon
  <2>5. d > INT_MAX
    BY <1>1, <1>2, <1>6, <2>1, <2>4
  <2> QED
    BY <1>6, <2>5, Zenon DEF d
<1> QED
  BY <1>1, <1>2, <1>4, <1>5, <1>6

(* The call keeps what was asked, and a wait ends at the time it has set.  *)
PollTime ==
    /\ clock \in Nat
    /\ poll_pc \in {"mask", "enter", "wait"} =>
          /\ poll.fn \in {"ppoll", "pselect"}
          /\ poll.timeout # NULL => poll.asked \in Nat /\ poll.timeout = W!timeout(poll.fn, poll.asked)
    /\ poll_pc = "wait" /\ poll.timeout # NULL => poll.due \in Nat /\ poll.due >= Unit * poll.timeout
    /\ poll_pc = "restore" /\ poll_ret = 0 => poll.asked \in Nat /\ W!TimesOut

LEMMA TimeoutType ==
    ASSUME W!PollAssumption, NEW t \in Nat, NEW f
    PROVE  W!timeout(f, t) \in Nat /\ Unit * W!timeout(f, t) \in Nat
<1>1. Unit \in Nat \ {0} /\ PerSec \in Nat \ {0} /\ INT_MAX \in Nat \ {0}
  BY DEF W!PollAssumption
<1> DEFINE k == (t \div (Unit * PerSec)) * PerSec + (t % (Unit * PerSec)) \div Unit
<1>2. k \in Nat
  BY <1>1, Units, Zenon
<1>3. W!timeout(f, t) = IF f = "pselect" THEN k ELSE IF W!int(k) < 0 THEN 0 ELSE W!int(k)
  BY Zenon DEF W!timeout
<1> HIDE DEF k
<1>4. W!int(k) \in Int
  <2>1. k + INT_MAX + 1 \in Nat /\ 2 * INT_MAX + 2 \in Nat \ {0}
    BY <1>1, <1>2
  <2>2. (k + INT_MAX + 1) % (2 * INT_MAX + 2) \in Nat
    BY <2>1, Quotient, Zenon
  <2> QED
    BY <1>1, <2>2 DEF W!int
<1>5. W!timeout(f, t) \in Nat
  BY <1>2, <1>3, <1>4
<1> QED
  BY <1>1, <1>5, Products

LEMMA PollTimeNext ==
    ASSUME W!PollAssumption, PollInv, PollRecord, PollTime, [W!Next]_pollVars
    PROVE  PollTime'
<1>1. ASSUME NEW f \in {"ppoll", "pselect"}, NEW t \in 0..MaxAsked \cup {NULL}, NEW m, W!Call(f, t, m)
      PROVE  PollTime'
  <2>1. poll' = [fn |-> f, asked |-> t, timeout |-> IF t = NULL THEN NULL ELSE W!timeout(f, t),
                 sigmask |-> m, origmask |-> {}, due |-> 0] /\ poll_pc' = "mask" /\ clock' = 0
    BY <1>1, Zenon DEF W!Call, W!NoCall, W!Goto
  <2>2. t # NULL => t \in Nat
    BY DEF W!PollAssumption
  <2> QED
    BY <2>1, <2>2 DEF PollTime
<1>2. CASE W!SetMask
  <2>1. /\ poll_pc = "mask" /\ poll_pc' = "enter" /\ clock' = clock
        /\ poll'.fn = poll.fn /\ poll'.asked = poll.asked /\ poll'.timeout = poll.timeout
    BY <1>2 DEF W!SetMask, W!Goto, PollRecord
  <2> QED
    BY <2>1, Zenon DEF PollTime
<1>3. CASE W!Enter
  <2>1. /\ poll_pc = "enter" /\ poll_pc' = "wait" /\ clock' = clock
        /\ poll'.fn = poll.fn /\ poll'.asked = poll.asked /\ poll'.timeout = poll.timeout
        /\ poll.timeout # NULL => poll'.due = clock + Unit * poll.timeout
    BY <1>3 DEF W!Enter, W!Goto, PollRecord
  <2>2. poll.timeout # NULL => Unit * poll.timeout \in Nat
    BY <2>1, TimeoutType, Zenon DEF PollTime
  <2>3. poll.timeout # NULL => poll'.due \in Nat /\ poll'.due >= Unit * poll'.timeout
    BY <2>1, <2>2 DEF PollTime
  <2> QED
    BY <2>1, <2>3, Zenon DEF PollTime
<1>4. CASE W!Wake
  <2>1. poll_pc = "wait" /\ poll_pc' = "restore" /\ UNCHANGED <<clock, poll>>
        /\ (poll_ret' = 1 \/ (poll.timeout # NULL /\ clock >= poll.due /\ poll_ret' = 0))
    BY <1>4, Zenon DEF W!Wake, W!Goto
  <2>2. ASSUME poll_ret' = 0
        PROVE  poll.asked \in Nat /\ W!TimesOut'
    <3>1. /\ poll.timeout # NULL /\ clock >= poll.due /\ poll.due >= Unit * poll.timeout /\ poll.due \in Nat
          /\ poll.fn \in {"ppoll", "pselect"} /\ poll.asked \in Nat /\ clock \in Nat
          /\ poll.timeout = W!timeout(poll.fn, poll.asked)
      BY <2>1, <2>2 DEF PollTime
    <3>2. Unit * poll.timeout \in Nat
      BY <3>1, TimeoutType, Zenon
    <3>4. clock >= Unit * W!timeout(poll.fn, poll.asked)
      BY <3>1, <3>2
    <3>3. clock > poll.asked - Unit \/ (poll.fn = "ppoll" /\ poll.asked \div Unit > INT_MAX)
      BY <3>1, <3>4, LongEnough, Zenon
    <3> QED
      BY <2>1, <3>1, <3>3, Zenon DEF W!TimesOut
  <2> QED
    BY <2>1, <2>2, Zenon DEF PollTime
<1>5. CASE W!Restore
  BY <1>5 DEF W!Restore, W!Goto, PollTime
<1>6. ASSUME NEW s, W!Handle(s)
      PROVE  PollTime'
  BY <1>6 DEF W!Handle, PollTime, W!TimesOut
<1>7. ASSUME NEW s, W!Send(s)
      PROVE  PollTime'
  BY <1>7, Zenon DEF W!Send, PollTime, W!TimesOut
<1>8. CASE W!Tick
  <2>1. clock' = clock + 1 /\ clock' \in Nat /\ UNCHANGED <<poll_pc, poll, poll_ret>>
    BY <1>8 DEF W!Tick, PollTime
  <2>2. poll_pc = "restore" /\ poll_ret = 0 => W!TimesOut'
    BY <2>1 DEF PollTime, W!TimesOut, W!PollAssumption
  <2> QED
    BY <2>1, <2>2, Zenon DEF PollTime
<1>9. CASE UNCHANGED pollVars
  BY <1>9, Zenon DEF pollVars, PollTime, W!TimesOut
<1> QED
  BY <1>1, <1>2, <1>3, <1>4, <1>5, <1>6, <1>7, <1>8, <1>9, Zenon DEF W!Next

LEMMA PollHolds == PartsSpec => [](part = "poll" => PollInv /\ PollRecord /\ PollTime)
<1>1. PartsInit => (part = "poll" => PollInv /\ PollRecord /\ PollTime)
  <2>1. ASSUME W!Init
        PROVE  PollInv /\ PollRecord /\ PollTime
    <3>1. clock = 0 /\ poll_pc = "user"
      BY <2>1, Zenon DEF W!Init
    <3>2. PollTime
      BY <3>1 DEF PollTime
    <3> QED
      BY <2>1, <3>2, PollInit, Zenon
  <2> QED
    BY <2>1, Zenon DEF PartsInit
<1>2. (part = "poll" => PollInv /\ PollRecord /\ PollTime) /\ [PartsNext]_partsVars =>
         (part = "poll" => PollInv /\ PollRecord /\ PollTime)'
  BY PollNext, PollTimeNext, PartSteps, PartsAssumption, Zenon
<1> QED
  BY <1>1, <1>2, PTL DEF PartsSpec

(* poll.c:42, 70 - whatever signals arrive and however the wait ends, the  *)
(* caller has its own mask again, and no handler has run in the call for a *)
(* signal that neither mask lets through; lines 32, 59 - a wait that times *)
(* out has lasted as long as was asked, but for less than a unit.          *)
THEOREM MaskComesBack == PartsSpec => []MaskBack
<1>1. PollInv => W!MaskBack
  BY DEF PollInv, W!MaskBack, Inside
<1>2. PollTime => W!TimesOut
  BY Zenon DEF PollTime, W!TimesOut
<1>3. (part = "poll" => PollInv /\ PollRecord /\ PollTime) => MaskBack
  BY <1>1, <1>2, Zenon DEF MaskBack
<1> QED
  BY <1>3, PollHolds, PTL

------------------------------------------------------------------------------
(* getdelim of stdio.c. *)
Cell == Byte \cup {NUL, Junk}

(* What has been read in this call, and where it is. *)
Filled == Len(read) = pos /\ \A i \in 1..pos : block[i] = read[i]

(* No delimiter but at the end, and one there unless the stream has ended. *)
Line == /\ \A i \in 1..pos : read[i] = Delim => i = pos
        /\ read[pos] # Delim => stream = <<>>

LineType ==
    /\ stream \in Seq(Byte) /\ block \in Seq(Cell) /\ read \in Seq(Byte)
    /\ size_n \in Nat /\ bufsize \in Nat /\ pos \in Nat /\ line_ret \in Int
    /\ line_pc \in {"user", "loop", "end", "ENOMEM", "EOF"}

(* If there is a block it is as large as *n says; inside the loop there is *)
(* one, bufsize is the same, and there is room for one byte more.          *)
LineInv ==
    /\ LineType
    /\ block = <<>> \/ size_n = 0 \/ size_n = Len(block)
    /\ line_pc \in {"loop", "end"} => bufsize = size_n /\ size_n = Len(block) /\ pos < size_n /\ Filled
    /\ line_pc = "loop" => \A i \in 1..pos : read[i] # Delim
    /\ line_pc = "end" => pos > 0 /\ Line
    /\ line_pc = "user" /\ line_ret > 0 => line_ret = pos /\ pos < Len(block) /\ Filled /\ Line /\ block[pos + 1] = NUL

LEMMA Appended ==
    ASSUME NEW S, NEW s \in Seq(S), NEW x \in S
    PROVE  /\ Append(s, x) \in Seq(S) /\ Len(Append(s, x)) = Len(s) + 1
           /\ Append(s, x)[Len(s) + 1] = x /\ \A i \in 1..Len(s) : Append(s, x)[i] = s[i]
OBVIOUS

LEMMA Shortened ==
    ASSUME NEW S, NEW s \in Seq(S), s # <<>>
    PROVE  Head(s) \in S /\ Tail(s) \in Seq(S)
OBVIOUS

LEMMA Enlarged ==
    ASSUME NEW S, NEW s \in Seq(S), NEW x \in S, NEW k \in Nat, k >= Len(s),
           NEW t, t = [i \in 1..k |-> IF i <= Len(s) THEN s[i] ELSE x]
    PROVE  t \in Seq(S) /\ Len(t) = k /\ \A i \in 1..Len(s) : t[i] = s[i]
OBVIOUS

LEMMA FreshMemory ==
    ASSUME NEW k \in Nat
    PROVE  G!Memory(k) \in Seq(Cell) /\ Len(G!Memory(k)) = k
BY DEF G!Memory, Cell

LEMMA LineInit ==
    ASSUME G!GetDelimAssumption, G!Init
    PROVE  LineInv
<1>1. stream \in Seq(Byte)
  <2>1. PICK k \in 0..MaxFile : stream \in [1..k -> Byte]
    BY Zenon DEF G!Init
  <2>2. k \in Nat
    BY DEF G!GetDelimAssumption
  <2> QED
    BY <2>1, <2>2
<1>2. PICK k, m \in Given \cup {0} : (k = m \/ k = 0 \/ m = 0) /\ block = G!Memory(k) /\ size_n = m
  BY Zenon DEF G!Init
<1>3. k \in Nat /\ m \in Nat
  BY DEF G!GetDelimAssumption
<1>4. block \in Seq(Cell) /\ Len(block) = k /\ size_n \in Nat
  BY <1>2, <1>3, FreshMemory, Zenon
<1>6. block = <<>> \/ size_n = 0 \/ size_n = Len(block)
  BY <1>2, <1>4
<1>5. line_pc = "user" /\ bufsize = 0 /\ pos = 0 /\ read = <<>> /\ line_ret = 0
  BY Zenon DEF G!Init
<1> QED
  BY <1>1, <1>4, <1>5, <1>6 DEF LineInv, LineType

(* A byte goes into a block of k cells that holds what was read before.    *)
LEMMA ByteTaken ==
    ASSUME LineInv, G!GetDelimAssumption, line_pc = "loop", stream # <<>>,
           NEW b \in Seq(Cell), \A i \in 1..pos : b[i] = block[i],
           pos + 1 < Len(b), G!Takes(b), bufsize' = Len(b), size_n' = Len(b)
    PROVE  LineInv'
<1>1. /\ stream \in Seq(Byte) /\ read \in Seq(Byte) /\ pos \in Nat /\ Len(read) = pos
      /\ \A i \in 1..pos : block[i] = read[i] /\ read[i] # Delim
  BY Zenon DEF LineInv, LineType, Filled
<1> DEFINE c == Head(stream)
<1>2. c \in Byte /\ Tail(stream) \in Seq(Byte) /\ c \in Cell
  BY <1>1, Shortened, Zenon DEF Cell
<1>3. /\ block' = [b EXCEPT ![pos + 1] = c] /\ pos' = pos + 1 /\ read' = Append(read, c)
      /\ stream' = Tail(stream) /\ line_ret' = line_ret
      /\ line_pc' = IF c = Delim THEN "end" ELSE "loop"
  BY Zenon DEF G!Takes, G!Put
<1> HIDE DEF c
<1>4. pos + 1 \in 1..Len(b) /\ Len(b) \in Nat /\ \A i \in 1..pos : i \in 1..Len(b) /\ i # pos + 1
  BY <1>1
<1>5. /\ block' \in Seq(Cell) /\ Len(block') = Len(b) /\ block'[pos + 1] = c
      /\ \A i \in 1..Len(b) : i # pos + 1 => block'[i] = b[i]
  BY <1>2, <1>3, <1>4, Updated
<1>6. /\ read' \in Seq(Byte) /\ Len(read') = pos + 1 /\ read'[pos + 1] = c
      /\ \A i \in 1..pos : read'[i] = read[i]
  BY <1>1, <1>2, <1>3, Appended
<1>7. \A i \in 1..pos : block'[i] = read'[i] /\ read'[i] # Delim
  BY <1>1, <1>4, <1>5, <1>6, Zenon
<1>8. pos' \in Nat /\ pos' > 0 /\ \A i \in 1..pos' : i = pos + 1 \/ i \in 1..pos
  BY <1>1, <1>3
<1>9. Filled'
  BY <1>3, <1>5, <1>6, <1>7, <1>8, Zenon DEF Filled
<1>10. LineType'
  BY <1>2, <1>3, <1>4, <1>5, <1>6, <1>8 DEF LineInv, LineType
<1>11. pos' < size_n' /\ size_n' = Len(block') /\ bufsize' = size_n'
  BY <1>3, <1>5, Zenon
<1>12. CASE c = Delim
  <2>1. line_pc' = "end"
    BY <1>3, <1>12, Zenon
  <2>2. Line'
    BY <1>3, <1>6, <1>7, <1>8, <1>12, Zenon DEF Line
  <2> QED
    BY <1>8, <1>9, <1>10, <1>11, <2>1, <2>2, Zenon DEF LineInv
<1>13. CASE c # Delim
  <2>1. line_pc' = "loop"
    BY <1>3, <1>13, Zenon
  <2>2. \A i \in 1..pos' : read'[i] # Delim
    BY <1>6, <1>7, <1>8, <1>13, Zenon
  <2> QED
    BY <1>9, <1>10, <1>11, <2>1, <2>2, Zenon DEF LineInv
<1> QED
  BY <1>12, <1>13, Zenon

LEMMA ReadInv ==
    ASSUME LineInv, G!GetDelimAssumption, G!ReadByte
    PROVE  LineInv'
<1>1. /\ line_pc = "loop" /\ stream # <<>>
      /\ IF pos + 1 >= bufsize
         THEN G!Takes(G!Grown(block)) /\ bufsize' = 2 * bufsize /\ size_n' = 2 * bufsize
         ELSE G!Takes(block) /\ UNCHANGED <<bufsize, size_n>>
  BY Zenon DEF G!ReadByte
<1>2. /\ bufsize = Len(block) /\ size_n = Len(block) /\ pos \in Nat /\ pos < Len(block)
      /\ block \in Seq(Cell) /\ Junk \in Cell
  BY <1>1, Zenon DEF LineInv, LineType, Cell
<1>3. CASE pos + 1 >= bufsize
  <2>1. 2 * bufsize \in Nat /\ 2 * bufsize >= Len(block) /\ pos + 1 < 2 * bufsize
        /\ \A i \in 1..pos : i \in 1..Len(block)
    BY <1>2
  <2>2. G!Grown(block) = [i \in 1..(2 * bufsize) |-> IF i <= Len(block) THEN block[i] ELSE Junk]
    BY DEF G!Grown
  <2>3. PICK k \in Nat : k = 2 * bufsize
    BY <2>1, Zenon
  <2>4. /\ G!Grown(block) \in Seq(Cell) /\ Len(G!Grown(block)) = 2 * bufsize
        /\ \A i \in 1..Len(block) : G!Grown(block)[i] = block[i]
    BY <1>2, <2>1, <2>2, <2>3, Enlarged
  <2> QED
    BY <1>1, <1>3, <2>1, <2>4, ByteTaken, Zenon
<1>4. CASE ~(pos + 1 >= bufsize)
  <2>1. pos + 1 < Len(block)
    BY <1>2, <1>4
  <2> QED
    BY <1>1, <1>2, <1>4, <2>1, ByteTaken, Zenon
<1> QED
  BY <1>3, <1>4, Zenon

LEMMA TerminateInv ==
    ASSUME LineInv, G!GetDelimAssumption, G!Terminate
    PROVE  LineInv'
<1>1. /\ line_pc = "end" /\ block' = [block EXCEPT ![pos + 1] = NUL] /\ line_ret' = pos /\ line_pc' = "user"
      /\ UNCHANGED <<stream, size_n, bufsize, pos, read>>
  BY Zenon DEF G!Terminate
<1>2. /\ LineType /\ size_n = Len(block) /\ pos \in Nat /\ pos < Len(block) /\ Filled /\ Line
      /\ block \in Seq(Cell) /\ NUL \in Cell
  BY <1>1, Zenon DEF LineInv, LineType, Cell
<1>3. pos + 1 \in 1..Len(block) /\ \A i \in 1..pos : i \in 1..Len(block) /\ i # pos + 1
  BY <1>2
<1>4. /\ block' \in Seq(Cell) /\ Len(block') = Len(block) /\ block'[pos + 1] = NUL
      /\ \A i \in 1..Len(block) : i # pos + 1 => block'[i] = block[i]
  BY <1>1, <1>2, <1>3, Updated
<1>5. Filled'
  BY <1>1, <1>2, <1>3, <1>4, Zenon DEF Filled
<1>6. Line'
  BY <1>1, <1>2, Zenon DEF Line
<1>7. LineType'
  BY <1>1, <1>2, <1>4 DEF LineType
<1> QED
  BY <1>1, <1>2, <1>4, <1>5, <1>6, <1>7, Zenon DEF LineInv

LEMMA LineNext ==
    ASSUME LineInv, G!GetDelimAssumption, [G!Next]_lineVars
    PROVE  LineInv'
<1>0. LineType
  BY DEF LineInv
<1>1. CASE G!getdelim
  <2>1. /\ pos' = 0 /\ read' = <<>> /\ line_ret' = 0 /\ stream' = stream /\ line_pc' = "loop"
    BY <1>1, Zenon DEF G!getdelim
  <2>2. block' \in Seq(Cell) /\ size_n' \in Nat \ {0} /\ size_n' = Len(block') /\ bufsize' = size_n'
    <3>1. CASE G!NoBlock
      <4>1. /\ block' = G!Memory(GETDELIM_INITIAL_SIZE) /\ bufsize' = GETDELIM_INITIAL_SIZE
            /\ size_n' = GETDELIM_INITIAL_SIZE
        BY <1>1, <3>1, Zenon DEF G!getdelim
      <4>2. GETDELIM_INITIAL_SIZE \in Nat \ {0}
        BY Zenon DEF G!GetDelimAssumption
      <4> QED
        BY <4>1, <4>2, FreshMemory, Zenon
    <3>2. CASE ~G!NoBlock
      <4>1. bufsize' = size_n /\ UNCHANGED <<block, size_n>>
        BY <1>1, <3>2, Zenon DEF G!getdelim
      <4> QED
        BY <1>0, <3>2, <4>1, Zenon DEF LineInv, LineType, G!NoBlock
    <3> QED
      BY <3>1, <3>2, Zenon
  <2>3. LineType'
    BY <1>0, <2>1, <2>2 DEF LineType
  <2>4. Filled' /\ pos' < size_n' /\ \A i \in 1..pos' : read'[i] # Delim
    BY <2>1, <2>2 DEF Filled
  <2> QED
    BY <2>1, <2>2, <2>3, <2>4, Zenon DEF LineInv
<1>2. CASE G!NoMemory
  <2>1. line_pc' = "ENOMEM" /\ line_ret' = -1 /\ UNCHANGED <<stream, block, size_n, bufsize, pos, read>>
    BY <1>2, Zenon DEF G!NoMemory
  <2>2. LineType'
    BY <1>0, <2>1 DEF LineType
  <2> QED
    BY <2>1, <2>2, Zenon DEF LineInv
<1>3. CASE G!ReadByte
  BY <1>3, ReadInv, Zenon
<1>4. CASE G!NoMoreMemory
  <2>1. /\ stream # <<>> /\ stream' = Tail(stream) /\ bufsize' = 2 * bufsize
        /\ line_pc' = "ENOMEM" /\ line_ret' = -1 /\ UNCHANGED <<block, size_n, pos, read>>
    BY <1>4, Zenon DEF G!NoMoreMemory
  <2>2. LineType'
    BY <1>0, <2>1 DEF LineType
  <2> QED
    BY <2>1, <2>2, Zenon DEF LineInv
<1>5. CASE G!EndOfFile
  <2>1. /\ line_pc = "loop" /\ stream = <<>> /\ UNCHANGED <<stream, block, size_n, bufsize, pos, read>>
        /\ IF pos = 0 THEN line_pc' = "EOF" /\ line_ret' = -1 ELSE line_pc' = "end" /\ UNCHANGED line_ret
    BY <1>5, Zenon DEF G!EndOfFile
  <2>2. LineType'
    BY <1>0, <2>1 DEF LineType
  <2>3. CASE pos = 0
    BY <2>1, <2>2, <2>3, Zenon DEF LineInv
  <2>4. CASE pos # 0
    <3>1. line_pc' = "end"
      BY <2>1, <2>4, Zenon
    <3>2. pos' > 0
      BY <1>0, <2>1, <2>4 DEF LineType
    <3>3. Filled' /\ Line' /\ bufsize' = size_n' /\ pos' < size_n' /\ size_n' = Len(block')
      BY <2>1, Zenon DEF LineInv, Filled, Line
    <3> QED
      BY <2>2, <3>1, <3>2, <3>3, Zenon DEF LineInv
  <2> QED
    BY <2>3, <2>4, Zenon
<1>6. CASE G!Terminate
  BY <1>6, TerminateInv, Zenon
<1>7. CASE G!Retry
  <2>1. line_pc' = "user" /\ line_ret' = 0 /\ UNCHANGED <<stream, block, size_n, bufsize, pos, read>>
    BY <1>7, Zenon DEF G!Retry
  <2>2. LineType' /\ ~(line_ret' > 0)
    BY <1>0, <2>1 DEF LineType
  <2> QED
    BY <2>1, <2>2, Zenon DEF LineInv
<1>8. CASE UNCHANGED lineVars
  BY <1>8, Zenon DEF lineVars, LineInv, LineType, Filled, Line
<1> QED
  BY <1>1, <1>2, <1>3, <1>4, <1>5, <1>6, <1>7, <1>8, Zenon DEF G!Next, G!vars, lineVars

LEMMA LineHolds == PartsSpec => []LineInv
<1>1. PartsInit => LineInv
  <2>1. ASSUME NoLine
        PROVE  LineInv
    BY <2>1 DEF NoLine, LineInv, LineType
  <2> QED
    BY <2>1, LineInit, PartsAssumption, Zenon DEF PartsInit
<1>2. LineInv /\ [PartsNext]_partsVars => LineInv'
  BY LineNext, PartSteps, PartsAssumption, Zenon
<1> QED
  BY <1>1, <1>2, PTL DEF PartsSpec

(* stdio.c:131, 141 - for any stream, any block the caller begins with and *)
(* whichever allocations fail, *n is the size of the block and the NUL is  *)
(* inside it; what getdelim returns is what it has read, to the delimiter  *)
(* or the end of the stream.                                               *)
THEOREM LinesAreWhole == PartsSpec => []Lines
<1>1. LineInv => G!BlockSound
  BY Zenon DEF LineInv, G!BlockSound, G!NoBlock
<1>2. LineInv => G!WholeLine
  <2> SUFFICES ASSUME LineInv, line_pc = "user", line_ret > 0
               PROVE  /\ line_ret = Len(read) /\ SubSeq(block, 1, line_ret) = read /\ block[line_ret + 1] = NUL
                      /\ \A i \in 1..line_ret : read[i] = Delim => i = line_ret
                      /\ read[line_ret] # Delim => stream = <<>>
    BY Zenon DEF G!WholeLine
  <2>1. /\ line_ret = pos /\ pos < Len(block) /\ Filled /\ Line /\ block[pos + 1] = NUL
        /\ block \in Seq(Cell) /\ read \in Seq(Byte) /\ pos \in Nat
    BY Zenon DEF LineInv, LineType
  <2>2. SubSeq(block, 1, pos) = read
    BY <2>1 DEF Filled
  <2> QED
    BY <2>1, <2>2, Zenon DEF Filled, Line
<1>3. LineInv => Lines
  BY <1>1, <1>2, Zenon DEF Lines
<1> QED
  BY <1>3, LineHolds, PTL

==============================================================================
