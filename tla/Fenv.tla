-------------------------------- MODULE Fenv ---------------------------------
(***************************************************************************)
(* src/fenv.c: the C99 floating-point environment kept in the SPARC        *)
(* floating-point status register, through which a program nests sections  *)
(* between feholdexcept and feupdateenv.  The register is a record of its  *)
(* fields; a field of five exception bits is a set of exceptions.  The     *)
(* current exceptions, which no function reads, are left out.              *)
(***************************************************************************)
EXTENDS Integers, Sequences

CONSTANTS
    Exception,     \* FE_ALL_EXCEPT
    Rounding,      \* 0..3
    MaxNest        \* how deep sections may nest

FenvAssumption == 0 \in Rounding /\ MaxNest \in Nat

VARIABLES
    fsr,        \* the register: accrued exceptions, direction, traps
    envs,       \* the fenv_t of each feholdexcept that is open
    flagp,      \* a fexcept_t: the exceptions and the mask it was taken with
    raised      \* raised[k]: what C99 has raised since the (k-1)-th feholdexcept

vars == <<fsr, envs, flagp, raised>>

FSR == [aexc : SUBSET Exception, rd : Rounding, tem : SUBSET Exception]

Default == [aexc |-> {}, rd |-> 0, tem |-> {}]    \* __fe_dfl_env

Init ==
    /\ \E t \in SUBSET Exception : fsr = [Default EXCEPT !.tem = t]
    /\ envs = <<>> /\ flagp = [is |-> {}, mask |-> {}] /\ raised = <<{}>>

(* The exceptions raised, by C99, in the innermost section. *)
top == Len(raised)
Raise(set) == raised' = [raised EXCEPT ![top] = set]

(* The processor: an operation raises exceptions that do not trap. *)
Operate(e) ==
    /\ e \cap fsr.tem = {}
    /\ fsr' = [fsr EXCEPT !.aexc = @ \cup e]
    /\ Raise(raised[top] \cup e)
    /\ UNCHANGED <<envs, flagp>>

------------------------------------------------------------------------------
(* A mask with other bits is refused (returns -1). *)
feclearexcept(e) ==
    /\ fsr' = [fsr EXCEPT !.aexc = @ \ e]
    /\ Raise(raised[top] \ e)
    /\ UNCHANGED <<envs, flagp>>

feraiseexcept(e) ==
    /\ fsr' = [fsr EXCEPT !.aexc = @ \cup e]
    /\ Raise(raised[top] \cup e)
    /\ UNCHANGED <<envs, flagp>>

fegetexceptflag(e) ==
    /\ flagp' = [is |-> fsr.aexc \cap e, mask |-> e]
    /\ UNCHANGED <<fsr, envs, raised>>

(* C99 allows the exceptions that the flags were taken with. *)
fesetexceptflag(e) ==
    /\ e \subseteq flagp.mask
    /\ fsr' = [fsr EXCEPT !.aexc = (@ \ e) \cup (flagp.is \cap e)]
    /\ Raise((raised[top] \ e) \cup (flagp.is \cap e))
    /\ UNCHANGED <<envs, flagp>>

(* A direction that is not one of the four is refused. *)
fesetround(r) ==
    /\ fsr' = [fsr EXCEPT !.rd = r]
    /\ UNCHANGED <<envs, flagp, raised>>

(* fesetenv(FE_DFL_ENV). *)
fesetenv ==
    /\ fsr' = Default /\ Raise({})
    /\ UNCHANGED <<envs, flagp>>

feholdexcept ==
    /\ Len(envs) < MaxNest
    /\ envs' = Append(envs, fsr)
    /\ fsr' = [fsr EXCEPT !.aexc = {}, !.tem = {}]
    /\ raised' = Append(raised, {})
    /\ UNCHANGED flagp

(* raised[k] of two sections that become one. *)
Ends == raised' = [SubSeq(raised, 1, top - 1) EXCEPT ![top - 1] = @ \cup raised[top]]

FeupdateenvReplacing ==
    /\ envs # <<>>
    /\ fsr' = envs[Len(envs)] /\ Ends
    /\ envs' = SubSeq(envs, 1, Len(envs) - 1)
    /\ UNCHANGED flagp

(* fesetenv, then feraiseexcept of what is in the register. *)
feupdateenv ==
    /\ envs # <<>>
    /\ fsr' = [envs[Len(envs)] EXCEPT !.aexc = @ \cup fsr.aexc] /\ Ends
    /\ envs' = SubSeq(envs, 1, Len(envs) - 1)
    /\ UNCHANGED flagp

Next ==
    \/ \E e \in SUBSET Exception :
          \/ Operate(e) \/ feclearexcept(e) \/ feraiseexcept(e)
          \/ fegetexceptflag(e) \/ fesetexceptflag(e)
    \/ (\E r \in Rounding : fesetround(r))
    \/ fesetenv \/ feholdexcept \/ feupdateenv

Spec == Init /\ [][Next]_vars

------------------------------------------------------------------------------
(* The types of the register and of the sections. *)
TypeOK ==
    /\ fsr \in FSR /\ envs \in Seq(FSR)
    /\ raised \in Seq(SUBSET Exception) /\ Len(raised) = Len(envs) + 1
    /\ flagp.is \subseteq flagp.mask /\ flagp.mask \subseteq Exception

(* What fetestexcept reads (fenv.c:100) is what C99 has raised since the   *)
(* innermost feholdexcept, nested sections that have ended (fenv.c:183)    *)
(* among it; outside of all, since the start.                              *)
FlagsExact == fsr.aexc = raised[top] /\ \A k \in DOMAIN envs : envs[k].aexc = raised[k]

(* fenv.c:169 - no operation traps between feholdexcept and feupdateenv.   *)
HeldWithoutTraps == envs # <<>> => fsr.tem = {}

(* fenv.c:181 - feupdateenv gives back the rounding direction and the      *)
(* traps of the feholdexcept it belongs to, whatever was done in between.  *)
Restores ==
    [][envs' # envs /\ Len(envs') < Len(envs) =>
          /\ fsr'.rd = envs[Len(envs)].rd /\ fsr'.tem = envs[Len(envs)].tem
          /\ fsr'.aexc = envs[Len(envs)].aexc \cup fsr.aexc]_vars
==============================================================================
