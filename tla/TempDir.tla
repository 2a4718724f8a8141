------------------------------- MODULE TempDir -------------------------------
(***************************************************************************)
(* mkdtemp of src/stdlib.c: processes that share a directory make up       *)
(* names until a mkdir succeeds.  Other programs create and remove         *)
(* entries there meanwhile.                                                *)
(***************************************************************************)
EXTENDS Naturals

CONSTANTS
    Process,
    Suffix,          \* the six characters that replace XXXXXX
    NONE,            \* no suffix
    MaxAttempts      \* 1000

TempDirAssumption == NONE \notin Suffix /\ MaxAttempts \in Nat \ {0}

VARIABLES
    entries,    \* the names that exist
    owner,      \* owner[s]: the processes that were given s and have it still
    pc,
    suffix,     \* the one each process has filled in
    attempt

vars == <<entries, owner, pc, suffix, attempt>>

Init ==
    /\ entries \in SUBSET Suffix
    /\ owner = [s \in Suffix |-> {}]
    /\ pc = [p \in Process |-> "user"]
    /\ suffix = [p \in Process |-> NONE]
    /\ attempt = [p \in Process |-> 0]

------------------------------------------------------------------------------
(* A template that does not end in XXXXXX is refused at once. *)
mkdtemp(p) ==
    /\ pc[p] = "user"
    /\ pc' = [pc EXCEPT ![p] = "fill"]
    /\ attempt' = [attempt EXCEPT ![p] = 0]
    /\ UNCHANGED <<entries, owner, suffix>>

(* mkdtemp_fill_suffix: entropy or the clock, the process may get any. *)
fill_suffix(p, s) ==
    /\ pc[p] = "fill"
    /\ suffix' = [suffix EXCEPT ![p] = s]
    /\ pc' = [pc EXCEPT ![p] = "mkdir"]
    /\ UNCHANGED <<entries, owner, attempt>>

Made(p) ==
    /\ entries' = entries \cup {suffix[p]}
    /\ owner' = [owner EXCEPT ![suffix[p]] = @ \cup {p}]
    /\ pc' = [pc EXCEPT ![p] = "made"]
    /\ UNCHANGED attempt

mkdir_existing_too(p) ==
    /\ pc[p] = "mkdir"
    /\ Made(p)
    /\ UNCHANGED suffix

mkdir_one_more(p) ==
    /\ pc[p] = "mkdir"
    /\ \/ suffix[p] \notin entries /\ Made(p)
       \/ /\ suffix[p] \in entries
          /\ attempt' = [attempt EXCEPT ![p] = @ + 1]
          /\ pc' = [pc EXCEPT ![p] = IF attempt[p] <= MaxAttempts THEN "fill" ELSE "EEXIST"]
          /\ UNCHANGED <<entries, owner>>
    /\ UNCHANGED suffix

(* mkdir makes the directory, finds the name taken, or fails otherwise. *)
mkdir(p) ==
    /\ pc[p] = "mkdir"
    /\ \/ suffix[p] \notin entries /\ Made(p)
       \/ /\ suffix[p] \in entries                                  \* EEXIST
          /\ attempt' = [attempt EXCEPT ![p] = @ + 1]
          /\ pc' = [pc EXCEPT ![p] = IF attempt[p] + 1 < MaxAttempts THEN "fill" ELSE "EEXIST"]
          /\ UNCHANGED <<entries, owner>>
       \/ /\ suffix[p] \notin entries
          /\ pc' = [pc EXCEPT ![p] = "error"]
          /\ UNCHANGED <<entries, owner, attempt>>
    /\ UNCHANGED suffix

Return(p) ==
    /\ pc[p] \in {"made", "EEXIST", "error"}
    /\ pc' = [pc EXCEPT ![p] = "user"]
    /\ UNCHANGED <<entries, owner, suffix, attempt>>

(* A process removes its directory; others make and remove entries. *)
rmdir(p, s) ==
    /\ pc[p] = "user" /\ p \in owner[s]
    /\ entries' = entries \ {s}
    /\ owner' = [owner EXCEPT ![s] = {}]
    /\ UNCHANGED <<pc, suffix, attempt>>

Strangers(s) ==
    /\ owner[s] = {}
    /\ entries' = IF s \in entries THEN entries \ {s} ELSE entries \cup {s}
    /\ UNCHANGED <<owner, pc, suffix, attempt>>

Steps(p) == (\E s \in Suffix : fill_suffix(p, s)) \/ mkdir(p)

Next ==
    \/ \E p \in Process :
         \/ mkdtemp(p) \/ Steps(p) \/ Return(p)
         \/ \E s \in Suffix : rmdir(p, s)
    \/ \E s \in Suffix : Strangers(s)

Spec == Init /\ [][Next]_vars

------------------------------------------------------------------------------
(* Types. *)
TypeOK ==
    /\ entries \subseteq Suffix /\ owner \in [Suffix -> SUBSET Process]
    /\ pc \in [Process -> {"user", "fill", "mkdir", "made", "EEXIST", "error"}]
    /\ suffix \in [Process -> Suffix \cup {NONE}]
    /\ attempt \in [Process -> 0..MaxAttempts]

(* stdlib.c:163 - no directory is given to two callers, however their      *)
(* attempts interleave, and what a caller has been given is there.         *)
OneOwner ==
    \A s \in Suffix : owner[s] # {} =>
        /\ s \in entries
        /\ \A p, q \in owner[s] : p = q
==============================================================================
