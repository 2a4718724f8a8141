------------------------------- MODULE Locale -------------------------------
(***************************************************************************)
(* The locale objects of src/stubs.c: newlocale, uselocale, freelocale and *)
(* duplocale, which keep a name in the heap and set the locale of the      *)
(* whole process.  The caller switches to a locale of its own for a while  *)
(* and back, as often and as deeply nested as it likes: the pattern the    *)
(* source says these functions are for.                                    *)
(***************************************************************************)
EXTENDS Naturals, Sequences

CONSTANTS
    Name, C,       \* the names of locales, and "C"
    Known,         \* the names that setlocale accepts on this system
    Obj,           \* the blocks of the heap a locale_t may be
    NULL,          \* no locale_t; what a block holds when it is free
    GLOBAL,        \* LC_GLOBAL_LOCALE
    MaxDepth       \* how deeply the caller nests

LocaleAssumption ==
    /\ Known \subseteq Name /\ C \in Known /\ NULL \notin Name /\ NULL \notin Obj /\ GLOBAL \notin Obj
    /\ NULL # GLOBAL /\ MaxDepth \in Nat

VARIABLES
    heap,      \* heap[o]: the name behind o
    current,   \* uselocale's static variable
    process,   \* what setlocale has set
    scopes,    \* the caller's nested switches, innermost last
    bad,       \* whether the name of a freed locale_t has been read
    undone     \* whether LC_GLOBAL_LOCALE has been given back to uselocale

vars == <<heap, current, process, scopes, bad, undone>>

(* A switch: the object made for it, how far it is ("made", "used",        *)
(* "over"), what uselocale returned, the locale of the process before it.  *)
Scope == [mine : Obj, at : {"made", "used", "over"}, old : Obj \cup {NULL, GLOBAL}, was : Known]

Init ==
    /\ heap = [o \in Obj |-> NULL] /\ current = NULL
    /\ process \in Known
    /\ scopes = <<>> /\ bad = FALSE /\ undone = FALSE

Top == scopes[Len(scopes)]

InScope(state) == scopes # <<>> /\ Top.at = state

------------------------------------------------------------------------------
(* newlocale(mask, n, NULL).  Without memory it does nothing. *)
newlocale(o, n) ==
    /\ ~InScope("made") /\ ~InScope("over")
    /\ Len(scopes) < MaxDepth /\ heap[o] = NULL
    /\ heap' = [heap EXCEPT ![o] = n]
    /\ scopes' = Append(scopes, [mine |-> o, at |-> "made", old |-> NULL, was |-> process])
    /\ UNCHANGED <<current, process, bad, undone>>

(* newlocale(mask, n, base) frees base first, and fails after that when    *)
(* there is no memory: the caller has nothing then.                        *)
newlocale_base(o, n) ==
    LET freed == [heap EXCEPT ![Top.mine] = NULL] IN
    /\ InScope("made") /\ freed[o] = NULL
    /\ heap' = [freed EXCEPT ![o] = n]
    /\ scopes' = [scopes EXCEPT ![Len(scopes)].mine = o]
    /\ UNCHANGED <<current, process, bad, undone>>

newlocale_base_keeps_null ==
    /\ InScope("made")
    /\ heap' = [heap EXCEPT ![Top.mine] = NULL]
    /\ scopes' = [scopes EXCEPT ![Len(scopes)].mine = NULL]
    /\ UNCHANGED <<current, process, bad, undone>>

newlocale_base_fails ==
    /\ InScope("made")
    /\ heap' = [heap EXCEPT ![Top.mine] = NULL]
    /\ scopes' = SubSeq(scopes, 1, Len(scopes) - 1)
    /\ UNCHANGED <<current, process, bad, undone>>

(* duplocale of the locale in use, to switch to the same again. *)
duplocale(o) ==
    LET l == IF current = NULL THEN GLOBAL ELSE current IN
    /\ bad' = (bad \/ (l # GLOBAL /\ heap[l] = NULL))
    /\ ~InScope("made") /\ ~InScope("over")
    /\ Len(scopes) < MaxDepth /\ heap[o] = NULL
    /\ \E n \in Name :
          /\ l # GLOBAL /\ heap[l] # NULL => n = heap[l]
          /\ l = GLOBAL => n = C
          /\ heap' = [heap EXCEPT ![o] = n]
          /\ scopes' = Append(scopes, [mine |-> o, at |-> "made", old |-> NULL, was |-> process])
    /\ UNCHANGED <<current, process, undone>>

(* What uselocale(l) does: nothing for LC_GLOBAL_LOCALE.  It does not look *)
(* at what setlocale returns: current is l even if the system knows no     *)
(* locale of that name and the process keeps the one it has.               *)
Use(l) ==
    \/ l = GLOBAL /\ UNCHANGED <<current, process, bad>>
    \/ /\ l # GLOBAL
       /\ current' = l
       /\ bad' = (bad \/ heap[l] = NULL)
       /\ \E n \in Name :
             /\ heap[l] # NULL => n = heap[l]
             /\ process' = IF n \in Known THEN n ELSE process

(* old = uselocale(mine) *)
uselocale_returning_new ==
    /\ InScope("made")
    /\ Use(Top.mine) /\ UNCHANGED undone
    /\ scopes' = [scopes EXCEPT ![Len(scopes)].at = "used", ![Len(scopes)].old = Top.mine]
    /\ UNCHANGED heap

uselocale ==
    /\ InScope("made")
    /\ Use(Top.mine) /\ UNCHANGED undone
    /\ scopes' = [scopes EXCEPT ![Len(scopes)].at = "used",
                                ![Len(scopes)].old = IF current = NULL THEN GLOBAL ELSE current]
    /\ UNCHANGED heap

(* uselocale(old) *)
uselocale_back ==
    /\ InScope("used")
    /\ Use(Top.old) /\ undone' = (undone \/ Top.old = GLOBAL)
    /\ scopes' = [scopes EXCEPT ![Len(scopes)].at = "over"]
    /\ UNCHANGED heap

freelocale ==
    /\ InScope("made") \/ InScope("over")
    /\ heap' = [heap EXCEPT ![Top.mine] = NULL]
    /\ scopes' = SubSeq(scopes, 1, Len(scopes) - 1)
    /\ UNCHANGED <<current, process, bad, undone>>

Next ==
    \/ \E o \in Obj : duplocale(o) \/ \E n \in Name : newlocale(o, n) \/ newlocale_base(o, n)
    \/ newlocale_base_fails \/ uselocale \/ uselocale_back \/ freelocale

Spec == Init /\ [][Next]_vars

------------------------------------------------------------------------------
(* Types. *)
TypeOK ==
    /\ heap \in [Obj -> Name \cup {NULL}]
    /\ current \in Obj \cup {NULL} /\ process \in Known
    /\ bad \in BOOLEAN /\ undone \in BOOLEAN
    /\ scopes \in Seq(Scope) /\ Len(scopes) <= MaxDepth

(* stubs.c:44, 108 - for a program that never gives LC_GLOBAL_LOCALE back, *)
(* that is whose outermost switch is for good: when the caller has         *)
(* switched back to a locale that the system knows, the process has the    *)
(* locale it had before; no name of a locale_t that was freed is read; and *)
(* the one that uselocale remembers and hands out is alive, and is the one *)
(* the process has if the system knows it.                                 *)
SwitchedBack ==
    ~undone =>
        /\ InScope("over") /\ heap[Top.old] \in Known => process = Top.was
        /\ ~bad
        /\ current # NULL => heap[current] # NULL
        /\ current # NULL /\ heap[current] \in Known => heap[current] = process

(* stubs.c:44 - "sufficient for software that uses newlocale/uselocale for *)
(* 'set to C locale temporarily' patterns": when the caller has switched   *)
(* to a locale and back, the process has the locale it had before.         *)
TemporarySwitch == InScope("over") => process = Top.was
==============================================================================
