------------------------------- MODULE Environ -------------------------------
(***************************************************************************)
(* setenv and unsetenv of src/stdlib.c over putenv, and timegm of          *)
(* src/clock.c, which sets TZ for the time of a mktime and puts it back.   *)
(* The environment a process is started with may name a variable twice.    *)
(***************************************************************************)
EXTENDS Naturals, Sequences

CONSTANTS
    Name, TZ,       \* the names of variables, one of which is TZ
    Value, UTC,     \* their values
    NULL,           \* no value
    MaxVars         \* how many strings the environment may have

EnvironAssumption ==
    TZ \in Name /\ UTC \in Value /\ NULL \notin Value /\ MaxVars \in Nat

String == [name : Name, value : Value]

VARIABLES
    environ,    \* the strings, in order
    zone,       \* the TZ that tzset last read
    pc,         \* where the caller is in timegm
    saved_tz,
    before,     \* TZ when timegm was called
    used,       \* the zone mktime went by, NULL before it is called
    refused     \* whether a setenv of this timegm, or its strdup, has failed

vars == <<environ, zone, pc, saved_tz, before, used, refused>>

Named(n) == {i \in DOMAIN environ : environ[i].name = n}

First(n) == CHOOSE i \in Named(n) : \A j \in Named(n) : i <= j

getenv(n) == IF Named(n) = {} THEN NULL ELSE environ[First(n)].value

Init ==
    /\ environ \in UNION {[1..k -> String] : k \in 0..MaxVars}
    /\ zone = getenv(TZ)
    /\ pc = "user" /\ saved_tz = NULL /\ before = NULL /\ used = NULL
    /\ refused = FALSE

------------------------------------------------------------------------------
(* putenv replaces the first string of that name or adds one. *)
putenv(n, v) ==
    environ' = IF Named(n) # {} THEN [environ EXCEPT ![First(n)].value = v]
               ELSE Append(environ, [name |-> n, value |-> v])

setenv_appends(n, v, overwrite) ==
    \/ /\ ~overwrite /\ getenv(n) # NULL
       /\ UNCHANGED environ
    \/ /\ overwrite \/ getenv(n) = NULL
       /\ environ' = Append(environ, [name |-> n, value |-> v])

(* setenv, when there is memory for it; without, it changes nothing. *)
setenv(n, v, overwrite) ==
    \/ /\ ~overwrite /\ getenv(n) # NULL
       /\ UNCHANGED environ
    \/ /\ overwrite \/ getenv(n) = NULL
       /\ putenv(n, v)

unsetenv_first(n) ==
    environ' = IF Named(n) = {} THEN environ
               ELSE SubSeq(environ, 1, First(n) - 1) \o SubSeq(environ, First(n) + 1, Len(environ))

(* unsetenv closes up the strings that stay. *)
unsetenv(n) == environ' = SelectSeq(environ, LAMBDA s : s.name # n)

Setenv(n, v, overwrite) ==
    /\ pc = "user" /\ Len(environ) < MaxVars
    /\ setenv(n, v, overwrite)
    /\ UNCHANGED <<zone, pc, saved_tz, before, used, refused>>

Unsetenv(n) ==
    /\ pc = "user"
    /\ unsetenv(n)
    /\ UNCHANGED <<zone, pc, saved_tz, before, used, refused>>

(* localtime, mktime: libc goes by TZ as it is now. *)
tzset ==
    /\ pc = "user"
    /\ zone' = getenv(TZ)
    /\ UNCHANGED <<environ, pc, saved_tz, before, used, refused>>

------------------------------------------------------------------------------
(* timegm: TZ is saved, if there is memory for the copy, ... *)
timegm ==
    /\ pc = "user"
    /\ before' = getenv(TZ)
    /\ \/ saved_tz' = getenv(TZ) /\ refused' = FALSE
       \/ getenv(TZ) # NULL /\ saved_tz' = NULL /\ refused' = TRUE
    /\ pc' = "set"
    /\ UNCHANGED <<environ, zone, used>>

(* timegm's setenv, whose result it does not look at. *)
Try(n, v) ==
    \/ setenv(n, v, TRUE) /\ UNCHANGED refused
    \/ UNCHANGED environ /\ refused' = TRUE

(* ... set, and tzset called, ... *)
SetUtc ==
    /\ pc = "set"
    /\ Try(TZ, UTC)
    /\ zone' = getenv(TZ)'
    /\ pc' = "mktime"
    /\ UNCHANGED <<saved_tz, before, used>>

mktime ==
    /\ pc = "mktime"
    /\ used' = zone
    /\ pc' = "restore"
    /\ UNCHANGED <<environ, zone, saved_tz, before, refused>>

RestoreSavedOnly ==
    /\ pc = "restore"
    /\ IF saved_tz # NULL THEN Try(TZ, saved_tz) ELSE UNCHANGED <<environ, refused>>
    /\ zone' = getenv(TZ)'
    /\ pc' = "return"
    /\ UNCHANGED <<saved_tz, before, used>>

(* ... and put back or removed. *)
Restore ==
    /\ pc = "restore"
    /\ IF saved_tz # NULL THEN Try(TZ, saved_tz) ELSE unsetenv(TZ) /\ UNCHANGED refused
    /\ zone' = getenv(TZ)'
    /\ pc' = "return"
    /\ UNCHANGED <<saved_tz, before, used>>

Return ==
    /\ pc = "return"
    /\ pc' = "user" /\ saved_tz' = NULL /\ before' = NULL /\ used' = NULL
    /\ refused' = FALSE
    /\ UNCHANGED <<environ, zone>>

Next ==
    \/ \E n \in Name : Unsetenv(n) \/ \E v \in Value, o \in BOOLEAN : Setenv(n, v, o)
    \/ tzset
    \/ timegm \/ SetUtc \/ mktime \/ Restore \/ Return

Spec == Init /\ [][Next]_vars

------------------------------------------------------------------------------
(* Types. *)
TypeOK ==
    /\ environ \in Seq(String) /\ Len(environ) <= MaxVars + 1
    /\ zone \in Value \cup {NULL} /\ saved_tz \in Value \cup {NULL}
    /\ before \in Value \cup {NULL} /\ used \in Value \cup {NULL}
    /\ refused \in BOOLEAN
    /\ pc \in {"user", "set", "mktime", "restore", "return"}

Others(n) == SelectSeq(environ, LAMBDA s : s.name # n)

(* stdlib.c:85 - unsetenv leaves no string of that name, though there were *)
(* two, and the others in their order; setenv changes no other variable,   *)
(* and without overwrite not that one either.                              *)
EnvironSteps ==
    [][\A n \in Name :
          /\ Unsetenv(n) => getenv(n)' = NULL /\ environ' = Others(n)
          /\ \A v \in Value : Setenv(n, v, FALSE) =>
                /\ getenv(n) # NULL => getenv(n)' = getenv(n)
                /\ Others(n)' = Others(n)]_vars

(* clock.c:196, 199 - timegm "interprets struct tm as UTC": mktime goes by *)
(* UTC, and afterwards TZ is as it was found and libc reads it so, unless  *)
(* memory ran out on the way.                                              *)
UtcAndBack ==
    pc = "return" /\ ~refused => used = UTC /\ getenv(TZ) = before /\ zone = before
==============================================================================
