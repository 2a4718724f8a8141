------------------------------- MODULE Getopt -------------------------------
(***************************************************************************)
(* src/getopt_long.c: getopt, getopt_long and getopt_long_only, which go   *)
(* through argv with a cursor that survives from call to call: optind, and *)
(* short_next inside a cluster such as -abc.  The caller calls one of them *)
(* until it returns -1.                                                    *)
(*                                                                         *)
(* argv[0] is left out; an element of argv is a sequence of characters.    *)
(***************************************************************************)
EXTENDS Integers, Sequences, SequencesExt, FiniteSets

CONSTANTS
    Args,         \* the elements argv may have
    MaxArgs,      \* how many
    Short,        \* optstring: [letter -> "no" | "required" | "optional"]
    Longopts,     \* longopts: a sequence of [name, has_arg]
    Modes,        \* the first characters optstring may have, or "none"
    Callers       \* which of the three functions a caller may use

ASSUME GetoptAssumption ==
    /\ MaxArgs \in Nat
    /\ \A c \in DOMAIN Short : Short[c] \in {"no", "required", "optional"}
    /\ Modes \subseteq {"none", "+", "-", ":"}
    /\ Callers \subseteq {"getopt", "getopt_long", "getopt_long_only"}

VARIABLES
    argv, prefix, fn,     \* what the caller passes
    optind, short_next,
    last,                 \* what the last call returned, with optarg or optopt
    out                   \* what all of them have returned

vars == <<argv, prefix, fn, optind, short_next, last, out>>

NoArg == <<"NULL">>

(* What a call returns: an option with its optarg, an operand ("-" mode),  *)
(* a long option, '?' with optopt, ':' and -1.                             *)
Opt(c, arg)   == [ret |-> "opt", opt |-> <<c>>, arg |-> arg]
Operand(arg)  == [ret |-> "operand", opt |-> <<>>, arg |-> arg]
Long(i, arg)  == [ret |-> "long", opt |-> Longopts[i].name, arg |-> arg]
Unknown(c)    == [ret |-> "?", opt |-> <<c>>, arg |-> NoArg]
Missing(c)    == [ret |-> IF prefix = ":" THEN ":" ELSE "?", opt |-> <<c>>, arg |-> NoArg]
UnknownLong   == [ret |-> "?", opt |-> <<>>, arg |-> NoArg]
MissingLong   == [ret |-> IF prefix = ":" THEN ":" ELSE "?", opt |-> <<>>, arg |-> NoArg]
End           == [ret |-> "-1", opt |-> <<>>, arg |-> NoArg]

Start         == [ret |-> "none", opt |-> <<>>, arg |-> NoArg]

Result(r, ind, next) == [last |-> r, optind |-> ind, short_next |-> next]

argc == Len(argv) + 1

(* arg[i], and '\0' after the last character. *)
At(arg, i) == IF i < Len(arg) THEN arg[i + 1] ELSE "NUL"

From(arg, i) == SubSeq(arg, i + 1, Len(arg))

------------------------------------------------------------------------------
(* A cluster goes on behind its character i, or the next element does. *)
Advance(r, ind, i) ==
    IF At(argv[ind], i + 1) = "NUL" THEN Result(r, ind + 1, 0) ELSE Result(r, ind, i + 1)

ShortOptionInline(ind, i) ==
    LET c == At(argv[ind], i)
        rest == From(argv[ind], i + 1) IN
    IF c \notin DOMAIN Short THEN Advance(Unknown(c), ind, i)
    ELSE IF Short[c] = "no" THEN Advance(Opt(c, NoArg), ind, i)
    ELSE IF ind + 1 >= argc THEN Result(Missing(c), ind + 1, 0)
    ELSE Result(Opt(c, argv[ind + 1]), ind + 2, 0)

(* The option at character i of argv[ind]. *)
ShortOption(ind, i) ==
    LET c == At(argv[ind], i)
        rest == From(argv[ind], i + 1) IN
    IF c \notin DOMAIN Short THEN Advance(Unknown(c), ind, i)
    ELSE IF Short[c] = "no" THEN Advance(Opt(c, NoArg), ind, i)
    ELSE IF rest # <<>> THEN Result(Opt(c, rest), ind + 1, 0)
    ELSE IF Short[c] = "optional" THEN Result(Opt(c, NoArg), ind + 1, 0)
    ELSE IF ind + 1 >= argc THEN Result(Missing(c), ind + 1, 0)
    ELSE Result(Opt(c, argv[ind + 1]), ind + 2, 0)

IsOption(arg) == At(arg, 0) = "-" /\ At(arg, 1) # "NUL"

DashDash == <<"-", "-">>

(* getopt at the beginning of an element. *)
FreshElement(ind) ==
    IF ind >= argc THEN Result(End, ind, 0)
    ELSE IF ~IsOption(argv[ind])
         THEN IF prefix = "-" THEN Result(Operand(argv[ind]), ind + 1, 0) ELSE Result(End, ind, 0)
    ELSE IF argv[ind] = DashDash THEN Result(End, ind + 1, 0)
    ELSE ShortOption(ind, 1)

getopt(ind, next) ==
    IF next = 0 THEN FreshElement(ind)
    ELSE IF ind >= argc THEN Result(End, ind, 0)
    ELSE IF At(argv[ind], next) = "NUL" THEN FreshElement(ind + 1)
    ELSE ShortOption(ind, next)

------------------------------------------------------------------------------
Eq(name) == SelectInSeq(name, LAMBDA c : c = "=")

(* The name in front of an '=', and the value behind it. *)
NameOf(name) == IF Eq(name) = 0 THEN name ELSE SubSeq(name, 1, Eq(name) - 1)

ValueOf(name) == IF Eq(name) = 0 THEN NoArg ELSE SubSeq(name, Eq(name) + 1, Len(name))

Matches(name) == {i \in DOMAIN Longopts : IsPrefix(name, Longopts[i].name)}

Exact(name) == {i \in DOMAIN Longopts : Longopts[i].name = name}

(* A step of the loop over longopts: an exact match ends it, the first     *)
(* other match is kept, and a second one noted.                            *)
ScanStepKeepingAmbiguous(acc, i, name) ==
    IF acc.exact \/ i \notin Matches(name) THEN acc
    ELSE IF i \in Exact(name) THEN [acc EXCEPT !.match = i, !.exact = TRUE]
    ELSE IF acc.match # 0 THEN [acc EXCEPT !.ambiguous = TRUE]
    ELSE [acc EXCEPT !.match = i]

ScanStep(acc, i, name) ==
    IF acc.exact \/ i \notin Matches(name) THEN acc
    ELSE IF i \in Exact(name) THEN [match |-> i, ambiguous |-> FALSE, exact |-> TRUE]
    ELSE IF acc.match # 0 THEN [acc EXCEPT !.ambiguous = TRUE]
    ELSE [acc EXCEPT !.match = i]

Scan(name) ==
    LET upto[n \in 0..Len(Longopts)] ==
            IF n = 0 THEN [match |-> 0, ambiguous |-> FALSE, exact |-> FALSE]
            ELSE LET acc == upto[n - 1] IN ScanStep(acc, n, name) IN
    upto[Len(Longopts)]

(* What is done once the option is known. *)
LongOption(ind, m, value) ==
    LET has == Longopts[m].has_arg IN
    IF has = "no" /\ value # NoArg THEN Result(UnknownLong, ind + 1, 0)
    ELSE IF has = "required" /\ value = NoArg
         THEN IF ind + 1 >= argc THEN Result(MissingLong, ind + 1, 0)
              ELSE Result(Long(m, argv[ind + 1]), ind + 2, 0)
    ELSE Result(Long(m, value), ind + 1, 0)

IsLong(arg) == At(arg, 0) = "-" /\ At(arg, 1) = "-" /\ At(arg, 2) # "NUL"

getopt_long(ind, next) ==
    IF ind >= argc THEN Result(End, ind, next)
    ELSE IF next > 0 THEN getopt(ind, next)
    ELSE IF argv[ind] = DashDash THEN Result(End, ind + 1, 0)
    ELSE IF IsLong(argv[ind])
         THEN LET name == From(argv[ind], 2)
                  found == Scan(NameOf(name)) IN
              IF found.ambiguous \/ found.match = 0 THEN Result(UnknownLong, ind + 1, 0)
              ELSE LongOption(ind, found.match, ValueOf(name))
    ELSE getopt(ind, 0)

(* getopt_long_only takes -foo for a long option if there is one foo. *)
getopt_long_only(ind, next) ==
    IF ind >= argc THEN Result(End, ind, next)
    ELSE IF next > 0 THEN getopt(ind, next)
    ELSE IF argv[ind] = DashDash THEN Result(End, ind + 1, 0)
    ELSE IF At(argv[ind], 0) = "-" /\ At(argv[ind], 1) = "-" THEN getopt_long(ind, next)
    ELSE IF IsOption(argv[ind]) /\ At(argv[ind], 2) # "NUL"
         THEN LET name == From(argv[ind], 1)
                  found == Scan(NameOf(name)) IN
              IF found.exact THEN LongOption(ind, found.match, ValueOf(name))
              ELSE getopt(ind, 0)
    ELSE getopt(ind, 0)

Init ==
    /\ argv \in UNION {[1..n -> Args] : n \in 0..MaxArgs}
    /\ prefix \in Modes /\ fn \in Callers
    /\ optind = 1 /\ short_next = 0
    /\ last = Start
    /\ out = <<>>

Call(result) ==
    /\ last.ret # "-1"
    /\ \E r \in {result} :
           /\ last' = r.last /\ optind' = r.optind /\ short_next' = r.short_next
           /\ out' = Append(out, r.last)
    /\ UNCHANGED <<argv, prefix, fn>>

(* The loop of the caller is over, or it has left it between two elements, *)
(* and it goes through argv once more: optind is all it can reset,         *)
(* short_next is static.                                                   *)
Again ==
    /\ last.ret = "-1" \/ (short_next = 0 /\ out # <<>>)
    /\ optind' = 1
    /\ fn' \in Callers
    /\ last' = Start /\ out' = <<>>
    /\ UNCHANGED <<argv, prefix, short_next>>

Next ==
    \/ fn = "getopt" /\ Call(getopt(optind, short_next))
    \/ fn = "getopt_long" /\ Call(getopt_long(optind, short_next))
    \/ fn = "getopt_long_only" /\ Call(getopt_long_only(optind, short_next))
    \/ Again

Spec == Init /\ [][Next]_vars

------------------------------------------------------------------------------
(* What a command line means, without a cursor: what is returned for args, *)
(* and how many of them are left when -1 is.                               *)
RECURSIVE Meaning(_), Cluster(_, _)

Meaning(args) ==
    IF args = <<>> THEN <<>>
    ELSE LET a == Head(args)
             rest == Tail(args)
             body == From(a, IF IsLong(a) THEN 2 ELSE 1)
             name == NameOf(body)
             exact == Exact(name)
             hits == IF exact # {} THEN {CHOOSE i \in exact : \A j \in exact : i <= j} ELSE Matches(name)
             long == \/ fn # "getopt" /\ IsLong(a)
                     \/ fn = "getopt_long_only" /\ IsOption(a) /\ At(a, 1) # "-" /\ Len(a) > 2 /\ exact # {}
             m == CHOOSE i \in hits : TRUE IN
         IF ~IsOption(a) THEN IF prefix = "-" THEN <<Operand(a)>> \o Meaning(rest) ELSE <<>>
         ELSE IF a = DashDash THEN <<>>
         ELSE IF ~long THEN Cluster(Tail(a), rest)
         ELSE IF Cardinality(hits) # 1 THEN <<UnknownLong>> \o Meaning(rest)
         ELSE CASE Eq(body) # 0 /\ Longopts[m].has_arg = "no" -> <<UnknownLong>> \o Meaning(rest)
                [] Eq(body) = 0 /\ Longopts[m].has_arg = "required" ->
                       IF rest = <<>> THEN <<MissingLong>>
                       ELSE <<Long(m, Head(rest))>> \o Meaning(Tail(rest))
                [] OTHER -> <<Long(m, ValueOf(body))>> \o Meaning(rest)

Cluster(cs, rest) ==
    IF cs = <<>> THEN Meaning(rest)
    ELSE LET c == Head(cs) IN
         IF c \notin DOMAIN Short THEN <<Unknown(c)>> \o Cluster(Tail(cs), rest)
         ELSE CASE Short[c] = "no" -> <<Opt(c, NoArg)>> \o Cluster(Tail(cs), rest)
                [] Short[c] # "no" /\ Tail(cs) # <<>> -> <<Opt(c, Tail(cs))>> \o Meaning(rest)
                [] Short[c] = "optional" /\ Tail(cs) = <<>> -> <<Opt(c, NoArg)>> \o Meaning(rest)
                [] OTHER -> IF rest = <<>> THEN <<Missing(c)>>
                            ELSE <<Opt(c, Head(rest))>> \o Meaning(Tail(rest))

------------------------------------------------------------------------------
(* getopt_long.c:113, 156 - between calls optind is inside argv or just    *)
(* behind it, and short_next is 0 or names a character of argv[optind]:    *)
(* the next call reads no further.                                         *)
CursorInside ==
    /\ optind \in 1..argc
    /\ short_next > 0 => optind < argc /\ At(argv[optind], short_next) # "NUL"

(* getopt_long.c:25-30, 101-112 - what the calls return, one after the     *)
(* other, is what the command line means: every letter of a cluster once,  *)
(* arguments inline or from the next element, exact names before           *)
(* abbreviations, and nothing behind the first operand or "--".  It is so  *)
(* the second time too: no cursor is left over from the first.  After -1,  *)
(* argv[optind] is the first element that is neither an option nor the     *)
(* argument of one.                                                        *)
MeansWhatItSays ==
    IF last.ret # "-1" THEN IsPrefix(out, Meaning(argv))
    ELSE /\ Front(out) = Meaning(argv)
         /\ optind < argc => \/ optind > 1 /\ argv[optind - 1] = DashDash
                             \/ ~IsOption(argv[optind])
==============================================================================
