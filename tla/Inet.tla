--------------------------------- MODULE Inet --------------------------------
(***************************************************************************)
(* inet_ntop and inet_pton of src/network.c for AF_INET6.  A text is a     *)
(* sequence of numbers, written in hexadecimal and separated by something, *)
(* and other characters; one that inet_ntop has made is parsed again, and  *)
(* so is any other.  A number is what strtoul reads at once: one to four   *)
(* digits, or more than four, or digits behind a "0x".                     *)
(***************************************************************************)
EXTENDS Integers, Sequences, SequencesExt

CONSTANTS
    Groups,       \* how many groups an address has (8)
    Word,         \* the values of a group
    Sizes,        \* the sizes of the buffers given to inet_ntop
    Texts         \* what inet_pton is given besides

COLON == [char |-> ":"]
TextEnd == [char |-> "NUL"]
Number(v) == [value |-> v, written |-> "digits"]
Other == [char |-> "g"]

IsNumber(tok) == "value" \in DOMAIN tok

InetAssumption ==
    /\ Groups \in Nat \ {0} /\ 0 \in Word /\ Word \subseteq Nat
    /\ \A s \in Texts : \A i \in 1..(Len(s) - 1) : ~(IsNumber(s[i]) /\ IsNumber(s[i + 1]))

VARIABLES
    words,      \* the address given to inet_ntop; <<>> if the text came from elsewhere
    text,       \* what inet_pton parses, <<>> before
    pc,
    p,          \* how much of it is behind *p
    groups,     \* the numbers it has read
    dcolon,     \* where among them the "::" was, or -1
    dst         \* what it has stored; <<>> for nothing

vars == <<words, text, pc, p, groups, dcolon, dst>>

Init ==
    /\ \/ words \in [1..Groups -> Word] /\ text = <<>> /\ pc = "ntop"
       \/ words = <<>> /\ text \in Texts /\ pc = "leading"
    /\ p = 0 /\ groups = <<>> /\ dcolon = -1 /\ dst = <<>>

------------------------------------------------------------------------------
(* The search for a run of zeroes: the best and the current one.           *)
NoRun == [best_start |-> -1, best_len |-> 0, cur_start |-> -1, cur_len |-> 0]

BetterOrEqual(r) ==
    IF r.cur_len >= r.best_len /\ r.cur_len >= 2
    THEN [r EXCEPT !.best_start = r.cur_start, !.best_len = r.cur_len] ELSE r

Better(r) ==
    IF r.cur_len > r.best_len /\ r.cur_len >= 2
    THEN [r EXCEPT !.best_start = r.cur_start, !.best_len = r.cur_len] ELSE r

Longest(w) ==
    LET scan[i \in 0..Groups] ==
            IF i = 0 THEN NoRun
            ELSE LET r == scan[i - 1] IN
                 IF w[i] = 0
                 THEN [r EXCEPT !.cur_start = IF @ < 0 THEN i - 1 ELSE @, !.cur_len = @ + 1]
                 ELSE [Better(r) EXCEPT !.cur_start = -1, !.cur_len = 0] IN
    Better(scan[Groups])

(* No ':' in front of the first word and of the one behind the "::". *)
Separator(i, run) ==
    IF i > 0 /\ ~(i = run.best_start + run.best_len /\ run.best_start >= 0)
    THEN <<COLON>> ELSE <<>>

Format(w) ==
    LET run == Longest(w)
        from[i \in 0..Groups] ==
            IF i = Groups THEN <<>>
            ELSE IF i = run.best_start THEN <<COLON, COLON>> \o from[i + run.best_len]
            ELSE Separator(i, run) \o <<Number(w[i + 1])>> \o from[i + 1] IN
    from[0]

(* The text and its NUL go into the buffer, or it is ENOSPC. *)
inet_ntop(size) ==
    /\ pc = "ntop"
    /\ IF Len(Format(words)) + 1 > size THEN pc' = "ENOSPC" /\ UNCHANGED text
       ELSE pc' = "leading" /\ text' = Format(words)
    /\ UNCHANGED <<words, p, groups, dcolon, dst>>

------------------------------------------------------------------------------
At(i) == IF i < Len(text) THEN text[i + 1] ELSE TextEnd

Verdict(v) == pc' = v /\ UNCHANGED <<words, text, p, groups, dcolon, dst>>

(* inet_pton: a leading "::", which may be all there is. *)
Leading ==
    /\ pc = "leading"
    /\ IF At(0) = COLON /\ At(1) = COLON
       THEN /\ dcolon' = 0 /\ p' = 2
            /\ IF At(2) = TextEnd THEN pc' = "yes" /\ dst' = [i \in 1..Groups |-> 0]
               ELSE pc' = "group" /\ UNCHANGED dst
       ELSE pc' = "group" /\ UNCHANGED <<p, dcolon, dst>>
    /\ UNCHANGED <<words, text, groups>>

InLoop == pc = "group" /\ At(p) # TextEnd /\ Len(groups) < Groups

(* A number, however it is written, and what separates it from the next. *)
Group ==
    /\ InLoop /\ IsNumber(At(p)) /\ At(p).value \in Word
    /\ groups' = Append(groups, At(p).value)
    /\ \/ /\ At(p + 1) = COLON /\ At(p + 2) = COLON /\ dcolon < 0
          /\ dcolon' = Len(groups) + 1
          /\ p' = p + 3
       \/ /\ At(p + 1) = COLON /\ At(p + 2) # COLON
          /\ p' = p + 2 /\ UNCHANGED dcolon
       \/ /\ At(p + 1) = TextEnd
          /\ p' = p + 1 /\ UNCHANGED dcolon
    /\ UNCHANGED <<words, text, pc, dst>>

(* No number, one above 0xFFFF, a second "::", or a strange character. *)
Refuse ==
    /\ InLoop
    /\ \/ IsNumber(At(p)) => At(p).value \notin Word
       \/ At(p + 1) = COLON /\ At(p + 2) = COLON /\ dcolon >= 0
       \/ At(p + 1) # COLON /\ At(p + 1) # TextEnd
    /\ Verdict("no")

ExpandLeft(g, at) == g \o [i \in 1..(Groups - Len(g)) |-> 0]

(* The "::" is filled up with zeroes. *)
Expand(g, at) ==
    IF at < 0 THEN g
    ELSE SubSeq(g, 1, at) \o [i \in 1..(Groups - Len(g)) |-> 0] \o SubSeq(g, at + 1, Len(g))

Store ==
    /\ pc = "group" /\ ~InLoop
    /\ IF At(p) # TextEnd \/ Len(Expand(groups, dcolon)) # Groups THEN Verdict("no")
       ELSE /\ dst' = Expand(groups, dcolon)
            /\ pc' = "yes"
            /\ UNCHANGED <<words, text, p, groups, dcolon>>

Next ==
    \/ \E size \in Sizes : inet_ntop(size)
    \/ Leading \/ Group \/ Refuse \/ Store
    \/ pc \in {"ENOSPC", "yes", "no"} /\ UNCHANGED vars

Spec == Init /\ [][Next]_vars

------------------------------------------------------------------------------
(* What a text means. *)
Join(g) == [i \in 1..(IF g = <<>> THEN 0 ELSE 2 * Len(g) - 1) |->
               IF i % 2 = 1 THEN Number(g[(i + 1) \div 2]) ELSE COLON]

Abbreviated(a, b) == Join(a) \o <<COLON, COLON>> \o Join(b)

Denotes(s, w) ==
    \/ s = Join(w)
    \/ \E i, j \in 0..Groups :
          /\ i <= j /\ \A k \in (i + 1)..j : w[k] = 0
          /\ s = Abbreviated(SubSeq(w, 1, i), SubSeq(w, j + 1, Groups))

(* A text without the ':' behind its last number. *)
Trimmed(s) ==
    IF Len(s) > 1 /\ s[Len(s)] = COLON /\ IsNumber(s[Len(s) - 1]) THEN Front(s) ELSE s

(* A text whose numbers are written in one to four digits. *)
Plain(s) == [i \in DOMAIN s |-> IF IsNumber(s[i]) THEN Number(s[i].value) ELSE s[i]]

(* network.c:375 - "first longest wins": inet_ntop writes a text that      *)
(* stands for the address, the shortest of those there are, and if two     *)
(* runs of zeroes are as long the one that leaves out the first.           *)
Canonical ==
    words # <<>> /\ text # <<>> =>
        /\ Denotes(text, words)
        /\ \A i, j \in 0..Groups :
            i + 2 <= j /\ (\A k \in (i + 1)..j : words[k] = 0) =>
                LET s == Abbreviated(SubSeq(words, 1, i), SubSeq(words, j + 1, Groups)) IN
                \/ Len(text) < Len(s)
                \/ Len(text) = Len(s) /\ SelectInSeq(text, LAMBDA x : x = COLON) <=
                                         SelectInSeq(s, LAMBDA x : x = COLON)

(* network.c:437 - inet_pton accepts "full 8-group hex notation ... and    *)
(* the :: abbreviation" and stores the address the text stands for.  It    *)
(* accepts besides what becomes such a text when a ':' behind the last     *)
(* number is left out and "0x" and the digits beyond four are, and stores  *)
(* the address that text stands for; it accepts nothing else.              *)
Understands ==
    /\ pc = "yes" => Denotes(Plain(Trimmed(text)), dst)
    /\ pc = "no" => ~(\E w \in [1..Groups -> Word] : Denotes(Plain(Trimmed(text)), w))
==============================================================================
