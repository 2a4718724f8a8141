-------------------------------- MODULE Utf16 --------------------------------
(***************************************************************************)
(* mbrtoc16 and c16rtomb of src/wchar.c: a text converted to UTF-16 unit   *)
(* by unit and back, each with a surrogate kept in its mbstate_t between   *)
(* calls.  libc's mbrtowc and wcrtomb, and the bytes of a character, are   *)
(* left out: a text is a sequence of wide characters.                      *)
(***************************************************************************)
EXTENDS Integers, Sequences, FiniteSets, FiniteSetsExt

CONSTANTS
    Wide,         \* the characters of a text
    Stray,        \* units that c16rtomb may be given though no text has them
    MaxText       \* how many

High == 55296..56319     \* D800..DBFF
Low == 56320..57343      \* DC00..DFFF

Utf16Assumption ==
    /\ \A wc \in Wide : wc \in 0..1114111 /\ wc \notin High \cup Low
    /\ \A u \in Stray : u \in 0..65535
    /\ MaxText \in Nat

VARIABLES
    text,       \* what is converted, <<>> when units are given directly
    done,       \* how much of it mbrtoc16 has read
    pending,    \* the low surrogate in its state, 0 for none
    units,      \* the units it has returned, or that are given
    taken,      \* how many of them c16rtomb has taken
    high,       \* the high surrogate in its state, 0 for none
    back        \* what it has converted: [wc, from], from the indices of the units

vars == <<text, done, pending, units, taken, high, back>>

Texts(S) == UNION {[1..n -> S] : n \in 0..MaxText}

Init ==
    /\ \/ text \in Texts(Wide) /\ units = <<>>
       \/ text = <<>> /\ units \in Texts(Stray)
    /\ done = 0 /\ pending = 0 /\ taken = 0 /\ high = 0 /\ back = <<>>

------------------------------------------------------------------------------
HighOf(wc) == 55296 + ((wc - 65536) \div 1024)
LowOf(wc) == 56320 + ((wc - 65536) % 1024)

Emit(u) == units' = Append(units, u)

(* The call returns (size_t)-3. *)
mbrtoc16_pending ==
    /\ pending # 0
    /\ Emit(pending) /\ pending' = 0
    /\ UNCHANGED <<text, done, taken, high, back>>

mbrtoc16_forgetful ==
    /\ done < Len(text)
    /\ LET wc == text[done + 1] IN
       IF wc <= 65535 THEN Emit(wc) /\ UNCHANGED pending
       ELSE Emit(HighOf(wc)) /\ pending' = LowOf(wc)
    /\ done' = done + 1
    /\ UNCHANGED <<text, taken, high, back>>

(* The next character: a unit, or a high surrogate, the low one kept. *)
mbrtoc16 ==
    /\ pending = 0 /\ done < Len(text)
    /\ LET wc == text[done + 1] IN
       IF wc <= 65535 THEN Emit(wc) /\ UNCHANGED pending
       ELSE Emit(HighOf(wc)) /\ pending' = LowOf(wc)
    /\ done' = done + 1
    /\ UNCHANGED <<text, taken, high, back>>

(* wcrtomb of a character made of the units of these indices. *)
Wcrtomb(wc, from) == back' = Append(back, [wc |-> wc, from |-> from])

LatestHigh == Max({i \in 1..taken : units[i] \in High})

(* A low surrogate without a high one is an encoding error. *)
c16rtomb ==
    /\ taken < Len(units) /\ taken' = taken + 1
    /\ LET c16 == units[taken + 1] IN
       \/ c16 \in High /\ high' = c16 /\ UNCHANGED back
       \/ /\ c16 \in Low /\ high' = 0
          /\ IF high \in High
             THEN Wcrtomb(65536 + (high - 55296) * 1024 + (c16 - 56320), {LatestHigh, taken + 1})
             ELSE UNCHANGED back
       \/ c16 \notin High \cup Low /\ Wcrtomb(c16, {taken + 1}) /\ UNCHANGED high
    /\ UNCHANGED <<text, done, pending, units>>

Next ==
    \/ mbrtoc16_pending \/ mbrtoc16 \/ c16rtomb
    \/ done = Len(text) /\ pending = 0 /\ taken = Len(units) /\ UNCHANGED vars

Spec == Init /\ [][Next]_vars

------------------------------------------------------------------------------
Chars == [i \in DOMAIN back |-> back[i].wc]

(* wchar.c:188, 220, 251 - whatever the text, what c16rtomb has made of    *)
(* mbrtoc16's units is its beginning, and all of it at the end: no unit is *)
(* lost between two calls, and each has 16 bits.                           *)
RoundTrip ==
    text # <<>> =>
        /\ Len(back) <= done /\ Chars = SubSeq(text, 1, Len(back))
        /\ taken = Len(units) /\ pending = 0 /\ high = 0 => Len(back) = done
        /\ \A i \in DOMAIN units : units[i] \in 0..65535

(* wchar.c:256, 264 - of units in any order, no surrogate is used twice, a *)
(* low one is joined to the last high one before it, and one without is    *)
(* dropped.  A character in between does not part the two.                 *)
PairsUp ==
    \A i, k \in DOMAIN back :
        /\ i < k => back[i].from \cap back[k].from = {}
        /\ Cardinality(back[i].from) = 2 =>
              LET h == Min(back[i].from)
                  l == Max(back[i].from)
              IN  units[h] \in High /\ units[l] \in Low
                    /\ \A m \in (h + 1)..(l - 1) : units[m] \notin High \cup Low
==============================================================================
