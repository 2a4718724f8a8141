------------------------------- MODULE Format --------------------------------
(***************************************************************************)
(* Formatted output: solcompat_vsnprintf of src/snprintf.c, which formats  *)
(* with vsprintf into a block it doubles until the text fits, and          *)
(* vasprintf and dprintf of src/stdio.c on top of it.  A text is its       *)
(* length; a buffer is what is in it.  And preprocess_fmt, which rewrites  *)
(* the length modifiers of C99, over the formats of directives.            *)
(***************************************************************************)
EXTENDS Integers, SequencesExt

CONSTANTS
    STACK_BUF_SIZE,   \* the first size of the block
    Limit,            \* the size beyond which it is not doubled
    MaxText,          \* how long a text may be
    Bad,              \* the length of a text that cannot be encoded
    Sizes,            \* the sizes of a caller's buffer
    MaxDirectives,    \* how many directives a format may have
    NULL

FormatAssumption ==
    STACK_BUF_SIZE \in Nat \ {0} /\ {Limit, MaxText, MaxDirectives} \subseteq Nat /\ 0 \in Sizes

Char == {"%", "0", "5", "*", ".", "h", "l", "z", "j", "t", "d"}

At(s, i) == IF i <= Len(s) THEN s[i] ELSE NULL
Skip[s \in Seq(Char), i \in Nat, of \in SUBSET Char] ==
    IF At(s, i) \in of THEN Skip[s, i + 1, of] ELSE i

Flag == {"0"}
Digit == {"0", "5"}
Length == {"h", "l"}

(* Digits or '*' from i on: where they end. *)
Number(s, i) == IF At(s, i) = "*" THEN i + 1 ELSE Skip[s, i, Digit]

(* The modifier at i: what is put for it, and where it ends. *)
Modifier(s, i) ==
    CASE At(s, i) \in {"z", "t"} -> [put |-> <<>>, end |-> i + 1]
      [] At(s, i) = "j" -> [put |-> <<"l", "l">>, end |-> i + 1]
      [] At(s, i) = "h" /\ At(s, i + 1) = "h" -> [put |-> <<"h">>, end |-> i + 2]
      [] OTHER -> LET end == Skip[s, i, Length] IN [put |-> SubSeq(s, i, end - 1), end |-> end]

(* The rewritten format from i on, of one that fits in fmt_buf. *)
preprocess_fmt[s \in Seq(Char), i \in Nat] ==
    LET width == Number(s, Skip[s, i + 1, Flag])
        precision == IF At(s, width) = "." THEN Number(s, width + 1) ELSE width
        m == Modifier(s, precision)
    IN  CASE i > Len(s) -> <<>>
          [] s[i] # "%" \/ i = Len(s) -> <<s[i]>> \o preprocess_fmt[s, i + 1]
          [] s[i] = "%" /\ At(s, i + 1) = "%" -> <<"%", "%">> \o preprocess_fmt[s, i + 2]
          [] OTHER -> SubSeq(s, i, precision - 1) \o m.put
                        \o (IF m.end > Len(s) THEN <<>> ELSE <<s[m.end]>>)
                        \o preprocess_fmt[s, m.end + 1]

------------------------------------------------------------------------------
(* Formats: what a directive is written as, and what it is to become. *)
Directive ==
    [head : {f \o w \o p : f \in {<<"%">>, <<"%", "0">>}, w \in {<<>>, <<"5">>, <<"*">>},
                           p \in {<<>>, <<".", "5">>, <<".", "*">>}},
     mod : {<<>>, <<"h">>, <<"h", "h">>, <<"l", "l">>, <<"z">>, <<"t">>, <<"j">>}, tail : {<<"d">>}]
      \cup [head : {<<"%", "%">>, <<"z">>, <<"h", "h">>}, mod : {<<>>}, tail : {<<>>}]

Solaris(mod) ==
    CASE mod = <<"h", "h">> -> <<"h">>
      [] mod \in {<<"z">>, <<"t">>} -> <<>>
      [] mod = <<"j">> -> <<"l", "l">>
      [] OTHER -> mod

Written(d, mod) == d.head \o mod \o d.tail

VARIABLES
    fn,         \* the function called
    format,     \* the directives of its format
    fmt,        \* the format that vsprintf is given
    need,       \* the length of the formatted text
    pc,
    pass,       \* which call of solcompat_vsnprintf by vasprintf
    work_size, str, size,
    blocks,     \* the blocks allocated: heap_buf and vasprintf's buf
    len, total, \* vasprintf's len and dprintf's total
    ret,
    starved     \* the passes in which malloc failed

vars == <<fn, format, fmt, need, pc, pass, work_size, str, size, blocks, len, total, ret, starved>>

Init ==
    /\ fn \in {"vsnprintf", "vasprintf", "dprintf"} /\ need \in 0..MaxText \cup {Bad}
    /\ IF fn = "vsnprintf" THEN size \in Sizes ELSE size = 0
    /\ \/ format = <<>>
       \/ /\ fn = "vsnprintf" /\ need = 0 /\ size = 0
          /\ \E k \in 1..MaxDirectives : format \in [1..k -> Directive]
    /\ fmt = <<>>
    /\ pc = "call" /\ pass = 1 /\ work_size = 0 /\ str = "junk"
    /\ blocks = {} /\ len = 0 /\ total = 0 /\ ret = 0 /\ starved = {}

(* The text of directives, each with its modifier as it is or as it becomes. *)
Joined(ds, Mod(_)) == FoldLeft(LAMBDA t, d : t \o Written(d, Mod(d.mod)), <<>>, ds)

solcompat_vsnprintf ==
    /\ pc = "call"
    /\ fmt' = preprocess_fmt[Joined(format, LAMBDA m : m), 1]
    /\ pc' = "malloc" /\ work_size' = STACK_BUF_SIZE
    /\ UNCHANGED <<fn, format, need, pass, str, size, blocks, len, total, ret, starved>>

malloc ==
    /\ pc = "malloc"
    /\ pc' = "vsprintf" /\ blocks' = blocks \cup {"heap_buf"}
    /\ UNCHANGED <<fn, format, fmt, need, pass, work_size, str, size, len, total, ret, starved>>

malloc_fails ==
    /\ pc = "malloc"
    /\ pc' = "return" /\ ret' = -1 /\ starved' = starved \cup {pass}
    /\ UNCHANGED <<fn, format, fmt, need, pass, work_size, str, size, blocks, len, total>>

(* vsprintf knows no bound: a text that does not fit is written behind the *)
(* block, where anything may happen.  The code counts on slack there: the  *)
(* second alternative is what it does when there is enough.                *)
vsprintf ==
    /\ pc = "vsprintf"
    /\ IF need = Bad
       THEN pc' = "return" /\ ret' = -1 /\ blocks' = blocks \ {"heap_buf"} /\ UNCHANGED work_size
       ELSE IF need < work_size THEN pc' = "copy" /\ UNCHANGED <<ret, blocks, work_size>>
       ELSE \/ pc' = "undefined" /\ UNCHANGED <<ret, blocks, work_size>>
            \/ /\ blocks' = blocks \ {"heap_buf"}
               /\ IF work_size > Limit THEN pc' = "return" /\ ret' = -1 /\ UNCHANGED work_size
                  ELSE pc' = "malloc" /\ work_size' = 2 * work_size /\ UNCHANGED ret
    /\ UNCHANGED <<fn, format, fmt, need, pass, str, size, len, total, starved>>

CopyWithoutRoom ==
    /\ pc = "copy"
    /\ str' = IF size = 0 THEN str ELSE [text |-> IF need < size THEN need ELSE size, nul |-> need < size]
    /\ pc' = "return" /\ ret' = need /\ blocks' = blocks \ {"heap_buf"}
    /\ UNCHANGED <<fn, format, fmt, need, pass, work_size, size, len, total, starved>>

(* At size 0 the buffer may be NULL. *)
copy ==
    /\ pc = "copy"
    /\ str' = IF size = 0 THEN str ELSE [text |-> IF need < size THEN need ELSE size - 1, nul |-> TRUE]
    /\ pc' = "return" /\ ret' = need /\ blocks' = blocks \ {"heap_buf"}
    /\ UNCHANGED <<fn, format, fmt, need, pass, work_size, size, len, total, starved>>

------------------------------------------------------------------------------
(* vasprintf: the length first; what the second call returns is not asked. *)
Measured ==
    /\ pc = "return" /\ fn # "vsnprintf" /\ pass = 1 /\ ret >= 0
    /\ len' = ret /\ size' = ret + 1
    /\ \/ /\ pc' = "call" /\ pass' = 2
          /\ blocks' = blocks \cup {"buf"} /\ UNCHANGED <<ret, starved>>
       \/ /\ pc' = "done" /\ ret' = -1 /\ starved' = starved \cup {pass}
          /\ UNCHANGED <<pass, blocks>>
    /\ UNCHANGED <<fn, format, fmt, need, work_size, str, total>>

Formatted ==
    /\ pc = "return" /\ fn # "vsnprintf" /\ pass = 2
    /\ pc' = (IF fn = "dprintf" THEN "write" ELSE "done") /\ ret' = len
    /\ UNCHANGED <<fn, format, fmt, need, pass, work_size, str, size, blocks, len, total, starved>>

Returns ==
    /\ pc = "return" /\ (fn = "vsnprintf" \/ (pass = 1 /\ ret < 0))
    /\ pc' = "done"
    /\ UNCHANGED <<fn, format, fmt, need, pass, work_size, str, size, blocks, len, total, ret, starved>>

(* write may be short; EINTR and 0 bytes change nothing. *)
write ==
    /\ pc = "write" /\ total < len
    /\ total' \in (total + 1)..len
    /\ UNCHANGED <<fn, format, fmt, need, pc, pass, work_size, str, size, blocks, len, ret, starved>>

WriteEnds(r) ==
    /\ pc' = "done" /\ ret' = r /\ blocks' = blocks \ {"buf"}
    /\ UNCHANGED <<fn, format, fmt, need, pass, work_size, str, size, len, total, starved>>

write_fails == pc = "write" /\ total < len /\ WriteEnds(-1)

AllWritten == pc = "write" /\ total = len /\ WriteEnds(len)

Next ==
    \/ solcompat_vsnprintf \/ malloc \/ malloc_fails \/ vsprintf \/ copy \/ Measured \/ Formatted
    \/ Returns \/ write \/ write_fails \/ AllWritten
    \/ (pc \in {"done", "undefined"} /\ UNCHANGED vars)

Spec == Init /\ [][Next]_vars

------------------------------------------------------------------------------
(* snprintf.c:98 - each C99 modifier becomes what Solaris 7 understands    *)
(* for the same type, and no other character of a format changes, a        *)
(* literal that looks like a modifier included.                            *)
Rewrites == pc = "malloc" => fmt = Joined(format, Solaris)

(* snprintf.c:168 - "the grow loop catches the pathological case before    *)
(* the first write overflows anything real": vsprintf never writes a text  *)
(* behind the block it is given.                                           *)
NoOverrun == pc # "undefined"

(* snprintf.c:210, stdio.c:42, 78 - when there was slack behind every      *)
(* block that was too small, the result is the length of the whole text,   *)
(* of which a buffer holds as much as fits, and a NUL; vasprintf's holds   *)
(* it all and dprintf has written it all.  (When memory runs out in        *)
(* vasprintf's second pass its buffer is not filled, and it returns the    *)
(* length all the same.)                                                   *)
WholeText ==
    pc = "done" /\ ret >= 0 =>
        /\ ret = need
        /\ size > 0 /\ 2 \notin starved => str = [text |-> IF need < size THEN need ELSE size - 1, nul |-> TRUE]
        /\ fn # "vsnprintf" => size = need + 1
        /\ fn = "dprintf" => total = need

(* snprintf.c:200 - given that slack, solcompat_vsnprintf gives up only on *)
(* a text of twice the limit or more, one that cannot be encoded, or       *)
(* without memory.                                                         *)
GivesUp == pc = "return" /\ ret < 0 => need = Bad \/ pass \in starved \/ need >= 2 * Limit

(* snprintf.c:187, 199, 220, stdio.c:83, 89 - no block is lost on any      *)
(* path: only vasprintf leaves one, to its caller, and only in success.    *)
NoBlockLost ==
    /\ pc \in {"call", "malloc", "return"} => blocks = IF pass = 1 THEN {} ELSE {"buf"}
    /\ pc = "done" => blocks = IF fn = "vasprintf" /\ ret >= 0 THEN {"buf"} ELSE {}
==============================================================================
