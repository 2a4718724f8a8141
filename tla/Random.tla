------------------------------- MODULE Random -------------------------------
(***************************************************************************)
(* src/random.c: getentropy, getrandom and the reseeding of arc4random,    *)
(* over a random device or an EGD daemon, chosen once and kept in static   *)
(* variables that no lock protects.  Every system call is one step, and    *)
(* may fail; devices and daemon come and go.                               *)
(*                                                                         *)
(* A byte is known by where it came from: "raw" is what the buffer held    *)
(* before, "real" came from a source of entropy, "weak" from               *)
(* fallback_random_bytes.                                                  *)
(***************************************************************************)
EXTENDS Integers, FiniteSets

CONSTANTS
    Thread,
    EGD_MAX_REQUEST,
    MaxLen,          \* the longest request of a caller
    EntropyMax,      \* getentropy refuses more (256)
    SeedLen,         \* the length of arc4_stir's seed (16)
    ReseedAfter      \* the numbers arc4_next makes of one seed (1600000)

RandomAssumption ==
    /\ EGD_MAX_REQUEST \in Nat \ {0} /\ MaxLen \in Nat
    /\ SeedLen \in 1..EntropyMax /\ EntropyMax \in 1..MaxLen
    /\ ReseedAfter \in Nat /\ IsFiniteSet(Thread)

Origin == {"raw", "real", "weak"}

VARIABLES
    allow_weak,        \* whether SOLCOMPAT_ALLOW_WEAK_RANDOM is set
    random_source,     \* 0, 1, 2 or -1
    random_fd,         \* whether it holds a descriptor
    opened,            \* how many descriptors of random devices are open
    arc4_state,        \* where the bytes of the seed came from
    arc4_initialized,
    arc4_count,
    th                 \* the threads

statics == <<allow_weak, random_source, random_fd, opened>>
arc4 == <<arc4_state, arc4_initialized, arc4_count>>
vars == <<statics, arc4, th>>

(* A thread:                                                               *)
(*   pc, call      where it is, and which function it has called           *)
(*   buf, n        the buffer and its length                               *)
(*   probing       whether egd_get_bytes reads the probe byte              *)
(*   output, len   what the loop under way has filled, and has left        *)
(*   want          egd_get_bytes: what is missing of the chunk             *)
(*   sock          whether it has a socket open                            *)
Idle == [pc |-> "user", call |-> "none", buf |-> <<>>, n |-> 0, probing |-> FALSE,
         output |-> 0, len |-> 0, want |-> 0, sock |-> FALSE]

Init ==
    /\ allow_weak \in BOOLEAN
    /\ random_source = 0 /\ random_fd = FALSE /\ opened = 0
    /\ arc4_state = {"raw"} /\ arc4_initialized = FALSE /\ arc4_count = 0
    /\ th = [t \in Thread |-> Idle]

Goes(t, from, next) ==
    /\ th[t].pc = from
    /\ th' = [th EXCEPT ![t] = next]

Fill(b, at, r, origin) == [i \in DOMAIN b |-> IF i \in at + 1..at + r THEN origin ELSE b[i]]

------------------------------------------------------------------------------
(* The callers.  getentropy refuses a long request at once. *)
Called(c, n) ==
    [Idle EXCEPT !.pc = IF c = "getentropy" /\ n > EntropyMax THEN "failed" ELSE "source?",
                 !.call = c, !.buf = [i \in 1..n |-> "raw"], !.n = n]

Request(t, c, n) ==
    /\ Goes(t, "user", Called(c, n))
    /\ UNCHANGED <<statics, arc4>>

arc4_next_never_reseeds(t) ==
    /\ IF ~arc4_initialized
       THEN Goes(t, "user", Called("arc4_stir", SeedLen))
       ELSE Goes(t, "user", [Idle EXCEPT !.pc = "mix"])
    /\ UNCHANGED <<statics, arc4>>

(* arc4_next: arc4_stir if it is due, ... *)
arc4_next(t) ==
    /\ IF ~arc4_initialized \/ arc4_count > ReseedAfter
       THEN Goes(t, "user", Called("arc4_stir", SeedLen))
       ELSE Goes(t, "user", [Idle EXCEPT !.pc = "mix"])
    /\ UNCHANGED <<statics, arc4>>

(* ... and a number from the state. *)
Mix(t) ==
    /\ Goes(t, "mix", Idle)
    /\ arc4_count' = arc4_count + 1
    /\ UNCHANGED <<statics, arc4_state, arc4_initialized>>

(* get_random_bytes: the source is probed for when it is not known: a      *)
(* device, or else a byte from the daemon.                                 *)
LookForSource(t) ==
    /\ Goes(t, "source?", [th[t] EXCEPT !.pc = IF random_source = 0 THEN "open" ELSE "use"])
    /\ UNCHANGED <<statics, arc4>>

OpenDevice(t) ==
    /\ opened' = opened + 1
    /\ Goes(t, "open", [th[t] EXCEPT !.pc = "set"])
    /\ UNCHANGED <<allow_weak, random_source, random_fd, arc4>>

OpenFails(t) ==
    /\ Goes(t, "open", [th[t] EXCEPT !.pc = "connect", !.probing = TRUE, !.len = 1])
    /\ UNCHANGED <<statics, arc4>>

(* random_fd and random_source are set; nothing keeps the compiler from    *)
(* setting them in the other order.                                        *)
SetFd(t) ==
    /\ random_fd' = TRUE
    /\ \/ Goes(t, "set", [th[t] EXCEPT !.pc = "set_source"])
       \/ Goes(t, "set_fd", [th[t] EXCEPT !.pc = "use"])
    /\ UNCHANGED <<allow_weak, random_source, opened, arc4>>

SetSource(t) ==
    /\ random_source' = 1
    /\ \/ Goes(t, "set", [th[t] EXCEPT !.pc = "set_fd"])
       \/ Goes(t, "set_source", [th[t] EXCEPT !.pc = "use"])
    /\ UNCHANGED <<allow_weak, random_fd, opened, arc4>>

(* A read of n > 0 bytes fails at once when random_fd is not set. *)
UseSource(t) ==
    /\ Goes(t, "use", [th[t] EXCEPT !.output = 0, !.len = th[t].n,
                         !.pc = CASE random_source = 1 /\ (random_fd \/ th[t].n = 0) -> "read_all"
                                  [] random_source = 2 -> "connect"
                                  [] OTHER -> "no source"])
    /\ UNCHANGED <<statics, arc4>>

(* read_all: a read gives some bytes, or it fails or ends; after EINTR the *)
(* thread reads again.                                                     *)
read_all(t) ==
    LET me == th[t] IN
    /\ \/ me.len = 0 /\ Goes(t, "read_all", [me EXCEPT !.pc = "done"])
       \/ me.len > 0 /\ Goes(t, "read_all", [me EXCEPT !.pc = "no source"])
       \/ \E r \in 1..me.len :
             Goes(t, "read_all", [me EXCEPT !.buf = Fill(@, me.output, r, "real"),
                                            !.output = @ + r, !.len = @ - r])
    /\ UNCHANGED <<statics, arc4>>

------------------------------------------------------------------------------
(* egd_get_bytes returns; the probe settles the source. *)
EgdReturns(t, from, ok) ==
    IF th[t].probing
    THEN /\ Goes(t, from, [th[t] EXCEPT !.pc = "use", !.probing = FALSE, !.sock = FALSE, !.want = 0])
         /\ random_source' = IF ok THEN 2 ELSE -1
    ELSE /\ Goes(t, from, [th[t] EXCEPT !.pc = IF ok THEN "done" ELSE "no source",
                                        !.sock = FALSE, !.want = 0])
         /\ UNCHANGED random_source

egd_connect(t) ==
    /\ \/ EgdReturns(t, "connect", FALSE)
       \/ /\ Goes(t, "connect", [th[t] EXCEPT !.pc = "egd", !.sock = TRUE])
          /\ UNCHANGED random_source
    /\ UNCHANGED <<allow_weak, random_fd, opened, arc4>>

(* A request for a chunk is written, or all has been read. *)
egd_request(t) ==
    LET me == th[t]
        chunk == IF me.len > EGD_MAX_REQUEST THEN EGD_MAX_REQUEST ELSE me.len IN
    /\ \/ me.len = 0 /\ EgdReturns(t, "egd", TRUE)
       \/ me.len > 0 /\ EgdReturns(t, "egd", FALSE)
       \/ /\ me.len > 0
          /\ Goes(t, "egd", [me EXCEPT !.pc = "reply", !.want = chunk])
          /\ UNCHANGED random_source
    /\ UNCHANGED <<allow_weak, random_fd, opened, arc4>>

egd_reply_once(t) ==
    LET me == th[t] IN
    /\ \/ EgdReturns(t, "reply", FALSE)
       \/ \E r \in 1..me.want :
             /\ Goes(t, "reply", [me EXCEPT !.buf = IF me.probing THEN @ ELSE Fill(@, me.output, r, "real"),
                                            !.output = @ + me.want, !.len = @ - me.want, !.want = 0,
                                            !.pc = "egd"])
             /\ UNCHANGED random_source
    /\ UNCHANGED <<allow_weak, random_fd, opened, arc4>>

(* The reply comes in pieces, or not at all. *)
egd_reply(t) ==
    LET me == th[t] IN
    /\ \/ EgdReturns(t, "reply", FALSE)
       \/ \E r \in 1..me.want :
             /\ Goes(t, "reply", [me EXCEPT !.buf = IF me.probing THEN @ ELSE Fill(@, me.output, r, "real"),
                                            !.output = @ + r, !.len = @ - r, !.want = @ - r,
                                            !.pc = IF r = me.want THEN "egd" ELSE "reply"])
             /\ UNCHANGED random_source
    /\ UNCHANGED <<allow_weak, random_fd, opened, arc4>>

------------------------------------------------------------------------------
Fallback_always(t) ==
    /\ Goes(t, "no source", [th[t] EXCEPT !.pc = "done", !.buf = [i \in DOMAIN @ |-> "weak"]])
    /\ UNCHANGED <<statics, arc4>>

(* No source works: fallback_random_bytes if it is allowed, else EIO. *)
Fallback(t) ==
    /\ Goes(t, "no source",
            IF allow_weak THEN [th[t] EXCEPT !.pc = "done", !.buf = [i \in DOMAIN @ |-> "weak"]]
            ELSE [th[t] EXCEPT !.pc = "failed"])
    /\ UNCHANGED <<statics, arc4>>

(* arc4_stir takes its seed whether getentropy succeeded or not. *)
arc4_stir(t) ==
    /\ th[t].pc \in {"done", "failed"} /\ th[t].call = "arc4_stir"
    /\ arc4_state' = {th[t].buf[i] : i \in 1..SeedLen}
    /\ arc4_count' = 0 /\ arc4_initialized' = TRUE
    /\ th' = [th EXCEPT ![t] = [Idle EXCEPT !.pc = "mix"]]
    /\ UNCHANGED statics

Return(t) ==
    /\ th[t].pc \in {"done", "failed"} /\ th[t].call # "arc4_stir"
    /\ th' = [th EXCEPT ![t] = Idle]
    /\ UNCHANGED <<statics, arc4>>

Steps(t) ==
    \/ LookForSource(t) \/ OpenDevice(t) \/ OpenFails(t) \/ SetFd(t) \/ SetSource(t)
    \/ UseSource(t) \/ read_all(t) \/ egd_connect(t) \/ egd_request(t) \/ egd_reply(t)
    \/ Fallback(t) \/ arc4_stir(t) \/ Mix(t) \/ Return(t)

Next ==
    \E t \in Thread :
        \/ \E c \in {"getentropy", "getrandom"}, n \in 0..MaxLen : Request(t, c, n)
        \/ arc4_next(t)
        \/ Steps(t)

Spec == Init /\ [][Next]_vars

------------------------------------------------------------------------------
Pc == {"user", "source?", "open", "set", "set_fd", "set_source", "use", "read_all", "connect", "egd",
       "reply", "no source", "done", "failed", "mix"}

(* Types. *)
TypeOK ==
    /\ allow_weak \in BOOLEAN /\ random_source \in -1..2
    /\ random_fd \in BOOLEAN /\ opened \in Nat
    /\ arc4_state \subseteq Origin /\ arc4_initialized \in BOOLEAN
    /\ arc4_count \in 0..ReseedAfter + Cardinality(Thread)
    /\ \A t \in Thread :
          /\ th[t].pc \in Pc
          /\ th[t].n \in 0..MaxLen /\ th[t].buf \in [1..th[t].n -> Origin]
          /\ th[t].output \in 0..MaxLen /\ th[t].len \in 0..MaxLen
          /\ th[t].want \in 0..EGD_MAX_REQUEST
          /\ th[t].probing \in BOOLEAN /\ th[t].sock \in BOOLEAN

(* random.c:94-126, 150-159, 270-275 - a request that succeeds has filled  *)
(* every byte of the buffer, however many chunks and short reads it took,  *)
(* from a source of entropy, or from the generator if that is allowed.     *)
AllFilled ==
    \A t \in Thread : th[t].pc = "done" =>
        \A i \in 1..th[t].n : th[t].buf[i] \in {"real"} \cup (IF allow_weak THEN {"weak"} ELSE {})

(* random.c:102, 114, 118, 128 - the socket is closed on every way out of   *)
(* egd_get_bytes.                                                          *)
SocketClosed == \A t \in Thread : th[t].sock => th[t].pc \in {"egd", "reply"}

(* random.c:178 - "Source selection is sticky ... don't re-open            *)
(* /dev/urandom": at worst, each thread that found no source chosen opens  *)
(* the device once, however long the program runs.                         *)
OpenedOnce == opened <= Cardinality(Thread)
==============================================================================
