-------------------------------- MODULE NetDB --------------------------------
(***************************************************************************)
(* getaddrinfo and getifaddrs of src/network.c, which build linked lists   *)
(* of blocks while any allocation may fail, and the calls that free them.  *)
(* getaddrinfo reads the hostent of gethostbyname, which is static: the    *)
(* lookup of another thread overwrites it.  A block is named by what it is *)
(* of, so that a block freed twice or never can be told.                   *)
(***************************************************************************)
EXTENDS Integers, Sequences, FiniteSets

CONSTANTS
    Address,       \* addresses of hosts
    MaxAddrs,      \* how many a host may have, and how many interfaces there may be
    NULL

NetDBAssumption == NULL \notin Address /\ MaxAddrs \in Nat

VARIABLES
    req,           \* what was asked
    pc, ret,
    host,          \* what gethostbyname found for the node
    he,            \* its static hostent
    list, udp,     \* the lists that begin at head and udp_head
    live,          \* the blocks allocated and not freed
    twice,         \* whether a block was freed that was not allocated
    sock,          \* whether the socket of getifaddrs is open
    starved        \* whether an allocation has failed

vars == <<req, pc, ret, host, he, list, udp, live, twice, sock, starved>>

Lists(S) == UNION {[1..k -> S] : k \in 0..MaxAddrs}

(* hints, or NULL; a numeric node comes with AI_NUMERICHOST. *)
Hints == [family : {"unspec", "inet", "inet6", "other"}, socktype : {"any", "dgram"},
          flags : SUBSET {"canonname", "passive", "numericserv"}]

Request ==
    [fn : {"getaddrinfo"}, node : {NULL, "numeric", "bad", "name"},
     service : {NULL, "number", "known", "unknown"}, hints : Hints \cup {NULL}]
      \cup [fn : {"getifaddrs"}]

(* AI_NUMERICHOST is a flag of the hints. *)
Legal(r) == r.fn = "getaddrinfo" /\ r.hints = NULL => r.node \in {NULL, "name"}

Idle ==
    /\ pc = "call" /\ ret = NULL /\ host = <<>> /\ he = <<>> /\ list = <<>> /\ udp = <<>>
    /\ live = {} /\ twice = FALSE /\ sock = FALSE /\ starved = FALSE

Init == Idle /\ req \in {r \in Request : Legal(r)}

Flag(f) == req.hints # NULL /\ f \in req.hints.flags
Socktype == IF req.hints = NULL THEN "any" ELSE req.hints.socktype

Returns(error) == pc' = "done" /\ ret' = error

(* The checks before anything is allocated, in their order. *)
Refused ==
    CASE req.node = NULL /\ req.service = NULL -> "EAI_NONAME"
      [] req.hints # NULL /\ req.hints.family = "other" -> "EAI_FAMILY"
      [] req.hints # NULL /\ req.hints.family = "inet6" -> "EAI_NONAME"
      [] req.service \in {"known", "unknown"} /\ Flag("numericserv") -> "EAI_NONAME"
      [] req.service = "unknown" -> "EAI_SERVICE"
      [] req.node = "bad" -> "EAI_NONAME"
      [] OTHER -> "ok"

getaddrinfo ==
    /\ pc = "call" /\ req.fn = "getaddrinfo"
    /\ IF Refused # "ok" THEN Returns(Refused) /\ UNCHANGED <<host, he>>
       ELSE IF req.node # "name" THEN pc' = "single" /\ UNCHANGED <<ret, host, he>>
       ELSE \/ \E e \in {"EAI_NONAME", "EAI_AGAIN", "EAI_FAIL"} : Returns(e) /\ UNCHANGED <<host, he>>
            \/ \E l \in Lists(Address) : host' = l /\ he' = l /\ pc' = "each" /\ UNCHANGED ret
    /\ UNCHANGED <<req, list, udp, live, twice, sock, starved>>

(* A block of address a, and the blocks it refers to. *)
Node(a, parts) == [block |-> <<"ai", Len(list)>>, addr |-> a, parts |-> parts,
                   type |-> IF Socktype = "any" THEN "stream" ELSE Socktype]

Add(node) ==
    /\ list' = Append(list, node)
    /\ live' = live \cup {node.block} \cup node.parts

(* A numeric address, or INADDR_ANY or the loopback address. *)
Single ==
    LET addr == CASE req.node = "numeric" -> "numeric" [] Flag("passive") -> "any" [] OTHER -> "loopback" IN
    /\ pc = "single"
    /\ \/ /\ Add(Node(addr, {})) /\ UNCHANGED starved
          /\ IF req.node = "numeric" THEN Returns("ok") ELSE pc' = "dup?" /\ UNCHANGED ret
       \/ Returns("EAI_MEMORY") /\ starved' = TRUE /\ UNCHANGED <<list, live>>
    /\ UNCHANGED <<req, host, he, udp, twice, sock>>

------------------------------------------------------------------------------
Blocks(l) == UNION {{l[i].block} \cup l[i].parts : i \in DOMAIN l}

(* freeaddrinfo and freeifaddrs, of every block that a list refers to. *)
Free(l) ==
    /\ live' = live \ Blocks(l)
    /\ twice' = \/ ~(Blocks(l) \subseteq live)
                \/ \E i, j \in DOMAIN l : i # j /\ l[i].parts \cap l[j].parts # {}

(* One turn of the loop over h_addr_list; strdup may fail without notice. *)
Each ==
    /\ pc = "each" /\ Len(list) < Len(he)
    /\ \/ /\ \E canonname \in SUBSET {<<"name", 0>>} :
               /\ canonname # {} => Flag("canonname") /\ list = <<>>
               /\ Add(Node(he[Len(list) + 1], canonname))
          /\ UNCHANGED <<pc, ret, twice, starved>>
       \/ Returns("EAI_MEMORY") /\ starved' = TRUE /\ Free(list) /\ list' = <<>>
    /\ UNCHANGED <<req, host, he, udp, sock>>

(* The NULL at the end of h_addr_list; a list that has become shorter is   *)
(* read behind its end.                                                    *)
EachEnds ==
    /\ pc = "each" /\ Len(list) >= Len(he)
    /\ IF Len(list) > Len(he) THEN pc' = "undefined" /\ UNCHANGED ret
       ELSE IF list = <<>> THEN Returns("EAI_NONAME") ELSE pc' = "dup?" /\ UNCHANGED ret
    /\ UNCHANGED <<req, host, he, list, udp, live, twice, sock, starved>>

(* Another thread looks up another host. *)
Overwrite ==
    /\ pc = "each" /\ he = host
    /\ he' \in Lists(Address)
    /\ UNCHANGED <<req, pc, ret, host, list, udp, live, twice, sock, starved>>

CopyAll(node) == [node EXCEPT !.block = <<"udp", Len(udp)>>, !.type = "dgram"]

(* A copy has no ai_canonname. *)
Copy(node) == [node EXCEPT !.block = <<"udp", Len(udp)>>, !.type = "dgram", !.parts = {}]

(* The copies for UDP; the loop ends at the first that cannot be had. *)
Duplicate ==
    /\ pc = "dup?" /\ req.hints # NULL /\ Socktype = "any" /\ Len(udp) < Len(list)
    /\ \/ /\ udp' = Append(udp, Copy(list[Len(udp) + 1]))
          /\ live' = live \cup {udp'[Len(udp')].block}
          /\ UNCHANGED <<pc, ret, list, starved>>
       \/ /\ starved' = TRUE /\ Returns("ok") /\ list' = list \o udp /\ UNCHANGED <<udp, live>>
    /\ UNCHANGED <<req, host, he, twice, sock>>

Join ==
    /\ pc = "dup?" /\ (req.hints = NULL \/ Socktype # "any" \/ Len(udp) = Len(list))
    /\ Returns("ok") /\ list' = list \o udp
    /\ UNCHANGED <<req, host, he, udp, live, twice, sock, starved>>

------------------------------------------------------------------------------
(* getifaddrs: a socket, the list of interfaces, and a node for each. *)
getifaddrs ==
    /\ pc = "call" /\ req.fn = "getifaddrs"
    /\ \/ Returns("error") /\ UNCHANGED <<host, sock>>
       \/ (\E l \in Lists(Address) : host' = l) /\ pc' = "interface" /\ sock' = TRUE /\ UNCHANGED ret
    /\ UNCHANGED <<req, he, list, udp, live, twice, starved>>

(* The name, the address and the mask are blocks that may be missing. *)
Interface ==
    LET k == Len(list) IN
    /\ pc = "interface" /\ k < Len(host)
    /\ \/ /\ \E parts \in SUBSET {<<"name", k>>, <<"addr", k>>, <<"mask", k>>} :
               Add([block |-> <<"ifa", k>>, addr |-> host[k + 1], parts |-> parts, type |-> "ifa"])
          /\ UNCHANGED <<pc, ret, sock, twice, starved>>
       \/ Returns("error") /\ Free(list) /\ list' = <<>> /\ sock' = FALSE /\ starved' = TRUE
    /\ UNCHANGED <<req, host, he, udp>>

InterfacesEnd ==
    /\ pc = "interface" /\ Len(list) = Len(host)
    /\ Returns("ok") /\ sock' = FALSE
    /\ UNCHANGED <<req, host, he, list, udp, live, twice, starved>>

(* The caller frees what it was given. *)
freeaddrinfo ==
    /\ pc = "done" /\ ret = "ok"
    /\ pc' = "freed" /\ Free(list)
    /\ UNCHANGED <<req, ret, host, he, list, udp, sock, starved>>

Next ==
    \/ getaddrinfo \/ Single \/ Each \/ EachEnds \/ Overwrite \/ Duplicate \/ Join
    \/ getifaddrs \/ Interface \/ InterfacesEnd \/ freeaddrinfo
    \/ (pc \in {"freed", "undefined"} \/ (pc = "done" /\ ret # "ok")) /\ UNCHANGED vars

Spec == Init /\ [][Next]_vars
------------------------------------------------------------------------------
(* network.c:168, 218 - an answer has the addresses of the host in their   *)
(* order, each for the type asked for, and nothing else; if hints that ask *)
(* for no type are given with the name of a host or without a node, the    *)
(* same again for UDP, fewer of them only if memory has run out.  Without  *)
(* hints, and for a numeric node, line 218 says so and lines 219 and 152   *)
(* do otherwise: there what comes behind the addresses may be missing.     *)
(* All that unless another thread's lookup fell between the parts of this  *)
(* one.                                                                    *)
Answers ==
    pc = "done" /\ ret = "ok" /\ req.fn = "getaddrinfo" /\ he = host =>
        LET n == IF req.node = "name" THEN Len(host) ELSE 1
            both == req.hints # NULL /\ req.node # "numeric" /\ ~starved
        IN  /\ \A i \in 1..n : /\ req.node = "name" => list[i].addr = host[i]
                              /\ list[i].type = IF Socktype = "any" THEN "stream" ELSE Socktype
            /\ \A i \in (n + 1)..Len(list) : list[i].addr = list[i - n].addr /\ list[i].type = "dgram"
            /\ Len(list) \in n..2 * n
            /\ Socktype # "any" => Len(list) = n
            /\ Socktype = "any" /\ both => Len(list) = 2 * n

(* network.c:171, 224, 555, 592 - whichever allocation fails, a list holds *)
(* every block there is and a failed call leaves none, nor its socket; a   *)
(* list is freed to the last block and no block twice.                     *)
NoBlockLost ==
    /\ ~twice
    /\ pc = "done" => ~sock /\ live = IF ret = "ok" THEN Blocks(list) ELSE {}
    /\ pc = "freed" => live = {}
==============================================================================
