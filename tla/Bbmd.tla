-------------------------------- MODULE Bbmd --------------------------------
(* Broadcast distribution over a mesh of B/IP subnets, each with one BBMD       *)
(* (bbmd/bbmd.go) running beside a server (server/packet.go).  A BBMD forwards  *)
(* the broadcasts of its subnet to its peers and to its foreign devices, as     *)
(* Forwarded-NPDUs that carry the origin.  UDP may delay, reorder and lose any  *)
(* frame.                                                                       *)
(*                                                                              *)
(* One broadcast at a time is followed from its sender to the nodes: what a     *)
(* BBMD does with one does not depend on another.  Time is a count of ticks.    *)
EXTENDS Integers, Bags, FiniteSets, Absent

CONSTANTS
  BBMDs,         \* the BBMDs; each one is also the name of its subnet
  Hosts,         \* servers without a BBMD and clients on a subnet
  SubnetOf,      \* Hosts -> BBMDs
  Foreign,       \* clients on no subnet of the mesh, registered as foreign devices
  Home,          \* Foreign -> BBMDs, the BBMD a foreign device registers with
  Masks,         \* the Broadcast Distribution Tables: subsets of [BBMDs -> Mask]
  TTL, Grace,    \* ticks a registration asks for, and the BBMD adds
  MaxForeign,    \* Config.MaxForeignDevices
  RoundTrip      \* ticks after which a BVLC request or its answer is lost

VARIABLES
  bdt,       \* the Broadcast Distribution Table, the same at every BBMD
  fdt,       \* [BBMDs -> [Foreign -> ticks left]], 0 for no entry
  npdus,     \* the bag of NPDU frames in flight
  ctl,       \* BVLC management frames in flight
  cast,      \* the broadcast followed: its source, and whether it is a confirmed request
  got,       \* how often each node took the broadcast
  whole,     \* no frame of the broadcast was lost
  stayed,    \* foreign devices registered ever since the broadcast began
  deleted    \* foreign devices whose entry was deleted, or that deleted an entry,
             \* since they were last entered (history)

(* The parties of the mesh; a table names every BBMD; None is no broadcast.    *)
ASSUME MeshAssumption ==
  /\ SubnetOf \in [Hosts -> BBMDs] /\ Home \in [Foreign -> BBMDs]
  /\ BBMDs \cap Hosts = {} /\ BBMDs \cap Foreign = {} /\ Hosts \cap Foreign = {}
  /\ Masks \subseteq [BBMDs -> {"unicast", "directed"}]
  /\ \A s \in BBMDs \union Hosts \union Foreign, c \in BOOLEAN :
       [src |-> s, confirmed |-> c] # None

(* Every entry of a table has the same kind of mask.  The code does not check  *)
(* this; it judges how a peer sends by the peer's entry, and the peer chooses  *)
(* by the entry of the receiver.                                               *)
UniformMasks == \A m \in Masks, b, c \in BBMDs : m[b] = m[c]

bbmdVars == <<bdt, fdt, npdus, ctl, cast, got, whole, stayed, deleted>>

Nodes == BBMDs \union Hosts \union Foreign

Member(b) == {b} \union {h \in Hosts : SubnetOf[h] = b}

-----------------------------------------------------------------------------
(* Frames.  "original", "forwarded" and "distribute" carry the broadcast.      *)

Frame(fn, from, to, origin) == [fn |-> fn, from |-> from, to |-> to, origin |-> origin]

(* A local broadcast reaches every node of the subnet, its sender included     *)
(* when that is the BBMD.                                                      *)
LocalCast(fn, from, b, origin) ==
  {Frame(fn, from, n, origin) : n \in Member(b) \ ({from} \cap Hosts)}

Registered(b, f) == fdt[b][f] > 0

FDT(b) == {f \in Foreign : Registered(b, f)}

(* An all-ones mask makes the forward address the peer itself; any other mask  *)
(* makes it the directed broadcast of the peer's subnet.                       *)
oneHop(b) == bdt[b] = "unicast"

forwardAddress(from, b, origin) ==
  IF oneHop(b) THEN {Frame("forwarded", from, b, origin)}
               ELSE LocalCast("forwarded", from, b, origin)

(* distribute skips this BBMD's own entry and the origin.                      *)
Peers(b, origin) == {p \in BBMDs \ {b} : ~(oneHop(p) /\ p = origin)}

distribute(b, origin, peers) ==
  SetToBag(IF peers THEN UNION {forwardAddress(b, p, origin) : p \in Peers(b, origin)}
                    ELSE {})
    (+) SetToBag({Frame("forwarded", b, f, origin) : f \in FDT(b) \ {origin}})

(* A peer whose entry has an all-ones mask sends by unicast, so that its       *)
(* Forwarded-NPDUs must be rebroadcast here.                                   *)
peerAnyHop(b, from) == from \in BBMDs \ {b}
isPeerOneHop(b, from) == from \in BBMDs \ {b} /\ oneHop(from)

(* A confirmed request is not distributed.                                     *)
confirmedRequest == cast.confirmed

(* HandleBVLC for the functions that carry an NPDU: what the BBMD sends, and   *)
(* whether its server processes the NPDU.                                      *)
HandleBVLC(b, m) ==
  LET nothing == [deliver |-> FALSE, send |-> EmptyBag, nak |-> FALSE]
  IN  CASE m.from = b -> nothing
        [] m.from # b /\ m.fn = "original" ->
             IF confirmedRequest THEN nothing
             ELSE [deliver |-> TRUE, send |-> distribute(b, m.from, TRUE), nak |-> FALSE]
        [] m.from # b /\ m.fn = "forwarded" ->
             IF m.origin = b THEN nothing
             ELSE [deliver |-> TRUE, nak |-> FALSE,
                   send |-> distribute(b, m.origin, FALSE)
                              (+) (IF isPeerOneHop(b, m.from)
                                   THEN SetToBag(LocalCast("forwarded", b, b, m.origin))
                                   ELSE EmptyBag)]
        [] m.from # b /\ m.fn = "distribute" ->
             IF ~Registered(b, m.from) \/ confirmedRequest
             THEN [nothing EXCEPT !.nak = TRUE]
             ELSE [deliver |-> TRUE, nak |-> FALSE,
                   send |-> SetToBag(LocalCast("forwarded", b, b, m.from))
                              (+) distribute(b, m.from, TRUE)]

(* Without a BBMD a server or a client takes the broadcast; a foreign device   *)
(* takes Forwarded-NPDUs of its own BBMD only.                                 *)
takes(n, m) == n \in Hosts \/ (n \in Foreign /\ m.fn = "forwarded" /\ m.from = Home[n])

-----------------------------------------------------------------------------
(* A broadcast begins: cast, who is registered, and its first frames.          *)
Begin(src, confirmed, frames) ==
  /\ cast = None
  /\ cast' = [src |-> src, confirmed |-> confirmed]
  /\ npdus' = frames
  /\ stayed' = {f \in Foreign : Registered(Home[f], f)}
  /\ UNCHANGED <<bdt, fdt, got, whole, deleted>>

HostBroadcast(h, confirmed) ==
  Begin(h, confirmed, SetToBag(LocalCast("original", h, SubnetOf[h], h))) /\ UNCHANGED ctl

(* broadcastAPDU of the server beside a BBMD: LocalBroadcast, then the         *)
(* Original-Broadcast on its own subnet.                                       *)
ServerBroadcast(b) ==
  Begin(b, FALSE, distribute(b, b, TRUE) (+) SetToBag(LocalCast("original", b, b, b)))
    /\ UNCHANGED ctl

Result(from, to, code, life) ==
  [fn |-> "result", from |-> from, to |-> to, code |-> code, life |-> life]

Deliver(m) ==
  /\ BagIn(m, npdus)
  /\ LET rest == npdus (-) SetToBag({m}) IN
     IF m.to \in BBMDs
     THEN LET r == HandleBVLC(m.to, m) IN
          /\ npdus' = rest (+) r.send
          /\ got' = [got EXCEPT ![m.to] = @ + IF r.deliver THEN 1 ELSE 0]
          /\ ctl' = ctl \union (IF r.nak THEN {Result(m.to, m.from, "nak", RoundTrip)} ELSE {})
     ELSE /\ npdus' = rest
          /\ got' = [got EXCEPT ![m.to] = @ + IF takes(m.to, m) THEN 1 ELSE 0]
          /\ UNCHANGED ctl
  /\ UNCHANGED <<bdt, fdt, cast, whole, stayed, deleted>>

Lose(m) ==
  /\ BagIn(m, npdus)
  /\ npdus' = npdus (-) SetToBag({m})
  /\ whole' = FALSE
  /\ UNCHANGED <<bdt, fdt, ctl, cast, got, stayed, deleted>>

Arrived == cast # None /\ npdus = EmptyBag

Settle ==
  /\ Arrived
  /\ cast' = None
  /\ got' = [n \in Nodes |-> 0]
  /\ whole' = TRUE
  /\ stayed' = {}
  /\ UNCHANGED <<bdt, fdt, npdus, ctl, deleted>>

-----------------------------------------------------------------------------
(* The management functions of HandleBVLC.                                     *)

(* register drops expired entries, then refuses a new device when full.        *)
register(b, m) ==
  LET room == Registered(b, m.from) \/ Cardinality(FDT(b)) < MaxForeign
  IN  /\ ctl' = (ctl \ {m}) \union {Result(b, m.from, IF room THEN "ok" ELSE "nak", m.life)}
      /\ fdt' = IF room THEN [fdt EXCEPT ![b][m.from] = TTL + Grace] ELSE fdt
      /\ deleted' = IF room THEN deleted \ {m.from} ELSE deleted
      /\ UNCHANGED stayed

delete(b, m) ==
  LET known == Registered(b, m.entry)
  IN  /\ ctl' = (ctl \ {m}) \union {Result(b, m.from, IF known THEN "ok" ELSE "nak", m.life)}
      /\ fdt' = [fdt EXCEPT ![b][m.entry] = 0]
      /\ deleted' = IF known THEN deleted \union {m.entry, m.from} ELSE deleted
      /\ stayed' = IF known THEN stayed \ {m.entry} ELSE stayed

readTable(b, m) ==
  /\ ctl' = (ctl \ {m}) \union {[fn |-> "ack", from |-> b, to |-> m.from, life |-> m.life]}
  /\ UNCHANGED <<fdt, deleted, stayed>>

Manage(m) ==
  /\ m \in ctl
  /\ m.to \in BBMDs
  /\ \/ m.fn = "register" /\ register(m.to, m)
     \/ m.fn = "delete" /\ delete(m.to, m)
     \/ m.fn = "read" /\ readTable(m.to, m)
  /\ UNCHANGED <<bdt, npdus, cast, got, whole>>

(* Time passes at the BBMDs and in the network: an entry whose time is up is   *)
(* no longer registered, a management frame whose time is up is lost.          *)
Age ==
  /\ fdt' = [b \in BBMDs |-> [f \in Foreign |-> IF fdt[b][f] = 0 THEN 0 ELSE fdt[b][f] - 1]]
  /\ ctl' = {[m EXCEPT !.life = @ - 1] : m \in {x \in ctl : x.life > 0}}
  /\ stayed' = {f \in stayed : fdt'[Home[f]][f] > 0}
  /\ UNCHANGED <<bdt, npdus, cast, got, whole, deleted>>

BbmdInit ==
  /\ bdt \in Masks
  /\ fdt = [b \in BBMDs |-> [f \in Foreign |-> 0]]
  /\ npdus = EmptyBag
  /\ ctl = {}
  /\ cast = None
  /\ got = [n \in Nodes |-> 0]
  /\ whole = TRUE
  /\ stayed = {}
  /\ deleted = {}

-----------------------------------------------------------------------------
(* A broadcast is taken at most once by a node and never by its sender         *)
(* (distribute skips the origin, HandleBVLC drops what loops back, and only    *)
(* one of the sending peer's directed broadcast and the receiving BBMD's       *)
(* rebroadcast covers a subnet); once its frames have arrived, none lost, every *)
(* node of every subnet and every foreign device that stayed registered has    *)
(* taken it.  A confirmed request never leaves the subnet it was sent on.      *)
DeliveredOnce ==
  /\ \A n \in Nodes : got[n] <= 1
  /\ cast # None => got[cast.src] = 0
  /\ cast # None /\ cast.confirmed =>
       \A n \in Nodes : got[n] > 0 => n \in Hosts /\ cast.src \in Hosts
                                       /\ SubnetOf[n] = SubnetOf[cast.src]
  /\ Arrived /\ whole /\ ~cast.confirmed
       /\ (cast.src \in Foreign => cast.src \in stayed /\ \E n \in Nodes : got[n] > 0) =>
       \A n \in (BBMDs \union Hosts \union stayed) \ {cast.src} : got[n] = 1
=============================================================================
