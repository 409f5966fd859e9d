------------------------------ MODULE Directory ------------------------------
(* What the client learns from the network: the devices and objects that        *)
(* announced themselves (client/registry.go, client/object_registry.go), which  *)
(* Discover collects (client/discovery.go), and the routers to remote networks  *)
(* (client/routing.go).  Each table is bounded and forgets what it has not      *)
(* heard for long.  A time stamp is its age in ticks, kept only up to the age   *)
(* the code tells apart.                                                        *)
EXTENDS Integers, Sequences, FiniteSets, Functions

CONSTANTS
  Instances, Paths,     \* an observation key is an instance and a path
  MaxPaths, MaxObs,     \* RegistryOptions.MaxPathsPerInstance, MaxObservations
  ObsTTL,               \* RegistryOptions.ObservationTTL
  MaxWindow,            \* longest discovery
  Networks, Hops,
  MaxPerNet, MaxGlobal, \* routerCache.maxPerNet, maxGlobal
  RouteTTL, BusyTime    \* routerCache.ttl, busyDuration

(* A discovery ends before what it heard expires, and a busy router is usable  *)
(* again before its route expires (30 s against 10 min).                       *)
ASSUME DirectoryAssumption ==
  /\ IsFiniteSet(Instances) /\ IsFiniteSet(Paths)
  /\ MaxPaths \in Nat \ {0} /\ MaxObs \in Nat \ {0}
  /\ MaxWindow \in Nat /\ ObsTTL \in Nat /\ MaxWindow < ObsTTL
  /\ MaxPerNet \in Nat \ {0} /\ MaxGlobal \in Nat \ {0}
  /\ BusyTime \in Nat /\ RouteTTL \in Nat /\ BusyTime <= RouteTTL

VARIABLES
  follows,  \* which table this behaviour follows: device, object or route
  byKey,    \* [key -> age] of the observations retained
  byInst,   \* [Instances -> Seq(key)], Registry.byInstance
  since,    \* age of the discovery under way, or -1
  heard,    \* age of the last announcement of each key, -1 for none (history)
  found,    \* what the last Discover returned, with what it heard
  routes,   \* [Networks -> Seq([hop, age, state, busy])]
  said,     \* the last message of a hop about a network the cache had a use for, unless
            \* it was a rejection or is as old as a stale route: free or busy, and its
            \* age (history)
  dropped,  \* the routes, network and hop, that were dropped for room before they
            \* were stale, and not announced again (history)
  chosen    \* the next hop last selected, with its network, or <<>>

dirVars == <<follows, byKey, byInst, since, heard, found, routes, said, dropped, chosen>>

Keys == Instances \X Paths
older(a, bound) == IF a \in {-1, bound} THEN a ELSE a + 1

-----------------------------------------------------------------------------
(* The registries.                                                             *)

Inst(k) == k[1]
Without(f, K) == [k \in DOMAIN f \ K |-> f[k]]
With(f, k, v) == [x \in DOMAIN f \union {k} |-> IF x = k THEN v ELSE f[x]]

Oldest(obs, K) == {k \in K : \A x \in K : obs[x] <= obs[k]}

(* removeKeyLocked keeps the two indexes together: it goes over the keys of    *)
(* the instance and keeps the others.                                          *)
without(keys, K) ==
  LET out[i \in 0 .. Len(keys)] ==
        IF i = 0 THEN <<>>
        ELSE IF keys[i] \in K THEN out[i - 1] ELSE Append(out[i - 1], keys[i])
  IN  out[Len(keys)]
unindex(idx, K) == [i \in Instances |-> without(idx[i], K)]

(* expireLocked: the device registry forgets at the TTL, the object registry   *)
(* beyond it.                                                                  *)
Expired(obs) == {k \in DOMAIN obs : obs[k] >= IF follows = "device" THEN ObsTTL ELSE ObsTTL + 1}

(* Upsert of the device registry: a new key first makes room, for its instance *)
(* and then overall, by the least recently seen.                               *)
upsertDevice(k) ==
  LET live == Without(byKey, Expired(byKey))
      idx  == unindex(byInst, Expired(byKey))
      path == IF k \notin DOMAIN live /\ Len(idx[Inst(k)]) >= MaxPaths
              THEN {{v} : v \in Oldest(live, Range(idx[Inst(k)]))} ELSE {{}}
  IN  \E p \in path :
        LET rest == Without(live, p)
            over == IF k \notin DOMAIN rest /\ Cardinality(DOMAIN rest) >= MaxObs
                    THEN {{v} : v \in Oldest(rest, DOMAIN rest)} ELSE {{}}
        IN  \E o \in over :
              LET kept == unindex(idx, p \union o)
              IN  /\ byKey' = With(Without(rest, o), k, 0)
                  /\ byInst' = IF k \in Range(kept[Inst(k)]) THEN kept
                               ELSE [kept EXCEPT ![Inst(k)] = Append(@, k)]
upsertNewest(k) ==
  LET live == Without(byKey, Expired(byKey))
      over == IF k \notin DOMAIN live /\ Cardinality(DOMAIN live) >= MaxObs
              THEN {{v} : v \in {x \in DOMAIN live : \A y \in DOMAIN live : live[x] <= live[y]}}
              ELSE {{}}
  IN  \E o \in over :
        /\ byKey' = With(Without(live, o), k, 0)
        /\ byInst' = [unindex(byInst, o) EXCEPT ![Inst(k)] = Append(without(@, {k}), k)]

(* Upsert of the object registry: room is made after the key is in, and may    *)
(* be made by that key when others are as recent.                              *)
upsertObject(k) ==
  LET all == With(Without(byKey, Expired(byKey)), k, 0)
  IN  /\ byKey' \in IF Cardinality(DOMAIN all) > MaxObs
                    THEN {Without(all, {v}) : v \in Oldest(all, DOMAIN all)} ELSE {all}
      /\ UNCHANGED byInst

\* Mutant: room is made by the most recently seen.
upsertKeepsOld(k) == IF follows = "device" THEN upsertNewest(k) ELSE upsertObject(k)

upsert(k) == IF follows = "device" THEN upsertDevice(k) ELSE upsertObject(k)

(* handleUnconfirmed of an I-Am or an I-Have.                                  *)
Announce(k) ==
  /\ follows \in {"device", "object"}
  /\ upsert(k)
  /\ heard' = [heard EXCEPT ![k] = 0]
  /\ UNCHANGED <<follows, since, found, routes, said, dropped, chosen>>

Discover ==
  /\ follows \in {"device", "object"}
  /\ since = -1
  /\ since' = 0
  /\ UNCHANGED <<follows, byKey, byInst, heard, found, routes, said, dropped, chosen>>

ObservationsSince == {k \in DOMAIN byKey : byKey[k] <= since}
Heard == {k \in Keys : heard[k] # -1 /\ heard[k] <= since}

(* The window elapsed, the context ended or the client closed.                 *)
Collected ==
  /\ since # -1
  /\ found' = [returned |-> ObservationsSince, heard |-> Heard]
  /\ since' = -1
  /\ UNCHANGED <<follows, byKey, byInst, heard, routes, said, dropped, chosen>>

-----------------------------------------------------------------------------
(* The router cache.                                                           *)

Route(h) == [hop |-> h, age |-> 0, state |-> "available", busy |-> FALSE]
Stale(r) == r.age > RouteTTL
Silence == [free |-> FALSE, age |-> RouteTTL + 1]
Knows(n, h) == \E i \in DOMAIN routes[n] : routes[n][i].hop = h

Slots(rs) == UNION {{n} \X DOMAIN rs[n] : n \in Networks}

(* What is lost when a route is dropped.                                       *)
Loss(n, r) == IF Stale(r) THEN {} ELSE {<<n, r.hop>>}

removeAt(q, i) == SubSeq(q, 1, i - 1) \o SubSeq(q, i + 1, Len(q))

(* enforceGlobalLocked drops a route least recently seen.                      *)
enforceGlobal(rs) ==
  IF Cardinality(Slots(rs)) <= MaxGlobal THEN {[routes |-> rs, lost |-> {}]}
  ELSE {[routes |-> [rs EXCEPT ![s[1]] = removeAt(@, s[2])], lost |-> Loss(s[1], rs[s[1]][s[2]])] :
          s \in {x \in Slots(rs) : \A y \in Slots(rs) : rs[y[1]][y[2]].age <= rs[x[1]][x[2]].age}}

(* upsertLearned for a network named by an I-Am-Router-To-Network: a known     *)
(* next hop is available again; of too many for a network the one learned      *)
(* first goes.                                                                 *)
upsertLearned(n, h) ==
  IF Knows(n, h)
  THEN /\ routes' = [routes EXCEPT ![n] =
                       [i \in DOMAIN @ |-> IF @[i].hop = h THEN Route(h) ELSE @[i]]]
       /\ UNCHANGED dropped
  ELSE LET all  == Append(routes[n], Route(h))
           over == Len(all) > MaxPerNet
       IN  \E g \in enforceGlobal([routes EXCEPT ![n] = IF over THEN Tail(all) ELSE all]) :
             /\ routes' = g.routes
             /\ dropped' = (dropped \ {<<n, h>>}) \union g.lost
                           \union (IF over THEN Loss(n, Head(all)) ELSE {})

marked(r, state) ==
  [hop |-> r.hop, age |-> 0, state |-> state,
   busy |-> IF state = "rejected" THEN r.busy ELSE state = "busy"]

markRoute(n, h, state) ==
  /\ routes' = [routes EXCEPT ![n] =
                  [i \in DOMAIN @ |-> IF @[i].hop = h THEN marked(@[i], state) ELSE @[i]]]
  /\ UNCHANGED dropped

\* Mutant: a busy router is used all the same.
markBusyIgnored(n, h) == UNCHANGED <<routes, dropped>>

markBusy(n, h) == markRoute(n, h, "busy")

markAvailable(n, h) == markRoute(n, h, "available")
markRejected(n, h) == markRoute(n, h, "rejected")

(* handleNetworkMessage, a network at a time.                                  *)
handleNetworkMessage(n, h, msg) ==
  /\ follows = "route"
  /\ CASE msg = "iam" -> upsertLearned(n, h)
       [] msg = "busy" -> markBusy(n, h)
       [] msg = "available" -> markAvailable(n, h)
       [] msg = "reject" -> markRejected(n, h)
  /\ said' = [said EXCEPT ![n][h] = IF msg = "reject" THEN Silence
                                    ELSE IF msg = "iam" \/ Knows(n, h)
                                    THEN [free |-> msg # "busy", age |-> 0] ELSE @]
  /\ chosen' = <<>>
  /\ UNCHANGED <<follows, byKey, byInst, since, heard, found>>

(* selectNextHop marks what has expired and what is no longer busy, and takes  *)
(* the first available one.                                                    *)
refresh(r) ==
  IF Stale(r) THEN [r EXCEPT !.state = "expired"]
  ELSE IF r.state = "busy" /\ r.busy /\ r.age >= BusyTime
       THEN [r EXCEPT !.state = "available", !.busy = FALSE] ELSE r

selectNextHop(n) ==
  LET rs   == [i \in DOMAIN routes[n] |-> refresh(routes[n][i])]
      free == {i \in DOMAIN rs : rs[i].state = "available"}
  IN  /\ routes' = [routes EXCEPT ![n] = rs]
      /\ chosen' = <<n, IF free = {} THEN "none" ELSE rs[CHOOSE i \in free : \A j \in free : i <= j].hop>>

ResolveTarget(n) ==
  /\ follows = "route"
  /\ selectNextHop(n)
  /\ UNCHANGED <<follows, byKey, byInst, since, heard, found, said, dropped>>

-----------------------------------------------------------------------------
Elapse ==
  /\ since < MaxWindow
  /\ byKey' = [k \in DOMAIN byKey |-> older(byKey[k], ObsTTL + 1)]
  /\ heard' = [k \in Keys |-> older(heard[k], ObsTTL + 1)]
  /\ since' = older(since, MaxWindow)
  /\ routes' = [n \in Networks |->
                  [i \in DOMAIN routes[n] |-> [routes[n][i] EXCEPT !.age = older(@, RouteTTL + 1)]]]
  /\ said' = [n \in Networks |-> [h \in Hops |->
                 IF said[n][h].age < RouteTTL THEN [said[n][h] EXCEPT !.age = @ + 1] ELSE Silence]]
  /\ chosen' = <<>>
  /\ UNCHANGED <<follows, byInst, found, dropped>>

DirInit ==
  /\ follows \in {"device", "object", "route"}
  /\ byKey = <<>>
  /\ byInst = [i \in Instances |-> <<>>]
  /\ since = -1
  /\ heard = [k \in Keys |-> -1]
  /\ found = [returned |-> {}, heard |-> {}]
  /\ routes = [n \in Networks |-> <<>>]
  /\ said = [n \in Networks |-> [h \in Hops |-> Silence]]
  /\ dropped = {}
  /\ chosen = <<>>

DirNext ==
  \/ \E k \in Keys : Announce(k)
  \/ Discover
  \/ Collected
  \/ \E n \in Networks, h \in Hops, msg \in {"iam", "busy", "available", "reject"} :
       handleNetworkMessage(n, h, msg)
  \/ \E n \in Networks : ResolveTarget(n)
  \/ Elapse

DirSpec == DirInit /\ [][DirNext]_dirVars

-----------------------------------------------------------------------------
(* Discover returns only what announced itself since it began, and all of that *)
(* unless it was more than a table holds: expiry and eviction, which go on     *)
(* while it collects, take what is older first.  The device registry's index   *)
(* by instance names exactly the observations it retains.                      *)
DiscoverComplete ==
  /\ found.returned \subseteq found.heard
  /\ Cardinality(found.heard) <= MaxObs
       /\ (follows = "device" =>
             \A i \in Instances : Cardinality({k \in found.heard : Inst(k) = i}) <= MaxPaths)
       => found.returned = found.heard
  /\ follows = "device" =>
       /\ UNION {Range(byInst[i]) : i \in Instances} = DOMAIN byKey
       /\ \A i \in Instances : IsInjective(byInst[i]) /\ \A k \in Range(byInst[i]) : Inst(k) = i

(* A hop that has last said, within the route's lifetime, that it reaches the  *)
(* network, or said that it was busy and had the time to recover.              *)
Usable(n, h) ==
  /\ said[n][h].age <= RouteTTL
  /\ said[n][h].free \/ said[n][h].age >= BusyTime

(* A next hop is selected exactly when one that announced itself is usable,    *)
(* unless its route was dropped for room.                                      *)
RouteIsAnnounced ==
  chosen # <<>> =>
    \/ chosen[2] \in Hops /\ Usable(chosen[1], chosen[2])
    \/ chosen[2] = "none" /\ \A h \in Hops : Usable(chosen[1], h) => <<chosen[1], h>> \in dropped
=============================================================================
