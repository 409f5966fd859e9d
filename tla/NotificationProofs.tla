------------------------- MODULE NotificationProofs --------------------------
(***************************************************************************)
(* Proofs about what the parties are told of each other.  First the        *)
(* announcements of routers and devices (module Directory), for any        *)
(* networks, hops, keys, bounds and lifetimes.  Then notifications, from   *)
(* the point whose state changes to the application that is told of it:    *)
(* event detection and alarm acknowledgment in the server (module Events), *)
(* for any points, configurations, writers and recipients, with and        *)
(* without objects being deleted; and what the client hands the            *)
(* application, the event queue of a COV subscription (module              *)
(* Subscription) and event notifications through the stream and the        *)
(* dispatcher (module EventDelivery), for any buffer sizes, number of      *)
(* streams, notifications and renewals.                                    *)
(***************************************************************************)
EXTENDS Events, EventDelivery, Directory, FiniteSetTheorems, WellFoundedInduction, TLAPS

(***************************************************************************)
(* Routes.                                                                 *)
(*                                                                         *)
(* A route of the cache agrees with what its hop said last, and what the   *)
(* cache has no route for was silent, rejected or dropped.                 *)
(***************************************************************************)
\* A route of the cache, and what a hop said.
RouteRecord == [hop : Hops, age : 0 .. RouteTTL + 1,
                state : {"available", "busy", "rejected", "expired"}, busy : BOOLEAN]

\* What a hop said of a network last, and how long ago.
Saying == [free : BOOLEAN, age : 0 .. RouteTTL + 1]

\* A route as the cache has it, against what its hop said last.
Agrees(r, s) ==
  IF r.age > RouteTTL THEN s.age > RouteTTL
  ELSE \/ r.state = "available" /\ s.age = r.age /\ (s.free \/ r.age >= BusyTime)
       \/ r.state = "busy" /\ r.busy /\ s.age = r.age /\ ~s.free
       \/ r.state = "rejected" /\ s.age > RouteTTL

(* The routes to a network agree with what its hops said, and those that the   *)
(* cache did not drop are there.                                               *)
Held(n, q, s, dr) ==
  /\ q \in Seq(RouteRecord)
  /\ \A r \in Range(q) : Agrees(r, s[r.hop])
  /\ \A h \in Hops : s[h].age <= RouteTTL => <<n, h>> \in dr \/ \E r \in Range(q) : r.hop = h

\* The whole cache agrees with what the hops said.
Cached(rs, sd, dr) ==
  /\ rs \in [Networks -> Seq(RouteRecord)]
  /\ \A n \in Networks : Held(n, rs[n], sd[n], dr)

\* The inductive invariant of the route cache.
RouteInv ==
  /\ said \in [Networks -> [Hops -> Saying]]
  /\ Cached(routes, said, dropped)
  /\ RouteIsAnnounced

\* Every non-empty set of natural numbers has a least member.
LEMMA Least ==
  ASSUME NEW T, T \subseteq Nat, T # {}
  PROVE  \E x \in T : \A y \in T : x <= y
<1> DEFINE R == {ss \in Nat \X Nat : ss[1] < ss[2]}
<1>1. IsWellFoundedOn(R, Nat)
  BY NatLessThanWellFounded, Zenon DEF OpToRel
<1> HIDE DEF R
<1>2. PICK x \in T : \A y \in T : ~ (<<y, x>> \in R)
  BY <1>1, WFMin, Zenon
<1>3. \A z, y \in T : <<y, z>> \in R <=> y < z
  BY SMTT(30) DEF R
<1>4. ASSUME NEW y \in T PROVE x <= y
  <2>1. ~ (y < x)
    BY Zenon, <1>2, <1>3
  <2>2. x \in Int /\ y \in Int
    OBVIOUS
  <2> QED
    BY <2>1, <2>2
<1> QED
  BY <1>4

\* Induction, for a set in place of a predicate.
LEMMA SetInduction ==
  ASSUME NEW S, 0 \in S, \A n \in Nat : n \in S => n + 1 \in S
  PROVE  Nat \subseteq S
<1> SUFFICES ASSUME Nat \ S # {} PROVE FALSE
  OBVIOUS
<1>1. PICK x \in Nat \ S : \A y \in Nat \ S : x <= y
  BY Zenon, Least
<1>2. x # 0 /\ x - 1 \in Nat /\ ~(x <= x - 1) /\ x = (x - 1) + 1
  BY <1>1
<1>3. x - 1 \in S
  BY <1>1, <1>2
<1> QED
  BY <1>1, <1>2, <1>3

(* Concatenation.                                                              *)
LEMMA SeqConcat ==
  ASSUME NEW S, NEW s \in Seq(S), NEW t \in Seq(S)
  PROVE  /\ s \o t \in Seq(S) /\ Len(s \o t) = Len(s) + Len(t)
         /\ \A i \in 1 .. Len(s) : (s \o t)[i] = s[i]
         /\ \A i \in 1 .. Len(t) : (s \o t)[Len(s) + i] = t[i]
OBVIOUS

\* The members of a sequence.
LEMMA RangeFacts ==
  ASSUME NEW S, NEW q \in Seq(S)
  PROVE  /\ Range(q) \subseteq S
         /\ \A r : r \in Range(q) <=> \E i \in 1 .. Len(q) : r = q[i]
         /\ DOMAIN q = 1 .. Len(q)
BY DEF Range

\* A sequence with a member more.
LEMMA AppendRange ==
  ASSUME NEW S, NEW q \in Seq(S), NEW e \in S
  PROVE  Append(q, e) \in Seq(S) /\ Range(Append(q, e)) = Range(q) \union {e}
<1> PICK n \in Nat : n = Len(q) OBVIOUS
<1> PICK a : a = Append(q, e) BY Zenon
<1>1. a \in Seq(S) /\ Len(a) = n + 1 /\ a[n + 1] = e /\ \A i \in 1 .. n : a[i] = q[i]
  OBVIOUS
<1>2. \A i : i \in 1 .. n + 1 <=> i \in 1 .. n \/ i = n + 1 OBVIOUS
<1>3. \A r : /\ r \in Range(a) <=> \E i \in 1 .. n + 1 : r = a[i]
             /\ r \in Range(q) <=> \E i \in 1 .. n : r = q[i]
  <2>1. \A r : r \in Range(a) <=> \E i \in 1 .. Len(a) : r = a[i] BY ZenonT(30), <1>1, RangeFacts
  <2>2. \A r : r \in Range(q) <=> \E i \in 1 .. Len(q) : r = q[i] BY Zenon, RangeFacts
  <2>3. 1 .. Len(a) = 1 .. n + 1 /\ 1 .. Len(q) = 1 .. n BY <1>1
  <2> QED BY Zenon, <2>1, <2>2, <2>3
<1>4. \A r : (\E i \in 1 .. n + 1 : r = a[i]) <=> (\E i \in 1 .. n : r = a[i]) \/ r = a[n + 1]
  BY Zenon, <1>2
<1>5. \A r : (\E i \in 1 .. n : r = a[i]) <=> (\E i \in 1 .. n : r = q[i])
  BY Zenon, <1>1
<1>6. \A r : r \in Range(a) <=> r \in Range(q) \/ r = e
  <2> TAKE r
  <2>1. r = a[n + 1] <=> r = e BY Zenon, <1>1
  <2>2. r \in Range(a) <=> (\E i \in 1 .. n : r = a[i]) \/ r = a[n + 1]
    <3>1. r \in Range(a) <=> \E i \in 1 .. n + 1 : r = a[i] BY <1>3
    <3>2. (\E i \in 1 .. n + 1 : r = a[i]) <=> (\E i \in 1 .. n : r = a[i]) \/ r = a[n + 1] BY <1>4
    <3> QED BY <3>1, <3>2
  <2>3. r \in Range(q) <=> \E i \in 1 .. n : r = a[i]
    <3>1. r \in Range(q) <=> \E i \in 1 .. n : r = q[i] BY <1>3
    <3>2. (\E i \in 1 .. n : r = a[i]) <=> (\E i \in 1 .. n : r = q[i]) BY <1>5
    <3> QED BY <3>1, <3>2
  <2> QED BY Zenon, <2>1, <2>2, <2>3
<1>7. Range(a) = Range(q) \union {e} BY Zenon, <1>6
<1> QED BY Zenon, <1>1, <1>7

\* A sequence without its first member.
LEMMA TailRange ==
  ASSUME NEW S, NEW q \in Seq(S), Len(q) > 0
  PROVE  /\ Tail(q) \in Seq(S) /\ Head(q) \in S /\ Range(Tail(q)) \subseteq Range(q)
         /\ Range(q) \subseteq Range(Tail(q)) \union {Head(q)} /\ Head(q) \in Range(q)
<1> PICK n \in Nat : n = Len(q) OBVIOUS
<1> PICK a : a = Tail(q) BY Zenon
<1>1. /\ a \in Seq(S) /\ Head(q) \in S /\ Len(a) = n - 1 /\ Head(q) = q[1]
      /\ \A i \in 1 .. n - 1 : a[i] = q[i + 1]
  OBVIOUS
<1>2. /\ \A i \in 1 .. n - 1 : i + 1 \in 1 .. n
      /\ \A i \in 1 .. n : i = 1 \/ (i - 1 \in 1 .. n - 1 /\ (i - 1) + 1 = i)
      /\ 1 \in 1 .. n
  OBVIOUS
<1>3. \A r : /\ r \in Range(a) <=> \E i \in 1 .. n - 1 : r = a[i]
             /\ r \in Range(q) <=> \E i \in 1 .. n : r = q[i]
  <2>1. \A r : r \in Range(a) <=> \E i \in 1 .. Len(a) : r = a[i] BY ZenonT(30), <1>1, RangeFacts
  <2>2. \A r : r \in Range(q) <=> \E i \in 1 .. Len(q) : r = q[i] BY Zenon, RangeFacts
  <2> QED BY ZenonT(30), <1>1, <2>1, <2>2
<1>4. ASSUME NEW r \in Range(a) PROVE r \in Range(q)
  <2> PICK i \in 1 .. n - 1 : r = a[i] BY Zenon, <1>3
  <2> QED BY Zenon, <1>1, <1>2, <1>3
<1>5. ASSUME NEW r \in Range(q), r # Head(q) PROVE r \in Range(a)
  <2> PICK i \in 1 .. n : r = q[i] BY Zenon, <1>3
  <2>1. i # 1 BY Zenon, <1>1, <1>5
  <2>2. i - 1 \in 1 .. n - 1 /\ a[i - 1] = r BY Zenon, <1>1, <1>2, <2>1
  <2> QED BY Zenon, <1>3, <2>2
<1>6. Head(q) \in Range(q) BY Zenon, <1>1, <1>2, <1>3
<1> QED BY Zenon, <1>1, <1>4, <1>5, <1>6

\* A sequence without one of its members.
LEMMA RemoveRange ==
  ASSUME NEW S, NEW q \in Seq(S), NEW k \in 1 .. Len(q)
  PROVE  /\ removeAt(q, k) \in Seq(S) /\ Range(removeAt(q, k)) \subseteq Range(q)
         /\ Range(q) \subseteq Range(removeAt(q, k)) \union {q[k]} /\ q[k] \in Range(q)
<1> PICK n \in Nat : n = Len(q) OBVIOUS
<1> PICK a : a = removeAt(q, k) OBVIOUS
<1>0. k \in 1 .. n /\ k \in Nat OBVIOUS
<1> PICK u : u = SubSeq(q, 1, k - 1) BY Zenon
<1> PICK v : v = SubSeq(q, k + 1, n) BY Zenon
<1>a. u \in Seq(S) /\ Len(u) = k - 1 /\ \A i \in 1 .. k - 1 : u[i] = q[i]
  BY <1>0, SMTT(30)
<1>b. v \in Seq(S) /\ Len(v) = n - k /\ \A i \in 1 .. n - k : v[i] = q[i + k]
  BY <1>0, SMTT(30)
<1>c. a = u \o v BY Zenon DEF removeAt
<1>f. /\ a \in Seq(S) /\ Len(a) = (k - 1) + (n - k)
      /\ \A i \in 1 .. k - 1 : a[i] = u[i]
      /\ \A i \in 1 .. n - k : a[(k - 1) + i] = v[i]
  <2>1. /\ a \in Seq(S) /\ Len(a) = Len(u) + Len(v)
        /\ \A i \in 1 .. Len(u) : a[i] = u[i]
        /\ \A i \in 1 .. Len(v) : a[Len(u) + i] = v[i]
    <3>1. u \in Seq(S) /\ v \in Seq(S) BY Zenon, <1>a, <1>b
    <3>2. /\ u \o v \in Seq(S) /\ Len(u \o v) = Len(u) + Len(v)
          /\ \A i \in 1 .. Len(u) : (u \o v)[i] = u[i]
          /\ \A i \in 1 .. Len(v) : (u \o v)[Len(u) + i] = v[i]
      <4>1. \A s, t \in Seq(S) :
              /\ s \o t \in Seq(S) /\ Len(s \o t) = Len(s) + Len(t)
              /\ \A i \in 1 .. Len(s) : (s \o t)[i] = s[i]
              /\ \A i \in 1 .. Len(t) : (s \o t)[Len(s) + i] = t[i]
        BY SeqConcat
      <4> QED BY ZenonT(30), <3>1, <4>1
    <3> QED BY Zenon, <1>c, <3>2
  <2> QED BY Zenon, <1>a, <1>b, <2>1
<1>1. a \in Seq(S) /\ Len(a) = n - 1
  <2>1. (k - 1) + (n - k) = n - 1 BY <1>0
  <2> QED BY Zenon, <1>f, <2>1
<1>d. \A i \in 1 .. k - 1 : a[i] = q[i]
  BY Zenon, <1>a, <1>f
<1>e. \A i \in k .. n - 1 : a[i] = q[i + 1]
  <2> SUFFICES ASSUME NEW i \in k .. n - 1 PROVE a[i] = q[i + 1] OBVIOUS
  <2> PICK j : j = i - (k - 1) OBVIOUS
  <2>1. j \in 1 .. n - k /\ j + k = i + 1 /\ (k - 1) + j = i BY <1>0
  <2>2. a[(k - 1) + j] = v[j] /\ v[j] = q[j + k] BY Zenon, <1>b, <1>f, <2>1
  <2> QED BY Zenon, <2>1, <2>2
<1>2. /\ \A i \in 1 .. n - 1 : (i \in 1 .. k - 1 /\ i \in 1 .. n) \/ (i \in k .. n - 1 /\ i + 1 \in 1 .. n)
      /\ \A i \in 1 .. n : \/ i = k
                           \/ i \in 1 .. k - 1 /\ i \in 1 .. n - 1
                           \/ i - 1 \in k .. n - 1 /\ i - 1 \in 1 .. n - 1 /\ (i - 1) + 1 = i
  BY <1>0
<1>3. \A r : /\ r \in Range(a) <=> \E i \in 1 .. n - 1 : r = a[i]
             /\ r \in Range(q) <=> \E i \in 1 .. n : r = q[i]
  <2>1. \A r : r \in Range(a) <=> \E i \in 1 .. Len(a) : r = a[i] BY Zenon, <1>1, RangeFacts
  <2>2. \A r : r \in Range(q) <=> \E i \in 1 .. Len(q) : r = q[i] BY Zenon, RangeFacts
  <2> QED BY Zenon, <1>1, <2>1, <2>2
<1>4. ASSUME NEW r \in Range(a) PROVE r \in Range(q)
  <2> PICK i \in 1 .. n - 1 : r = a[i] BY Zenon, <1>3
  <2>1. (r = q[i] /\ i \in 1 .. n) \/ (r = q[i + 1] /\ i + 1 \in 1 .. n) BY Zenon, <1>d, <1>e, <1>2
  <2> QED BY Zenon, <2>1, <1>3
<1>5. ASSUME NEW r \in Range(q), r # q[k] PROVE r \in Range(a)
  <2> PICK i \in 1 .. n : r = q[i] BY Zenon, <1>3
  <2>1. \/ i \in 1 .. k - 1 /\ i \in 1 .. n - 1
        \/ i - 1 \in k .. n - 1 /\ i - 1 \in 1 .. n - 1 /\ (i - 1) + 1 = i
    BY Zenon, <1>2, <1>5
  <2>2. \E j \in 1 .. n - 1 : a[j] = r BY Zenon, <1>d, <1>e, <2>1
  <2> QED BY Zenon, <1>3, <2>2
<1>6. q[k] \in Range(q) BY Zenon, <1>3
<1> QED BY Zenon, <1>1, <1>4, <1>5, <1>6

\* A sequence whose members are rewritten in place.
LEMMA MapRange ==
  ASSUME NEW S, NEW q \in Seq(S), NEW a \in [DOMAIN q -> S]
  PROVE  /\ a \in Seq(S) /\ DOMAIN a = DOMAIN q
         /\ \A r : r \in Range(a) <=> \E i \in DOMAIN q : r = a[i]
<1>1. DOMAIN q = 1 .. Len(q) /\ Len(q) \in Nat OBVIOUS
<1>2. a \in [1 .. Len(q) -> S] BY <1>1
<1>3. a \in Seq(S) BY <1>1, <1>2
<1>4. DOMAIN a = DOMAIN q BY Zenon
<1> QED BY Zenon, <1>3, <1>4 DEF Range

\* Other routes to one network.
LEMMA Replace ==
  ASSUME NEW rs, NEW sd, NEW sd2, NEW dr, NEW dr2, NEW n \in Networks, NEW q,
         Cached(rs, sd, dr), Held(n, q, sd2[n], dr2),
         \A m \in Networks : m # n => sd2[m] = sd[m],
         \A m \in Networks, h \in Hops : m # n /\ <<m, h>> \in dr => <<m, h>> \in dr2
  PROVE  Cached([rs EXCEPT ![n] = q], sd2, dr2)
<1> PICK f : f = [rs EXCEPT ![n] = q] BY Zenon
<1>1. rs \in [Networks -> Seq(RouteRecord)] /\ q \in Seq(RouteRecord) BY Zenon DEF Cached, Held
<1>2. /\ f \in [Networks -> Seq(RouteRecord)] /\ f[n] = q
      /\ \A m \in Networks : m # n => f[m] = rs[m]
  BY Zenon, <1>1
<1>3. ASSUME NEW m \in Networks PROVE Held(m, f[m], sd2[m], dr2)
  <2>1. CASE m = n BY Zenon, <1>2, <2>1
  <2>2. CASE m # n
    <3>1. Held(m, rs[m], sd[m], dr) /\ f[m] = rs[m] /\ sd2[m] = sd[m] BY Zenon, <1>2, <2>2 DEF Cached
    <3>2. Held(m, f[m], sd2[m], dr) BY Zenon, <3>1
    <3> QED BY Zenon, <2>2, <3>2 DEF Held
  <2> QED BY Zenon, <2>1, <2>2
<1> QED BY Zenon, <1>2, <1>3 DEF Cached

\* A route is evicted.
LEMMA Shrink ==
  ASSUME NEW n, NEW q, NEW p, NEW s \in [Hops -> Saying], NEW dr, NEW r,
         Held(n, q, s, dr), p \in Seq(RouteRecord), Range(p) \subseteq Range(q),
         Range(q) \subseteq Range(p) \union {r}, r \in Range(q)
  PROVE  Held(n, p, s, dr \union Loss(n, r))
<1>1. \A x \in Range(p) : Agrees(x, s[x.hop]) BY Zenon DEF Held
<1>2. Agrees(r, s[r.hop]) BY Zenon DEF Held
<1>3. ASSUME NEW h \in Hops, s[h].age <= RouteTTL
      PROVE  <<n, h>> \in dr \union Loss(n, r) \/ \E x \in Range(p) : x.hop = h
  <2>1. CASE <<n, h>> \in dr BY Zenon, <2>1
  <2>2. ASSUME NEW x \in Range(q), x.hop = h
        PROVE  <<n, h>> \in dr \union Loss(n, r) \/ \E y \in Range(p) : y.hop = h
    <3>1. CASE x \in Range(p) BY Zenon, <2>2, <3>1
    <3>2. CASE x = r
      <4>1. s[h].age \in Int /\ RouteTTL \in Int BY DirectoryAssumption DEF Saying
      <4>2. ~(s[h].age > RouteTTL) BY <1>3, <4>1
      <4>3. s[r.hop] = s[h] BY Zenon, <2>2, <3>2
      <4>4. ~Stale(r) BY Zenon, <1>2, <4>2, <4>3 DEF Agrees, Stale
      <4> QED BY Zenon, <2>2, <3>2, <4>4 DEF Loss
    <3> QED BY Zenon, <3>1, <3>2
  <2> QED BY Zenon, <1>3, <2>1, <2>2 DEF Held
<1> QED BY Zenon, <1>1, <1>3 DEF Held

\* enforceGlobal evicts at most one route, and the history notes it.
LEMMA EnforceGlobalKeeps ==
  ASSUME NEW rs, NEW sd \in [Networks -> [Hops -> Saying]], NEW dr, Cached(rs, sd, dr),
         NEW g \in enforceGlobal(rs)
  PROVE  Cached(g.routes, sd, dr \union g.lost)
<1>1. CASE g = [routes |-> rs, lost |-> {}]
  <2>1. g.routes = rs /\ g.lost = {} BY Zenon, <1>1
  <2>2. dr \union g.lost = dr BY Zenon, <2>1
  <2> QED BY Zenon, <2>1, <2>2
<1>2. ASSUME NEW n \in Networks, NEW k \in DOMAIN rs[n],
             g = [routes |-> [rs EXCEPT ![n] = removeAt(@, k)], lost |-> Loss(n, rs[n][k])]
      PROVE  Cached(g.routes, sd, dr \union g.lost)
  <2>1. g.routes = [rs EXCEPT ![n] = removeAt(rs[n], k)] /\ g.lost = Loss(n, rs[n][k])
    <3>1. rs \in [Networks -> Seq(RouteRecord)] BY Zenon DEF Cached
    <3>2. [rs EXCEPT ![n] = removeAt(@, k)] = [rs EXCEPT ![n] = removeAt(rs[n], k)] BY Zenon, <3>1
    <3> QED BY Zenon, <1>2, <3>2
  <2>2. Held(n, rs[n], sd[n], dr) /\ rs[n] \in Seq(RouteRecord) BY Zenon DEF Cached
  <2>3. k \in 1 .. Len(rs[n]) BY Zenon, <1>2, <2>2, RangeFacts
  <2>4. /\ removeAt(rs[n], k) \in Seq(RouteRecord) /\ Range(removeAt(rs[n], k)) \subseteq Range(rs[n])
        /\ Range(rs[n]) \subseteq Range(removeAt(rs[n], k)) \union {rs[n][k]} /\ rs[n][k] \in Range(rs[n])
    BY Zenon, <2>2, <2>3, RemoveRange
  <2>5. Held(n, removeAt(rs[n], k), sd[n], dr \union Loss(n, rs[n][k]))
    <3>1. sd[n] \in [Hops -> Saying] BY Zenon
    <3> QED BY Zenon, <2>2, <2>4, <3>1, Shrink
  <2>6. Cached([rs EXCEPT ![n] = removeAt(rs[n], k)], sd, dr \union Loss(n, rs[n][k]))
    BY Zenon, <2>5, Replace
  <2> QED BY Zenon, <2>1, <2>6
<1>3. \/ g = [routes |-> rs, lost |-> {}]
      \/ \E x \in Slots(rs) :
           g = [routes |-> [rs EXCEPT ![x[1]] = removeAt(@, x[2])], lost |-> Loss(x[1], rs[x[1]][x[2]])]
  BY Zenon DEF enforceGlobal
<1>4. ASSUME NEW x \in Slots(rs) PROVE x[1] \in Networks /\ x[2] \in DOMAIN rs[x[1]]
  <2> PICK n \in Networks : x \in {n} \X DOMAIN rs[n] BY Zenon DEF Slots
  <2>1. x[1] = n /\ x[2] \in DOMAIN rs[n] BY Zenon
  <2> QED BY Zenon, <2>1
<1> QED BY Zenon, <1>1, <1>2, <1>3, <1>4

\* A route is learned.
LEMMA LearnKeeps ==
  ASSUME NEW n \in Networks, NEW h \in Hops, RouteInv, ~Knows(n, h),
         NEW sd, sd = [said EXCEPT ![n][h] = [free |-> TRUE, age |-> 0]]
  PROVE  Held(n, Append(routes[n], Route(h)), sd[n], dropped \ {<<n, h>>})
<1> PICK q : q = routes[n] OBVIOUS
<1> PICK s : s = sd[n] OBVIOUS
<1>0. said \in [Networks -> [Hops -> Saying]] /\ RouteTTL \in Nat
  BY Zenon, DirectoryAssumption DEF RouteInv
<1>1. q \in Seq(RouteRecord) /\ Held(n, q, said[n], dropped)
  BY Zenon DEF RouteInv, Cached
<1>2. /\ s[h] = [free |-> TRUE, age |-> 0]
      /\ \A x \in Hops : x # h => s[x] = said[n][x]
  BY <1>0
<1>3. Route(h) \in RouteRecord BY <1>0 DEF Route, RouteRecord
<1> PICK a : a = Append(q, Route(h)) BY Zenon
<1>4. a \in Seq(RouteRecord) /\ Range(a) = Range(q) \union {Route(h)}
  <2>1. \A e \in RouteRecord :
          Append(q, e) \in Seq(RouteRecord) /\ Range(Append(q, e)) = Range(q) \union {e}
    BY Zenon, <1>1, AppendRange
  <2> QED BY Zenon, <1>3, <2>1
<1>5. \A r \in Range(q) : r.hop # h /\ r.hop \in Hops
  <2>1. \A r \in Range(q) : \E i \in DOMAIN q : r = q[i] BY Zenon DEF Range
  <2>2. \A r \in Range(q) : r \in RouteRecord BY Zenon, <1>1, RangeFacts
  <2>3. \A r \in RouteRecord : r.hop \in Hops BY Zenon DEF RouteRecord
  <2> QED BY Zenon, <2>1, <2>2, <2>3 DEF Knows
<1>6. Agrees(Route(h), s[Route(h).hop])
  <2>1. Route(h).hop = h BY Zenon DEF Route
  <2>2. s[Route(h).hop] = [free |-> TRUE, age |-> 0] BY Zenon, <1>2, <2>1
  <2>3. Agrees(Route(h), [free |-> TRUE, age |-> 0]) BY <1>0 DEF Agrees, Route
  <2> QED BY Zenon, <2>2, <2>3
<1>7. ASSUME NEW r \in Range(q) PROVE Agrees(r, s[r.hop])
  <2>1. s[r.hop] = said[n][r.hop] BY Zenon, <1>2, <1>5
  <2>2. Agrees(r, said[n][r.hop]) BY Zenon, <1>1 DEF Held
  <2> QED BY Zenon, <2>1, <2>2
<1>8. ASSUME NEW x \in Hops, s[x].age <= RouteTTL
      PROVE  <<n, x>> \in dropped \ {<<n, h>>} \/ \E r \in Range(a) : r.hop = x
  <2>1. CASE x = h
    <3>1. Route(h).hop = h BY Zenon DEF Route
    <3> QED BY Zenon, <1>4, <2>1, <3>1
  <2>2. CASE x # h
    <3>1. said[n][x].age <= RouteTTL BY Zenon, <1>2, <1>8, <2>2
    <3>2. <<n, x>> \in dropped \/ \E r \in Range(q) : r.hop = x BY Zenon, <1>1, <3>1 DEF Held
    <3>3. <<n, x>> # <<n, h>> BY Zenon, <2>2
    <3> QED BY Zenon, <1>4, <3>2, <3>3
  <2> QED BY Zenon, <2>1, <2>2
<1>9. \A r \in Range(a) : Agrees(r, s[r.hop]) BY Zenon, <1>4, <1>6, <1>7
<1> QED BY Zenon, <1>4, <1>8, <1>9 DEF Held

\* upsertLearned: the route learned, and those evicted to make room.
LEMMA UpsertKeeps ==
  ASSUME NEW n \in Networks, NEW h \in Hops, RouteInv, ~Knows(n, h), upsertLearned(n, h),
         said' = [said EXCEPT ![n][h] = [free |-> TRUE, age |-> 0]]
  PROVE  Cached(routes', said', dropped')
<1> PICK sd : sd = said' OBVIOUS
<1> PICK all : all = Append(routes[n], Route(h)) BY Zenon
<1> PICK dr : dr = dropped \ {<<n, h>>} BY Zenon
<1> PICK over : over = (Len(all) > MaxPerNet) OBVIOUS
<1> PICK q : q = IF over THEN Tail(all) ELSE all BY Zenon
<1> PICK extra : extra = IF over THEN Loss(n, Head(all)) ELSE {} BY Zenon
<1>0. /\ said \in [Networks -> [Hops -> Saying]] /\ RouteTTL \in Nat /\ MaxPerNet \in Nat
      /\ Cached(routes, said, dropped)
  BY Zenon, DirectoryAssumption DEF RouteInv
<1>1. /\ sd \in [Networks -> [Hops -> Saying]]
      /\ \A m \in Networks : m # n => sd[m] = said[m]
  <2>1. [free |-> TRUE, age |-> 0] \in Saying BY <1>0 DEF Saying
  <2> QED BY <1>0, <2>1
<1>2. PICK g \in enforceGlobal([routes EXCEPT ![n] = q]) :
        routes' = g.routes /\ dropped' = dr \union g.lost \union extra
  BY Zenon DEF upsertLearned
<1>3. Held(n, all, sd[n], dr) BY Zenon, LearnKeeps
<1>4. Held(n, q, sd[n], dr \union extra)
  <2>1. CASE ~over
    <3>1. q = all /\ dr \union extra = dr BY Zenon, <2>1
    <3> QED BY Zenon, <1>3, <3>1
  <2>2. CASE over
    <3>1. q = Tail(all) /\ extra = Loss(n, Head(all)) BY Zenon, <2>2
    <3>2. all \in Seq(RouteRecord) BY Zenon, <1>3 DEF Held
    <3>3. Len(all) > 0
      <4>1. Len(all) > MaxPerNet BY Zenon, <2>2
      <4>2. Len(all) \in Nat BY <3>2
      <4> QED BY <1>0, <4>1, <4>2
    <3>4. /\ Tail(all) \in Seq(RouteRecord) /\ Range(Tail(all)) \subseteq Range(all)
          /\ Range(all) \subseteq Range(Tail(all)) \union {Head(all)} /\ Head(all) \in Range(all)
      BY Zenon, <3>2, <3>3, TailRange
    <3>5. sd[n] \in [Hops -> Saying] BY Zenon, <1>1
    <3>6. Held(n, Tail(all), sd[n], dr \union Loss(n, Head(all))) BY Zenon, <1>3, <3>4, <3>5, Shrink
    <3> QED BY Zenon, <3>1, <3>6
  <2> QED BY Zenon, <2>1, <2>2
<1>5. Cached([routes EXCEPT ![n] = q], sd, dr \union extra)
  <2>1. \A m \in Networks, x \in Hops : m # n /\ <<m, x>> \in dropped => <<m, x>> \in dr \union extra
    BY Zenon
  <2> QED BY Zenon, <1>0, <1>1, <1>4, <2>1, Replace
<1>6. Cached(g.routes, sd, (dr \union extra) \union g.lost)
  BY Zenon, <1>1, <1>2, <1>5, EnforceGlobalKeeps
<1>7. dr \union g.lost \union extra = (dr \union extra) \union g.lost BY Zenon
<1> QED BY Zenon, <1>2, <1>6, <1>7

\* The routes through a hop are marked anew.
LEMMA RemarkKeeps ==
  ASSUME NEW n \in Networks, NEW h \in Hops, RouteInv, NEW v \in Saying,
         NEW a \in [DOMAIN routes[n] -> RouteRecord],
         said' = [said EXCEPT ![n][h] = v],
         \A i \in DOMAIN routes[n] : IF routes[n][i].hop = h
                                     THEN a[i].hop = h /\ Agrees(a[i], v)
                                     ELSE a[i] = routes[n][i],
         v.age <= RouteTTL => Knows(n, h) \/ v = said[n][h]
  PROVE  Cached([routes EXCEPT ![n] = a], said', dropped)
<1> PICK q : q = routes[n] OBVIOUS
<1> PICK s : s = said'[n] BY Zenon
<1>0. said \in [Networks -> [Hops -> Saying]] /\ Cached(routes, said, dropped)
  BY Zenon DEF RouteInv
<1>1. q \in Seq(RouteRecord) /\ Held(n, q, said[n], dropped) BY Zenon, <1>0 DEF Cached
<1>2. /\ s[h] = v /\ \A x \in Hops : x # h => s[x] = said[n][x]
      /\ \A m \in Networks : m # n => said'[m] = said[m]
  BY Zenon, <1>0
<1>3. \A i \in DOMAIN q : q[i] \in RouteRecord /\ q[i] \in Range(q) /\ q[i].hop \in Hops
  <2>1. \A i \in DOMAIN q : q[i] \in RouteRecord BY <1>1
  <2>2. \A r \in RouteRecord : r.hop \in Hops BY Zenon DEF RouteRecord
  <2>3. \A i \in DOMAIN q : q[i] \in Range(q) BY Zenon DEF Range
  <2> QED BY Zenon, <2>1, <2>2, <2>3
<1>4. \A i \in DOMAIN q : a[i] \in RouteRecord /\ a[i].hop = q[i].hop BY Zenon, <1>3
<1>5. /\ a \in Seq(RouteRecord)
      /\ \A r : r \in Range(a) <=> \E i \in DOMAIN q : r = a[i]
  <2>1. a \in [DOMAIN q -> RouteRecord] BY Zenon
  <2>2. \A f \in [DOMAIN q -> RouteRecord] :
          f \in Seq(RouteRecord) /\ \A r : r \in Range(f) <=> \E i \in DOMAIN q : r = f[i]
    BY <1>1, MapRange
  <2> QED BY Zenon, <2>1, <2>2
<1>6. ASSUME NEW i \in DOMAIN q PROVE Agrees(a[i], s[a[i].hop])
  <2>1. CASE q[i].hop = h BY ZenonT(30), <1>2, <2>1
  <2>2. CASE q[i].hop # h
    <3>1. a[i] = q[i] /\ s[q[i].hop] = said[n][q[i].hop] BY Zenon, <1>2, <1>3, <2>2
    <3>2. Agrees(q[i], said[n][q[i].hop]) BY Zenon, <1>1, <1>3 DEF Held
    <3> QED BY Zenon, <3>1, <3>2
  <2> QED BY Zenon, <2>1, <2>2
<1>7. ASSUME NEW x \in Hops, s[x].age <= RouteTTL
      PROVE  <<n, x>> \in dropped \/ \E r \in Range(a) : r.hop = x
  <2>1. (x = h /\ Knows(n, h)) \/ said[n][x].age <= RouteTTL BY Zenon, <1>2, <1>7
  <2>2. <<n, x>> \in dropped \/ \E i \in DOMAIN q : q[i].hop = x
    <3>1. said[n][x].age <= RouteTTL => <<n, x>> \in dropped \/ \E r \in Range(q) : r.hop = x
      BY Zenon, <1>1 DEF Held
    <3>2. (\E r \in Range(q) : r.hop = x) => \E i \in DOMAIN q : q[i].hop = x BY Zenon DEF Range
    <3> QED BY Zenon, <2>1, <3>1, <3>2 DEF Knows
  <2>3. ASSUME NEW i \in DOMAIN q, q[i].hop = x PROVE \E r \in Range(a) : r.hop = x
    <3>1. a[i] \in Range(a) BY Zenon, <1>5
    <3>2. a[i].hop = x BY Zenon, <1>4, <2>3
    <3> QED BY Zenon, <3>1, <3>2
  <2> QED BY Zenon, <2>2, <2>3
<1>8. ASSUME NEW r \in Range(a) PROVE Agrees(r, s[r.hop])
  <2> PICK i \in DOMAIN q : r = a[i] BY Zenon, <1>5
  <2> QED BY Zenon, <1>6
<1>9. Held(n, a, s, dropped) BY Zenon, <1>5, <1>7, <1>8 DEF Held
<1> QED BY Zenon, <1>0, <1>2, <1>9, Replace

\* A hop that said nothing.
LEMMA Silent ==
  Silence \in Saying /\ Silence.age > RouteTTL /\ ~(Silence.age <= RouteTTL) /\ ~Silence.free
  /\ 0 \in 0 .. RouteTTL + 1 /\ ~(0 > RouteTTL)
<1>1. RouteTTL \in Nat BY DirectoryAssumption
<1> QED BY <1>1 DEF Silence, Saying

\* A network message from a hop (handleNetworkMessage).
LEMMA MessageKeeps ==
  ASSUME NEW n \in Networks, NEW h \in Hops, NEW msg \in {"iam", "busy", "available", "reject"},
         RouteInv, handleNetworkMessage(n, h, msg)
  PROVE  said' \in [Networks -> [Hops -> Saying]] /\ Cached(routes', said', dropped')
<1>v. PICK v : v = IF msg = "reject" THEN Silence
                 ELSE IF msg = "iam" \/ Knows(n, h) THEN [free |-> msg # "busy", age |-> 0]
                 ELSE said[n][h]
  BY Zenon
<1> PICK q : q = routes[n] OBVIOUS
<1>0. /\ said \in [Networks -> [Hops -> Saying]] /\ RouteTTL \in Nat /\ BusyTime \in Nat
      /\ Cached(routes, said, dropped)
  BY Zenon, DirectoryAssumption DEF RouteInv
<1>1. said' = [said EXCEPT ![n][h] = v]
  BY Zenon, <1>v, <1>0 DEF handleNetworkMessage
<1>2. v \in Saying
  <2>1. Silence \in Saying BY Zenon, Silent
  <2>2. [free |-> TRUE, age |-> 0] \in Saying /\ [free |-> FALSE, age |-> 0] \in Saying
    BY <1>0 DEF Saying
  <2>3. (msg # "busy") = TRUE \/ (msg # "busy") = FALSE BY Zenon
  <2>4. said[n][h] \in Saying BY Zenon, <1>0
  <2> QED BY Zenon, <1>v, <2>1, <2>2, <2>3, <2>4
<1>3. said' \in [Networks -> [Hops -> Saying]] BY <1>0, <1>1, <1>2
<1>4. routes \in [Networks -> Seq(RouteRecord)] /\ q \in Seq(RouteRecord) BY Zenon, <1>0 DEF Cached
<1>5. \A i \in DOMAIN q : q[i] \in RouteRecord BY <1>4
<1>6. CASE msg = "iam" /\ ~Knows(n, h)
  <2>1. upsertLearned(n, h) BY Zenon, <1>6 DEF handleNetworkMessage
  <2>2. v = [free |-> TRUE, age |-> 0]
    <3>1. "iam" # "reject" /\ "iam" # "busy" OBVIOUS
    <3>2. (msg # "busy") = TRUE BY Zenon, <1>6, <3>1
    <3>3. v = [free |-> msg # "busy", age |-> 0] BY Zenon, <1>v, <1>6, <3>1
    <3> QED BY Zenon, <3>2, <3>3
  <2>3. said' = [said EXCEPT ![n][h] = [free |-> TRUE, age |-> 0]] BY Zenon, <1>1, <2>2
  <2> QED BY Zenon, <1>3, <1>6, <2>1, <2>3, UpsertKeeps
<1>7. CASE msg = "iam" /\ Knows(n, h)
  <2> PICK a : a = [i \in DOMAIN q |-> IF q[i].hop = h THEN Route(h) ELSE q[i]] BY Zenon
  <2>1. routes' = [routes EXCEPT ![n] = a] /\ dropped' = dropped
    <3>1. upsertLearned(n, h) BY Zenon, <1>7 DEF handleNetworkMessage
    <3> QED BY Zenon, <1>4, <1>7, <3>1 DEF upsertLearned
  <2>2. v.age = 0 /\ v.free = TRUE BY Zenon, <1>v, <1>7
  <2>3. Route(h) \in RouteRecord /\ Route(h).hop = h /\ Agrees(Route(h), v)
    BY <1>0, <2>2 DEF Route, RouteRecord, Agrees
  <2>4. \A i \in DOMAIN q : IF q[i].hop = h
                            THEN a[i].hop = h /\ Agrees(a[i], v)
                            ELSE a[i] = q[i]
    BY Zenon, <2>3
  <2>5. a \in [DOMAIN q -> RouteRecord]
    <3>1. \A i \in DOMAIN q : (IF q[i].hop = h THEN Route(h) ELSE q[i]) \in RouteRecord BY Zenon, <1>5, <2>3
    <3> QED BY Zenon, <3>1
  <2>6. Cached([routes EXCEPT ![n] = a], said', dropped)
    BY ZenonT(30), <1>1, <1>2, <1>7, <2>4, <2>5, RemarkKeeps
  <2> QED BY Zenon, <1>3, <2>1, <2>6
<1>8. ASSUME NEW st \in {"busy", "available", "rejected"}, markRoute(n, h, st),
             msg = IF st = "rejected" THEN "reject" ELSE st
      PROVE  Cached(routes', said', dropped')
  <2> PICK a : a = [i \in DOMAIN q |-> IF q[i].hop = h THEN marked(q[i], st) ELSE q[i]]
    BY Zenon
  <2>1. routes' = [routes EXCEPT ![n] = a] /\ dropped' = dropped
    BY Zenon, <1>4, <1>8 DEF markRoute
  <2>2. ASSUME NEW r \in RouteRecord, r.hop = h, Knows(n, h)
        PROVE  marked(r, st) \in RouteRecord /\ marked(r, st).hop = h /\ Agrees(marked(r, st), v)
    <3>1. marked(r, st) \in RouteRecord
      <4>1. r.busy \in BOOLEAN BY Zenon DEF RouteRecord
      <4>2. (IF st = "rejected" THEN r.busy ELSE st = "busy") \in BOOLEAN BY Zenon, <4>1
      <4>3. r.hop \in Hops /\ 0 \in 0 .. RouteTTL + 1 BY <2>2, Silent
      <4>4. st \in {"available", "busy", "rejected", "expired"} BY Zenon
      <4> QED BY Zenon, <4>2, <4>3, <4>4 DEF marked, RouteRecord
    <3>2. marked(r, st).hop = h /\ marked(r, st).age = 0 /\ marked(r, st).state = st
      BY Zenon, <2>2 DEF marked
    <3> PICK e : e = marked(r, st) OBVIOUS
    <3>3. ~(e.age > RouteTTL) /\ e.state = st /\ e.age = 0
      <4>1. ~(0 > RouteTTL) BY Zenon, Silent
      <4> QED BY Zenon, <3>2, <4>1
    <3>5. CASE st = "rejected"
      <4>1. v = Silence BY Zenon, <1>v, <1>8, <3>5
      <4>3. v.age > RouteTTL BY Zenon, <4>1, Silent
      <4>4. Agrees(e, v) BY Zenon, <3>3, <3>5, <4>3 DEF Agrees
      <4> QED BY Zenon, <3>1, <3>2, <4>4
    <3>6. CASE st = "busy"
      <4>0. "busy" # "rejected" /\ "busy" # "reject" OBVIOUS
      <4>1. v = [free |-> msg # "busy", age |-> 0] /\ msg = "busy" BY Zenon, <1>v, <1>8, <2>2, <3>6, <4>0
      <4>2. v.age = 0 /\ ~v.free BY Zenon, <4>1
      <4>3. marked(r, st).busy BY Zenon, <3>6, <4>0 DEF marked
      <4>4. Agrees(e, v) BY Zenon, <3>3, <3>6, <4>2, <4>3 DEF Agrees
      <4> QED BY Zenon, <3>1, <3>2, <4>4
    <3>7. CASE st = "available"
      <4>0. "available" # "rejected" /\ "available" # "reject" /\ "available" # "busy" OBVIOUS
      <4>1. v = [free |-> msg # "busy", age |-> 0] /\ msg = "available"
        BY Zenon, <1>v, <1>8, <2>2, <3>7, <4>0
      <4>2. v.age = 0 /\ v.free BY Zenon, <4>0, <4>1
      <4>4. Agrees(e, v) BY Zenon, <3>3, <3>7, <4>2 DEF Agrees
      <4> QED BY Zenon, <3>1, <3>2, <4>4
    <3> QED BY Zenon, <3>1, <3>2, <3>5, <3>6, <3>7
  <2>3. \A i \in DOMAIN q : IF q[i].hop = h
                            THEN a[i].hop = h /\ Agrees(a[i], v)
                            ELSE a[i] = q[i]
    BY Zenon, <1>5, <2>2 DEF Knows
  <2>4. a \in [DOMAIN q -> RouteRecord]
    <3>1. \A i \in DOMAIN q : (IF q[i].hop = h THEN marked(q[i], st) ELSE q[i]) \in RouteRecord
      BY Zenon, <1>5, <2>2 DEF Knows
    <3> QED BY Zenon, <3>1
  <2>5. v.age <= RouteTTL => Knows(n, h) \/ v = said[n][h]
    <3>1. ~(Silence.age <= RouteTTL) BY Zenon, Silent
    <3>2. st # "rejected" => msg # "reject" /\ msg # "iam" BY <1>8
    <3>3. st = "rejected" => msg = "reject" BY Zenon, <1>8
    <3> QED BY Zenon, <1>v, <3>1, <3>2, <3>3
  <2>6. Cached([routes EXCEPT ![n] = a], said', dropped)
    <3> HIDE <1>8
    <3>1. a \in [DOMAIN routes[n] -> RouteRecord] BY Zenon, <2>4
    <3>2. \A i \in DOMAIN routes[n] : IF routes[n][i].hop = h
                                      THEN a[i].hop = h /\ Agrees(a[i], v)
                                      ELSE a[i] = routes[n][i]
      BY Zenon, <2>3
    <3> QED BY Zenon, <1>1, <1>2, <2>5, <3>1, <3>2, RemarkKeeps
  <2> QED BY Zenon, <2>1, <2>6
<1>9. CASE msg # "iam"
  <2>1. \/ msg = "busy" /\ markRoute(n, h, "busy")
        \/ msg = "available" /\ markRoute(n, h, "available")
        \/ msg = "reject" /\ markRoute(n, h, "rejected")
    BY Zenon, <1>9 DEF handleNetworkMessage, markBusy, markAvailable, markRejected
  <2>2. "busy" # "rejected" /\ "available" # "rejected" OBVIOUS
  <2> QED BY Zenon, <1>3, <1>8, <2>1, <2>2
<1> QED BY Zenon, <1>6, <1>7, <1>9

\* refresh shows a route as what its hop said last makes it.
LEMMA Refreshed ==
  ASSUME NEW r \in RouteRecord, NEW s \in Saying, Agrees(r, s)
  PROVE  /\ refresh(r) \in RouteRecord /\ refresh(r).hop = r.hop /\ Agrees(refresh(r), s)
         /\ refresh(r).state = "available" => s.age <= RouteTTL /\ (s.free \/ s.age >= BusyTime)
         /\ s.age <= RouteTTL /\ (s.free \/ s.age >= BusyTime) => refresh(r).state = "available"
<1> PICK e : e = refresh(r) OBVIOUS
<1>0. /\ RouteTTL \in Nat /\ BusyTime \in Nat /\ r.age \in Nat /\ s.age \in Nat
      /\ r.hop \in Hops /\ r.age \in 0 .. RouteTTL + 1 /\ s.age \in 0 .. RouteTTL + 1
      /\ r.state \in {"available", "busy", "rejected", "expired"} /\ r.busy \in BOOLEAN
  BY DirectoryAssumption DEF RouteRecord, Saying
<1>1. CASE Stale(r)
  <2>1. e = [r EXCEPT !.state = "expired"] BY Zenon, <1>1 DEF refresh
  <2>2. e \in RouteRecord /\ e.hop = r.hop /\ e.age = r.age /\ e.state = "expired"
    BY <2>1 DEF RouteRecord
  <2>3. r.age > RouteTTL /\ s.age > RouteTTL BY Zenon, <1>1 DEF Stale, Agrees
  <2>4. Agrees(e, s) BY Zenon, <2>2, <2>3 DEF Agrees
  <2>5. e.state # "available" /\ ~(s.age <= RouteTTL) BY <1>0, <2>2, <2>3
  <2> QED BY Zenon, <2>2, <2>4, <2>5
<1>2. CASE ~Stale(r) /\ r.state = "busy" /\ r.busy /\ r.age >= BusyTime
  <2>1. e = [r EXCEPT !.state = "available", !.busy = FALSE] BY Zenon, <1>2 DEF refresh
  <2>2. e \in RouteRecord /\ e.hop = r.hop /\ e.age = r.age /\ e.state = "available"
    BY Zenon, <2>1 DEF RouteRecord
  <2>3. ~(r.age > RouteTTL) /\ s.age = r.age
    <3>1. "busy" # "available" /\ "busy" # "rejected" OBVIOUS
    <3> QED BY Zenon, <1>2, <3>1 DEF Stale, Agrees
  <2>4. Agrees(e, s) BY Zenon, <1>2, <2>2, <2>3 DEF Agrees
  <2>5. s.age <= RouteTTL /\ s.age >= BusyTime BY <1>0, <1>2, <2>3
  <2> QED BY Zenon, <2>2, <2>4, <2>5
<1>3. CASE ~Stale(r) /\ ~(r.state = "busy" /\ r.busy /\ r.age >= BusyTime)
  <2>1. e = r BY Zenon, <1>3 DEF refresh
  <2>2. ~(r.age > RouteTTL) /\ r.age <= RouteTTL BY <1>0, <1>3 DEF Stale
  <2>3. CASE r.state = "available" /\ s.age = r.age /\ (s.free \/ r.age >= BusyTime)
    BY Zenon, <2>1, <2>2, <2>3
  <2>4. CASE r.state = "busy" /\ r.busy /\ s.age = r.age /\ ~s.free
    <3>1. "busy" # "available" OBVIOUS
    <3>2. ~(s.age >= BusyTime) BY Zenon, <1>3, <2>4
    <3> QED BY Zenon, <2>1, <2>4, <3>1, <3>2
  <2>5. CASE r.state = "rejected" /\ s.age > RouteTTL
    <3>1. "rejected" # "available" OBVIOUS
    <3>2. ~(s.age <= RouteTTL) BY <1>0, <2>5
    <3> QED BY Zenon, <2>1, <2>5, <3>1, <3>2
  <2> QED BY Zenon, <2>2, <2>3, <2>4, <2>5 DEF Agrees
<1> QED BY Zenon, <1>1, <1>2, <1>3

\* A target is resolved: the first available route.
LEMMA SelectKeeps ==
  ASSUME NEW n \in Networks, RouteInv, ResolveTarget(n)
  PROVE  RouteInv'
<1> PICK q : q = routes[n] OBVIOUS
<1> PICK s : s = said[n] OBVIOUS
<1> DEFINE a == [i \in DOMAIN routes[n] |-> refresh(routes[n][i])]
<1> DEFINE free == {i \in DOMAIN a : a[i].state = "available"}
<1>3. /\ routes' = [routes EXCEPT ![n] = a] /\ said' = said /\ dropped' = dropped
      /\ chosen' = <<n, IF free = {} THEN "none"
                        ELSE a[CHOOSE i \in free : \A j \in free : i <= j].hop>>
  BY Zenon DEF ResolveTarget, selectNextHop
<1>a. a = [i \in DOMAIN q |-> refresh(q[i])] BY Zenon
<1>b. free = {i \in DOMAIN a : a[i].state = "available"} BY Zenon
<1> HIDE DEF a, free
<1>0. /\ said \in [Networks -> [Hops -> Saying]] /\ RouteTTL \in Nat
      /\ Cached(routes, said, dropped)
  BY Zenon, DirectoryAssumption DEF RouteInv
<1>1. /\ routes \in [Networks -> Seq(RouteRecord)] /\ q \in Seq(RouteRecord)
      /\ Held(n, q, s, dropped) /\ s \in [Hops -> Saying]
  BY Zenon, <1>0 DEF Cached
<1>2. \A i \in DOMAIN q : q[i] \in RouteRecord /\ q[i].hop \in Hops /\ Agrees(q[i], s[q[i].hop])
  <2>1. \A i \in DOMAIN q : q[i] \in RouteRecord BY <1>1
  <2>2. \A r \in RouteRecord : r.hop \in Hops BY Zenon DEF RouteRecord
  <2>3. \A i \in DOMAIN q : q[i] \in Range(q) BY Zenon DEF Range
  <2> QED BY Zenon, <1>1, <2>1, <2>2, <2>3 DEF Held
<1>4. DOMAIN a = DOMAIN q /\ \A i \in DOMAIN q : a[i] = refresh(q[i]) BY Zenon, <1>a
<1>5. ASSUME NEW i \in DOMAIN q
      PROVE  /\ a[i] \in RouteRecord /\ a[i].hop = q[i].hop /\ Agrees(a[i], s[q[i].hop])
             /\ a[i].state = "available" <=> Usable(n, q[i].hop)
  <2> PICK r : r = q[i] OBVIOUS
  <2>1. r \in RouteRecord /\ s[r.hop] \in Saying /\ Agrees(r, s[r.hop]) BY Zenon, <1>1, <1>2
  <2>2. /\ refresh(r) \in RouteRecord /\ refresh(r).hop = r.hop /\ Agrees(refresh(r), s[r.hop])
        /\ refresh(r).state = "available" =>
             s[r.hop].age <= RouteTTL /\ (s[r.hop].free \/ s[r.hop].age >= BusyTime)
        /\ s[r.hop].age <= RouteTTL /\ (s[r.hop].free \/ s[r.hop].age >= BusyTime) =>
             refresh(r).state = "available"
    BY Zenon, <2>1, Refreshed
  <2> QED BY Zenon, <1>4, <2>2 DEF Usable
<1>6. a \in [DOMAIN q -> RouteRecord]
  <2>1. \A i \in DOMAIN q : refresh(q[i]) \in RouteRecord BY Zenon, <1>4, <1>5
  <2> QED BY Zenon, <1>a, <2>1
<1>7. a \in Seq(RouteRecord) /\ \A r : r \in Range(a) <=> \E i \in DOMAIN q : r = a[i]
  <2>1. \A f \in [DOMAIN q -> RouteRecord] :
          f \in Seq(RouteRecord) /\ \A r : r \in Range(f) <=> \E i \in DOMAIN q : r = f[i]
    BY <1>1, MapRange
  <2> QED BY Zenon, <1>6, <2>1
<1>8. Held(n, a, s, dropped)
  <2>1. ASSUME NEW r \in Range(a) PROVE Agrees(r, s[r.hop])
    <3> PICK i \in DOMAIN q : r = a[i] BY Zenon, <1>7
    <3> QED BY Zenon, <1>5
  <2>2. ASSUME NEW h \in Hops, s[h].age <= RouteTTL
        PROVE  <<n, h>> \in dropped \/ \E r \in Range(a) : r.hop = h
    <3>1. <<n, h>> \in dropped \/ \E r \in Range(q) : r.hop = h BY Zenon, <1>1, <2>2 DEF Held
    <3>2. ASSUME NEW r \in Range(q), r.hop = h PROVE \E x \in Range(a) : x.hop = h
      <4> PICK i \in DOMAIN q : r = q[i] BY Zenon DEF Range
      <4>1. a[i] \in Range(a) BY Zenon, <1>7
      <4> QED BY Zenon, <1>5, <3>2, <4>1
    <3> QED BY Zenon, <3>1, <3>2
  <2> QED BY Zenon, <1>7, <2>1, <2>2 DEF Held
<1>9. Cached(routes', said', dropped')
  <2>1. Cached([routes EXCEPT ![n] = a], said, dropped) BY Zenon, <1>0, <1>8, Replace
  <2> QED BY Zenon, <1>3, <2>1
<1>10. RouteIsAnnounced'
  <2>1. \A h : Usable(n, h)' <=> Usable(n, h) BY Zenon, <1>3 DEF Usable
  <2>2. CASE free = {}
    <3>1. chosen' = <<n, "none">> BY Zenon, <1>3, <2>2
    <3>2. chosen'[1] = n /\ chosen'[2] = "none" BY Zenon, <3>1
    <3>3. ASSUME NEW h \in Hops, Usable(n, h) PROVE <<n, h>> \in dropped
      <4>1. s[h].age <= RouteTTL BY Zenon, <3>3 DEF Usable
      <4>2. <<n, h>> \in dropped \/ \E r \in Range(q) : r.hop = h BY Zenon, <1>1, <4>1 DEF Held
      <4>3. ASSUME NEW r \in Range(q), r.hop = h PROVE FALSE
        <5> PICK i \in DOMAIN q : r = q[i] BY Zenon DEF Range
        <5>1. a[i].state = "available" BY Zenon, <1>5, <3>3, <4>3
        <5> QED BY Zenon, <1>b, <1>4, <2>2, <5>1
      <4> QED BY Zenon, <4>2, <4>3
    <3>4. \A h \in Hops : Usable(n, h)' => <<n, h>> \in dropped' BY Zenon, <1>3, <2>1, <3>3
    <3>5. \A h \in Hops : Usable(chosen[1], h)' => <<chosen'[1], h>> \in dropped'
      BY Zenon, <3>2, <3>4 DEF Usable
    <3> QED BY Zenon, <3>2, <3>5 DEF RouteIsAnnounced
  <2>3. CASE free # {}
    <3> PICK k : k = CHOOSE i \in free : \A j \in free : i <= j OBVIOUS
    <3>1. k \in free
      <4>1. DOMAIN q \subseteq Nat BY <1>1
      <4>2. free \subseteq Nat BY Zenon, <1>b, <1>4, <4>1
      <4>3. \E x \in free : \A y \in free : x <= y BY Zenon, <2>3, <4>2, Least
      <4>4. (CHOOSE i \in free : \A j \in free : i <= j) \in free BY <4>3
      <4> QED BY Zenon, <4>4
    <3>2. k \in DOMAIN q /\ a[k].state = "available"
      <4>1. \A i \in free : i \in DOMAIN a /\ a[i].state = "available" BY Zenon, <1>b
      <4> QED BY Zenon, <1>4, <3>1, <4>1
    <3>3. a[k].hop \in Hops /\ Usable(n, a[k].hop) BY Zenon, <1>2, <1>5, <3>2
    <3>4. chosen' = <<n, a[k].hop>> BY Zenon, <1>3, <2>3
    <3>5. chosen'[1] = n /\ chosen'[2] = a[k].hop BY Zenon, <3>4
    <3>6. chosen'[2] \in Hops /\ Usable(chosen[1], chosen[2])' BY Zenon, <1>3, <3>3, <3>5 DEF Usable
    <3> QED BY Zenon, <3>6 DEF RouteIsAnnounced
  <2> QED BY Zenon, <2>2, <2>3
<1> QED BY Zenon, <1>0, <1>3, <1>9, <1>10 DEF RouteInv

\* A route, and what its hop said, a tick later.
Later(r) == [r EXCEPT !.age = older(@, RouteTTL + 1)]

\* What a hop said, a moment later.
LaterSaying(s) == IF s.age < RouteTTL THEN [s EXCEPT !.age = @ + 1] ELSE Silence

\* A route and what its hop said grow old together.
LEMMA AgedRoute ==
  ASSUME NEW r \in RouteRecord, NEW s \in Saying, Agrees(r, s)
  PROVE  Later(r) \in RouteRecord /\ Later(r).hop = r.hop /\ Agrees(Later(r), LaterSaying(s))
<1> PICK e : e = Later(r) OBVIOUS
<1> PICK t : t = LaterSaying(s) OBVIOUS
<1>0. /\ RouteTTL \in Nat /\ BusyTime \in Nat /\ r.age \in Nat /\ s.age \in Nat
      /\ r.age \in 0 .. RouteTTL + 1 /\ s.age \in 0 .. RouteTTL + 1
  BY DirectoryAssumption DEF RouteRecord, Saying
<1> PICK b : b = older(r.age, RouteTTL + 1) OBVIOUS
<1>1. b \in 0 .. RouteTTL + 1 /\ b = IF r.age = RouteTTL + 1 THEN r.age ELSE r.age + 1
  BY <1>0 DEF older
<1>2. e = [r EXCEPT !.age = b] BY Zenon DEF Later
<1>3. e \in RouteRecord /\ e.hop = r.hop /\ e.age = b /\ e.state = r.state /\ (e.busy <=> r.busy)
  <2>1. e \in RouteRecord /\ e.hop = r.hop /\ e.age = b /\ e.state = r.state
    BY <1>1, <1>2 DEF RouteRecord
  <2>2. e.busy = r.busy BY Zenon, <1>2 DEF RouteRecord
  <2> QED BY Zenon, <2>1, <2>2
<1>4. CASE s.age < RouteTTL
  <2>1. t = [s EXCEPT !.age = s.age + 1] BY Zenon, <1>4 DEF LaterSaying
  <2>2. t \in Saying /\ t.age = s.age + 1 BY <1>0, <1>4, <2>1 DEF Saying
  <2>3. t.free <=> s.free BY Zenon, <2>1 DEF Saying
  <2>4. ~(r.age > RouteTTL) /\ ~(s.age > RouteTTL) /\ (r.age = s.age => ~(e.age > RouteTTL) /\ e.age = t.age)
    <3>1. ~(s.age > RouteTTL) BY <1>0, <1>4
    <3>2. ~(r.age > RouteTTL) BY Zenon, <3>1 DEF Agrees
    <3> QED BY <1>0, <1>1, <1>3, <1>4, <2>2, <3>1, <3>2
  <2>5. r.age >= BusyTime /\ r.age = s.age => e.age >= BusyTime BY <1>0, <1>1, <1>3, <1>4
  <2> QED BY Zenon, <1>3, <2>2, <2>3, <2>4, <2>5 DEF Agrees
<1>5. CASE ~(s.age < RouteTTL)
  <2>1. t = Silence /\ t.age > RouteTTL /\ t \in Saying BY Zenon, <1>5, Silent DEF LaterSaying
  <2>2. CASE r.age > RouteTTL
    <3>1. e.age > RouteTTL BY <1>0, <1>1, <1>3, <2>2
    <3> QED BY Zenon, <1>3, <2>1, <3>1 DEF Agrees
  <2>3. CASE ~(r.age > RouteTTL) /\ s.age = r.age
    <3>1. e.age > RouteTTL BY <1>0, <1>1, <1>3, <1>5, <2>3
    <3> QED BY Zenon, <1>3, <2>1, <3>1 DEF Agrees
  <2>4. CASE r.state = "rejected" BY Zenon, <1>3, <2>1, <2>4 DEF Agrees
  <2> QED BY Zenon, <2>2, <2>3, <2>4 DEF Agrees
<1> QED BY Zenon, <1>4, <1>5

\* Time passes.
LEMMA ElapseKeeps ==
  ASSUME RouteInv, Elapse
  PROVE  said' \in [Networks -> [Hops -> Saying]] /\ Cached(routes', said', dropped')
<1>0. /\ said \in [Networks -> [Hops -> Saying]] /\ RouteTTL \in Nat
      /\ Cached(routes, said, dropped)
  BY Zenon, DirectoryAssumption DEF RouteInv
<1>1. /\ routes' = [n \in Networks |->
                      [i \in DOMAIN routes[n] |-> [routes[n][i] EXCEPT !.age = older(@, RouteTTL + 1)]]]
      /\ said' = [n \in Networks |-> [h \in Hops |->
                    IF said[n][h].age < RouteTTL THEN [said[n][h] EXCEPT !.age = @ + 1] ELSE Silence]]
      /\ dropped' = dropped
  BY Zenon DEF Elapse
<1>2. ASSUME NEW n \in Networks, NEW h \in Hops
      PROVE  /\ said'[n][h] \in Saying
             /\ said'[n][h].age <= RouteTTL => said[n][h].age <= RouteTTL
  <2> PICK s \in Saying : s = said[n][h] BY Zenon, <1>0
  <2>0. s.age \in Nat BY <1>0 DEF Saying
  <2>1. said'[n][h] = IF s.age < RouteTTL THEN [s EXCEPT !.age = @ + 1] ELSE Silence
    BY Zenon, <1>1
  <2>2. CASE s.age < RouteTTL
    <3>1. said'[n][h] = [s EXCEPT !.age = s.age + 1] BY Zenon, <2>1, <2>2
    <3> QED BY <1>0, <2>2, <3>1 DEF Saying
  <2>3. CASE ~(s.age < RouteTTL)
    <3>1. said'[n][h] = Silence BY Zenon, <2>1, <2>3
    <3> QED BY Zenon, <3>1, Silent
  <2> QED BY Zenon, <2>2, <2>3
<1>3. said' \in [Networks -> [Hops -> Saying]]
  <2>1. \A n \in Networks, h \in Hops :
          (IF said[n][h].age < RouteTTL THEN [said[n][h] EXCEPT !.age = @ + 1] ELSE Silence) \in Saying
    BY Zenon, <1>1, <1>2
  <2> QED BY Zenon, <1>1, <2>1
<1>4. ASSUME NEW n \in Networks PROVE Held(n, routes'[n], said'[n], dropped')
  <2> PICK q : q = routes[n] OBVIOUS
  <2> PICK a : a = routes'[n] OBVIOUS
  <2>1. q \in Seq(RouteRecord) /\ Held(n, q, said[n], dropped) BY Zenon, <1>0 DEF Cached
  <2>2. a = [i \in DOMAIN q |-> [q[i] EXCEPT !.age = older(@, RouteTTL + 1)]] BY Zenon, <1>1
  <2>3. ASSUME NEW i \in DOMAIN q
        PROVE  a[i] \in RouteRecord /\ a[i].hop = q[i].hop /\ Agrees(a[i], said'[n][q[i].hop])
    <3> PICK r \in RouteRecord : r = q[i]
      <4>1. q[i] \in RouteRecord BY <2>1
      <4> QED BY Zenon, <4>1
    <3>1. r.hop \in Hops BY Zenon DEF RouteRecord
    <3>2. r \in Range(q) BY Zenon DEF Range
    <3>3. Agrees(r, said[n][r.hop]) BY Zenon, <2>1, <3>2 DEF Held
    <3>4. said[n][r.hop] \in Saying BY Zenon, <1>0, <3>1
    <3>5. a[i] = Later(r) BY Zenon, <2>2 DEF Later
    <3>6. said'[n][r.hop] = LaterSaying(said[n][r.hop]) BY Zenon, <1>1, <3>1 DEF LaterSaying
    <3>7. a[i] \in RouteRecord /\ a[i].hop = r.hop /\ Agrees(a[i], said'[n][r.hop])
      BY Zenon, <3>3, <3>4, <3>5, <3>6, AgedRoute
    <3> QED BY Zenon, <3>7
  <2>4. a \in [DOMAIN q -> RouteRecord]
    <3>1. \A i \in DOMAIN q : [q[i] EXCEPT !.age = older(@, RouteTTL + 1)] \in RouteRecord
      BY Zenon, <2>2, <2>3
    <3> QED BY ZenonT(30), <2>2, <3>1
  <2>5. a \in Seq(RouteRecord) /\ \A r : r \in Range(a) <=> \E i \in DOMAIN q : r = a[i]
    <3>1. \A f \in [DOMAIN q -> RouteRecord] :
            f \in Seq(RouteRecord) /\ \A r : r \in Range(f) <=> \E i \in DOMAIN q : r = f[i]
      BY <2>1, MapRange
    <3> QED BY Zenon, <2>4, <3>1
  <2>6. ASSUME NEW r \in Range(a) PROVE Agrees(r, said'[n][r.hop])
    <3> PICK i \in DOMAIN q : r = a[i] BY Zenon, <2>5
    <3> QED BY Zenon, <2>3
  <2>7. ASSUME NEW h \in Hops, said'[n][h].age <= RouteTTL
        PROVE  <<n, h>> \in dropped' \/ \E r \in Range(a) : r.hop = h
    <3>1. <<n, h>> \in dropped \/ \E r \in Range(q) : r.hop = h BY Zenon, <1>2, <2>1, <2>7 DEF Held
    <3>2. ASSUME NEW r \in Range(q), r.hop = h PROVE \E x \in Range(a) : x.hop = h
      <4> PICK i \in DOMAIN q : r = q[i] BY Zenon DEF Range
      <4>1. a[i] \in Range(a) BY Zenon, <2>5
      <4> QED BY Zenon, <2>3, <3>2, <4>1
    <3> QED BY Zenon, <1>1, <3>1, <3>2
  <2> QED BY Zenon, <2>5, <2>6, <2>7 DEF Held
<1>5. routes' \in [Networks -> Seq(RouteRecord)]
  <2>1. \A n \in Networks : routes'[n] \in Seq(RouteRecord) BY Zenon, <1>4 DEF Held
  <2>2. \A n \in Networks :
          [i \in DOMAIN routes[n] |-> [routes[n][i] EXCEPT !.age = older(@, RouteTTL + 1)]] \in Seq(RouteRecord)
    BY Zenon, <1>1, <2>1
  <2> QED BY Zenon, <1>1, <2>2
<1> QED BY Zenon, <1>3, <1>4, <1>5 DEF Cached

\* The next hop that is selected has last said, within the route's lifetime, that it reaches the
\* network, or said that it was busy and had the time to recover; none is selected only when no hop
\* did, or its route was dropped for room: for any networks, hops, lifetimes and limits of the cache.
THEOREM RoutesAreAnnounced == DirSpec => []RouteIsAnnounced
<1>1. DirInit => RouteInv
  <2> SUFFICES ASSUME DirInit PROVE RouteInv OBVIOUS
  <2>1. /\ routes = [n \in Networks |-> <<>>] /\ chosen = <<>>
        /\ said = [n \in Networks |-> [h \in Hops |-> Silence]]
    BY Zenon DEF DirInit
  <2>2. said \in [Networks -> [Hops -> Saying]] BY Zenon, <2>1, Silent
  <2>3. <<>> \in Seq(RouteRecord) /\ Range(<<>>) = {} BY DEF Range
  <2>4. routes \in [Networks -> Seq(RouteRecord)] BY Zenon, <2>1, <2>3
  <2>5. ASSUME NEW n \in Networks PROVE Held(n, routes[n], said[n], dropped)
    <3>1. routes[n] = <<>> /\ \A h \in Hops : said[n][h] = Silence BY Zenon, <2>1
    <3> QED BY Zenon, <2>3, <3>1, Silent DEF Held
  <2> QED BY Zenon, <2>1, <2>2, <2>4, <2>5 DEF RouteInv, Cached, RouteIsAnnounced
<1>2. RouteInv /\ [DirNext]_dirVars => RouteInv'
  <2> SUFFICES ASSUME RouteInv, [DirNext]_dirVars PROVE RouteInv' OBVIOUS
  <2>1. CASE UNCHANGED <<routes, said, dropped, chosen>>
    BY Zenon, <2>1 DEF RouteInv, RouteIsAnnounced, Usable
  <2>2. ASSUME NEW n \in Networks, NEW h \in Hops, NEW msg \in {"iam", "busy", "available", "reject"},
               handleNetworkMessage(n, h, msg)
        PROVE  RouteInv'
    <3>1. chosen' = <<>> BY Zenon, <2>2 DEF handleNetworkMessage
    <3> QED BY Zenon, <2>2, <3>1, MessageKeeps DEF RouteInv, RouteIsAnnounced
  <2>3. ASSUME NEW n \in Networks, ResolveTarget(n) PROVE RouteInv'
    BY Zenon, <2>3, SelectKeeps
  <2>4. CASE Elapse
    <3>1. chosen' = <<>> BY Zenon, <2>4 DEF Elapse
    <3> QED BY Zenon, <2>4, <3>1, ElapseKeeps DEF RouteInv, RouteIsAnnounced
  <2>5. \A k \in Keys : Announce(k) => UNCHANGED <<routes, said, dropped, chosen>>
    BY Zenon DEF Announce
  <2>6. Discover \/ Collected => UNCHANGED <<routes, said, dropped, chosen>>
    BY Zenon DEF Discover, Collected
  <2>7. UNCHANGED dirVars => UNCHANGED <<routes, said, dropped, chosen>> BY Zenon DEF dirVars
  <2> QED BY Zenon, <2>1, <2>2, <2>3, <2>4, <2>5, <2>6, <2>7 DEF DirNext
<1>3. RouteInv => RouteIsAnnounced BY Zenon DEF RouteInv
<1> QED BY <1>1, <1>2, <1>3, PTL DEF DirSpec

(***************************************************************************)
(* Discoveries.                                                            *)
(*                                                                         *)
(* What was announced within any window is retained, or a crowd of others  *)
(* was announced after it.                                                 *)
(***************************************************************************)
(* A turn of the loop of removeKeyLocked, and what its recursion says.         *)
KeepStep(o, keys, K, i) == IF keys[i] \in K THEN o ELSE Append(o, keys[i])

\* The function that the loop computes, from its recursion.
IsKept(keys, K, N, g) ==
  g = [i \in 0 .. N |-> IF i = 0 THEN <<>> ELSE KeepStep(g[i - 1], keys, K, i)]

\* The loop over the keys of an instance has a result.
LEMMA KeptExists ==
  ASSUME NEW keys, NEW K, NEW N \in Nat
  PROVE  \E f : IsKept(keys, K, N, f)
<1> DEFINE P == {n \in Nat : \E f : IsKept(keys, K, n, f)}
<1>1. 0 \in P
  <2> DEFINE f == [i \in 0 .. 0 |-> <<>>]
  <2>1. IsKept(keys, K, 0, f) BY SMTT(30) DEF IsKept
  <2> QED BY Zenon, <2>1
<1>2. ASSUME NEW n \in Nat, n \in P PROVE n + 1 \in P
  <2>1. PICK f : IsKept(keys, K, n, f) BY Zenon, <1>2
  <2> DEFINE g == [i \in 0 .. n + 1 |-> IF i = n + 1 THEN KeepStep(f[n], keys, K, n + 1) ELSE f[i]]
  <2>2. ASSUME NEW i \in 0 .. n + 1
        PROVE  g[i] = IF i = 0 THEN <<>> ELSE KeepStep(g[i - 1], keys, K, i)
    <3>1. CASE i = n + 1
      <4>1. i # 0 /\ i - 1 = n /\ n \in 0 .. n + 1 /\ n # n + 1 BY <3>1
      <4> QED BY <3>1, <4>1
    <3>2. CASE i \in 0 .. n
      <4>1. f[i] = IF i = 0 THEN <<>> ELSE KeepStep(f[i - 1], keys, K, i)
        BY <2>1, <3>2 DEF IsKept
      <4>2. g[i] = f[i] /\ (i # 0 => g[i - 1] = f[i - 1]) BY <3>2
      <4> QED BY <4>1, <4>2
    <3> QED BY <3>1, <3>2
  <2>3. IsKept(keys, K, n + 1, g) BY Zenon, <2>2 DEF IsKept
  <2>4. n + 1 \in Nat OBVIOUS
  <2> HIDE DEF g
  <2> QED BY Zenon, <2>3, <2>4
<1>3. Nat \subseteq P
  <2> HIDE DEF P
  <2> QED BY Zenon, <1>1, <1>2, SetInduction
<1> QED BY <1>3

\* A key that is not in a list yet can be appended to it.
LEMMA AppendInjective ==
  ASSUME NEW S, NEW q \in Seq(S), NEW e \in S, IsInjective(q), e \notin Range(q)
  PROVE  IsInjective(Append(q, e))
<1> PICK n \in Nat : n = Len(q) OBVIOUS
<1> PICK a : a = Append(q, e) BY Zenon
<1>1. /\ DOMAIN a = 1 .. n + 1 /\ DOMAIN q = 1 .. n
      /\ a[n + 1] = e /\ \A i \in 1 .. n : a[i] = q[i]
  OBVIOUS
<1>2. \A i : i \in 1 .. n + 1 <=> i \in 1 .. n \/ i = n + 1 OBVIOUS
<1>3. \A i \in 1 .. n : q[i] # e BY Zenon, <1>1 DEF Range
<1>4. \A i, j \in 1 .. n : q[i] = q[j] => i = j BY Zenon, <1>1 DEF IsInjective
<1>5. ASSUME NEW i \in 1 .. n + 1, NEW j \in 1 .. n + 1, a[i] = a[j] PROVE i = j
  <2>1. CASE i \in 1 .. n /\ j \in 1 .. n BY Zenon, <1>1, <1>4, <1>5, <2>1
  <2>2. CASE i \in 1 .. n /\ j = n + 1 BY Zenon, <1>1, <1>3, <1>5, <2>2
  <2>3. CASE i = n + 1 /\ j \in 1 .. n BY Zenon, <1>1, <1>3, <1>5, <2>3
  <2>4. CASE i = n + 1 /\ j = n + 1 BY Zenon, <2>4
  <2> QED BY Zenon, <1>2, <2>1, <2>2, <2>3, <2>4
<1> QED BY Zenon, <1>1, <1>5 DEF IsInjective

\* removeKeyLocked keeps the other keys of the instance, each once.
LEMMA WithoutFacts ==
  ASSUME NEW S, NEW keys \in Seq(S), NEW K, IsInjective(keys)
  PROVE  /\ without(keys, K) \in Seq(S) /\ IsInjective(without(keys, K))
         /\ Range(without(keys, K)) = Range(keys) \ K
<1> PICK N \in Nat : N = Len(keys) OBVIOUS
<1>0. /\ DOMAIN keys = 1 .. N /\ \A i \in 1 .. N : keys[i] \in S
      /\ \A i, j \in 1 .. N : keys[i] = keys[j] => i = j
  <2>1. DOMAIN keys = 1 .. N /\ \A i \in 1 .. N : keys[i] \in S OBVIOUS
  <2> QED BY Zenon, <2>1 DEF IsInjective
<1>1. without(keys, K) = (CHOOSE g : IsKept(keys, K, N, g))[N]
  BY Zenon DEF without, IsKept, KeepStep
<1>2. PICK g : IsKept(keys, K, N, g) /\ g = CHOOSE f : IsKept(keys, K, N, f)
  BY Zenon, KeptExists
<1> DEFINE Good(n) == /\ g[n] \in Seq(S) /\ IsInjective(g[n])
                      /\ \A x : x \in Range(g[n]) <=> x \notin K /\ \E j \in 1 .. n : x = keys[j]
           P == {n \in Nat : n \in 0 .. N => Good(n)}
<1>3. 0 \in P
  <2>1. g[0] = <<>> BY <1>2 DEF IsKept
  <2>2. <<>> \in Seq(S) /\ IsInjective(<<>>) BY DEF IsInjective
  <2>3. Range(<<>>) = {} /\ \A j : j \notin 1 .. 0 BY DEF Range
  <2>4. Good(0) BY Zenon, <2>1, <2>2, <2>3
  <2>5. 0 \in Nat OBVIOUS
  <2> QED BY Zenon, <2>4, <2>5
<1>4. ASSUME NEW n \in Nat, n \in P PROVE n + 1 \in P
  <2>0. n + 1 \in Nat OBVIOUS
  <2> SUFFICES ASSUME n + 1 \in 0 .. N PROVE Good(n + 1) BY Zenon, <2>0
  <2>1. /\ n \in 0 .. N /\ n + 1 \in 0 .. N /\ n + 1 \in 1 .. N /\ n + 1 # 0 /\ (n + 1) - 1 = n
        /\ \A j : j \in 1 .. n + 1 <=> j \in 1 .. n \/ j = n + 1
        /\ \A j \in 1 .. n : j \in 1 .. N /\ j # n + 1
    OBVIOUS
  <2>2. Good(n) BY Zenon, <1>4, <2>1
  <2>3. g[n + 1] = KeepStep(g[n], keys, K, n + 1) BY <1>2, <2>1 DEF IsKept
  <2> PICK o : o = g[n] OBVIOUS
  <2> PICK e : e = keys[n + 1] OBVIOUS
  <2>4. /\ o \in Seq(S) /\ IsInjective(o) /\ e \in S
        /\ \A x : x \in Range(o) <=> x \notin K /\ \E j \in 1 .. n : x = keys[j]
    <3>1. e \in S BY Zenon, <1>0, <2>1
    <3> QED BY Zenon, <2>2, <3>1
  <2>5. \A x : (\E j \in 1 .. n + 1 : x = keys[j]) <=> (\E j \in 1 .. n : x = keys[j]) \/ x = e
    BY Zenon, <2>1
  <2>6. CASE e \in K
    <3>1. g[n + 1] = o BY Zenon, <2>3, <2>6 DEF KeepStep
    <3>2. \A x : x \in Range(o) <=> x \notin K /\ \E j \in 1 .. n + 1 : x = keys[j]
      BY Zenon, <2>4, <2>5, <2>6
    <3> QED BY Zenon, <2>4, <3>1, <3>2
  <2>7. CASE e \notin K
    <3>1. g[n + 1] = Append(o, e) BY Zenon, <2>3, <2>7 DEF KeepStep
    <3>2. e \notin Range(o)
      <4>1. \A j \in 1 .. n : e # keys[j] BY Zenon, <1>0, <2>1
      <4> QED BY Zenon, <2>4, <4>1
    <3>3. Append(o, e) \in Seq(S) /\ Range(Append(o, e)) = Range(o) \union {e}
      <4>1. \A x \in S : Append(o, x) \in Seq(S) /\ Range(Append(o, x)) = Range(o) \union {x}
        BY Zenon, <2>4, AppendRange
      <4> QED BY Zenon, <2>4, <4>1
    <3>4. IsInjective(Append(o, e)) BY Zenon, <2>4, <3>2, AppendInjective
    <3>5. \A x : x \in Range(Append(o, e)) <=> x \notin K /\ \E j \in 1 .. n + 1 : x = keys[j]
      BY Zenon, <2>4, <2>5, <2>7, <3>3
    <3> QED BY Zenon, <3>1, <3>3, <3>4, <3>5
  <2> QED BY Zenon, <2>6, <2>7
<1>5. Nat \subseteq P
  <2> HIDE DEF P
  <2> QED BY Zenon, <1>3, <1>4, SetInduction
<1>6. Good(N)
  <2>1. N \in 0 .. N OBVIOUS
  <2> QED BY Zenon, <1>5, <2>1
<1>7. Range(g[N]) = Range(keys) \ K
  <2>1. \A x : x \in Range(keys) <=> \E j \in 1 .. N : x = keys[j] BY Zenon, <1>0 DEF Range
  <2> QED BY Zenon, <1>6, <2>1
<1> QED BY Zenon, <1>1, <1>2, <1>6, <1>7

\* As many keys as a list that names none twice is long.
LEMMA RangeCount ==
  ASSUME NEW S, IsFiniteSet(S), NEW q \in Seq(S), IsInjective(q)
  PROVE  IsFiniteSet(Range(q)) /\ Len(q) <= Cardinality(Range(q))
<1> PICK n \in Nat : n = Len(q) OBVIOUS
<1> PICK R : R = Range(q) OBVIOUS
<1>1. R \in SUBSET S BY Zenon, RangeFacts
<1>2. IsFiniteSet(R) BY Zenon, <1>1, FS_Subset
<1>3. q \in [1 .. n -> R]
  <2>1. DOMAIN q = 1 .. n /\ q = [i \in 1 .. n |-> q[i]] OBVIOUS
  <2>2. \A i \in 1 .. n : q[i] \in R BY Zenon, <2>1 DEF Range
  <2> QED BY <2>1, <2>2
<1>4. q \in Injection(1 .. n, R) BY Zenon, <1>3 DEF Injection
<1>5. Cardinality(1 .. n) <= Cardinality(R) BY Zenon, <1>2, <1>4, FS_Injection
<1>6. Cardinality(1 .. n) = n
  <2>1. 1 \in Int /\ n \in Int OBVIOUS
  <2>2. Cardinality(1 .. n) = IF 1 > n THEN 0 ELSE n - 1 + 1 BY Zenon, <2>1, FS_Interval
  <2> QED BY <2>2
<1> QED BY Zenon, <1>2, <1>5, <1>6

(* The keys announced after k or with it.  They are a crowd when a table has   *)
(* no room for them.                                                           *)
Newer(h, k) == {x \in Keys : h[x] # -1 /\ h[x] <= h[k]}

\* More keys than a table, or an instance's list of paths, has room for.
Crowd(t, h, k) ==
  \/ Cardinality(Newer(h, k)) > MaxObs
  \/ t = "device" /\ Cardinality({x \in Newer(h, k) : Inst(x) = Inst(k)}) > MaxPaths

\* What is retained was announced, and has the time of its last announcement.
Retained(obs, h) == DOMAIN obs \subseteq Keys /\ \A k \in DOMAIN obs : obs[k] = h[k] /\ h[k] # -1

\* What a discovery may still want is retained, or a crowd came after it.
Accounted(t, obs, h) ==
  \A k \in Keys : h[k] # -1 /\ h[k] <= MaxWindow => k \in DOMAIN obs \/ Crowd(t, h, k)

\* The index by instance has exactly the keys retained.
Indexed(obs, idx) ==
  /\ idx \in [Instances -> Seq(Keys)]
  /\ \A i \in Instances : IsInjective(idx[i]) /\ Range(idx[i]) = {k \in DOMAIN obs : Inst(k) = i}

\* What the last discovery returned.
FoundAll ==
  /\ found.returned \subseteq found.heard
  /\ Cardinality(found.heard) <= MaxObs
       /\ (follows = "device" =>
             \A i \in Instances : Cardinality({k \in found.heard : Inst(k) = i}) <= MaxPaths)
       => found.returned = found.heard

\* The inductive invariant of the registries.
DiscInv ==
  /\ follows \in {"device", "object", "route"}
  /\ since \in -1 .. MaxWindow
  /\ heard \in [Keys -> -1 .. ObsTTL + 1]
  /\ Retained(byKey, heard) /\ Accounted(follows, byKey, heard)
  /\ follows = "device" => Indexed(byKey, byInst)
  /\ FoundAll

\* The keys are finitely many.
LEMMA KeysFinite ==
  /\ IsFiniteSet(Keys)
  /\ \A S \in SUBSET Keys : IsFiniteSet(S) /\ Cardinality(S) \in Nat
  /\ \A S, T \in SUBSET Keys : S \subseteq T => Cardinality(S) <= Cardinality(T)
<1>1. IsFiniteSet(Keys) BY Zenon, DirectoryAssumption, FS_Product DEF Keys
<1>2. ASSUME NEW S \in SUBSET Keys PROVE IsFiniteSet(S) /\ Cardinality(S) \in Nat
  BY Zenon, <1>1, FS_Subset, FS_CardinalityType
<1>3. ASSUME NEW S \in SUBSET Keys, NEW T \in SUBSET Keys, S \subseteq T
      PROVE  Cardinality(S) <= Cardinality(T)
  <2>1. S \in SUBSET T /\ IsFiniteSet(T) BY Zenon, <1>2, <1>3
  <2> QED BY Zenon, <2>1, FS_Subset
<1> QED BY Zenon, <1>1, <1>2, <1>3

\* The instance of a key.
LEMMA KeyInstance ==
  ASSUME NEW k \in Keys
  PROVE  Inst(k) \in Instances
BY Zenon DEF Keys, Inst

\* A crowd stays one as keys are announced.
LEMMA CrowdGrows ==
  ASSUME NEW t, NEW h, NEW g, NEW k, Crowd(t, h, k), Newer(h, k) \subseteq Newer(g, k)
  PROVE  Crowd(t, g, k)
<1>0. /\ Newer(h, k) \in SUBSET Keys /\ Newer(g, k) \in SUBSET Keys
      /\ {x \in Newer(h, k) : Inst(x) = Inst(k)} \in SUBSET Keys
      /\ {x \in Newer(g, k) : Inst(x) = Inst(k)} \in SUBSET Keys
      /\ {x \in Newer(h, k) : Inst(x) = Inst(k)} \subseteq {x \in Newer(g, k) : Inst(x) = Inst(k)}
  BY Zenon DEF Newer
<1> PICK a, b, c, d : /\ a = Cardinality(Newer(h, k)) /\ b = Cardinality(Newer(g, k))
                      /\ c = Cardinality({x \in Newer(h, k) : Inst(x) = Inst(k)})
                      /\ d = Cardinality({x \in Newer(g, k) : Inst(x) = Inst(k)})
  OBVIOUS
<1>1. a \in Nat /\ b \in Nat /\ c \in Nat /\ d \in Nat /\ a <= b /\ c <= d BY Zenon, <1>0, KeysFinite
<1>2. MaxObs \in Nat /\ MaxPaths \in Nat BY Zenon, DirectoryAssumption
<1>3. (a > MaxObs => b > MaxObs) /\ (c > MaxPaths => d > MaxPaths) BY <1>1, <1>2
<1> QED BY Zenon, <1>3 DEF Crowd

\* A full table makes a crowd.
LEMMA CrowdAll ==
  ASSUME NEW t, NEW h, NEW v, NEW D \in SUBSET Keys, Cardinality(D) > MaxObs,
         \A x \in D : h[x] # -1 /\ h[x] <= h[v]
  PROVE  Crowd(t, h, v)
<1>1. D \subseteq Newer(h, v) /\ Newer(h, v) \in SUBSET Keys BY Zenon DEF Newer
<1> PICK a, b : a = Cardinality(D) /\ b = Cardinality(Newer(h, v)) OBVIOUS
<1>2. a \in Nat /\ b \in Nat /\ a <= b /\ a > MaxObs BY Zenon, <1>1, KeysFinite
<1>3. MaxObs \in Nat BY Zenon, DirectoryAssumption
<1>4. b > MaxObs BY <1>2, <1>3
<1> QED BY Zenon, <1>4 DEF Crowd

\* A full list of paths makes a crowd.
LEMMA CrowdPath ==
  ASSUME NEW h, NEW v, NEW D \in SUBSET Keys, Cardinality(D) > MaxPaths,
         \A x \in D : h[x] # -1 /\ h[x] <= h[v] /\ Inst(x) = Inst(v)
  PROVE  Crowd("device", h, v)
<1> PICK E : E = {x \in Newer(h, v) : Inst(x) = Inst(v)} BY Zenon
<1>1. D \subseteq E /\ E \in SUBSET Keys BY Zenon DEF Newer
<1> PICK a, b : a = Cardinality(D) /\ b = Cardinality(E) OBVIOUS
<1>2. a \in Nat /\ b \in Nat /\ a <= b /\ a > MaxPaths BY Zenon, <1>1, KeysFinite
<1>3. MaxPaths \in Nat BY Zenon, DirectoryAssumption
<1>4. b > MaxPaths BY <1>2, <1>3
<1> QED BY Zenon, <1>4 DEF Crowd

\* An announcement, when what it evicts was old or crowded out.
LEMMA AnnounceAccounts ==
  ASSUME DiscInv, NEW k \in Keys, NEW h, h = [heard EXCEPT ![k] = 0],
         NEW obs, DOMAIN obs \subseteq DOMAIN byKey \union {k},
         \A x \in DOMAIN obs : obs[x] = h[x],
         \A x \in DOMAIN byKey \union {k} : x \in DOMAIN obs \/ ~(h[x] <= MaxWindow) \/ Crowd(follows, h, x)
  PROVE  Retained(obs, h) /\ Accounted(follows, obs, h)
<1>0. /\ heard \in [Keys -> -1 .. ObsTTL + 1]
      /\ DOMAIN byKey \subseteq Keys /\ \A x \in DOMAIN byKey : heard[x] # -1
      /\ Accounted(follows, byKey, heard)
  BY Zenon DEF DiscInv, Retained
<1>1. h[k] = 0 /\ (\A x \in Keys : x # k => h[x] = heard[x]) /\ 0 # -1 BY <1>0
<1>2. Retained(obs, h) BY Zenon, <1>0, <1>1 DEF Retained
<1>3. ASSUME NEW x \in Keys, h[x] # -1, h[x] <= MaxWindow PROVE x \in DOMAIN obs \/ Crowd(follows, h, x)
  <2>1. CASE x \in DOMAIN byKey \union {k} BY Zenon, <1>3, <2>1
  <2>2. CASE x \notin DOMAIN byKey /\ x # k
    <3>1. heard[x] = h[x] BY Zenon, <1>1, <2>2
    <3>2. Crowd(follows, heard, x) BY Zenon, <1>0, <1>3, <2>2, <3>1 DEF Accounted
    <3>3. ASSUME NEW y \in Newer(heard, x) PROVE y \in Newer(h, x)
      <4>1. y \in Keys /\ heard[y] # -1 /\ heard[y] <= heard[x] BY Zenon DEF Newer
      <4>2. CASE y = k
        <5>1. heard[x] \in -1 .. ObsTTL + 1 BY Zenon, <1>0
        <5>2. ObsTTL \in Nat BY Zenon, DirectoryAssumption
        <5>3. 0 <= h[x] BY <1>3, <3>1, <5>1, <5>2
        <5> QED BY Zenon, <1>1, <4>1, <4>2, <5>3 DEF Newer
      <4>3. CASE y # k BY Zenon, <1>1, <3>1, <4>1, <4>3 DEF Newer
      <4> QED BY Zenon, <4>2, <4>3
    <3>4. Newer(heard, x) \subseteq Newer(h, x) BY Zenon, <3>3
    <3> QED BY Zenon, <3>2, <3>4, CrowdGrows
  <2> QED BY Zenon, <2>1, <2>2
<1> QED BY Zenon, <1>2, <1>3 DEF Accounted

\* The index without some keys is that of the table without them.
LEMMA UnindexKeeps ==
  ASSUME NEW obs, NEW idx, NEW K, Indexed(obs, idx)
  PROVE  Indexed(Without(obs, K), unindex(idx, K))
<1> PICK u : u = unindex(idx, K) OBVIOUS
<1>1. u = [i \in Instances |-> without(idx[i], K)] BY Zenon DEF unindex
<1>2. ASSUME NEW i \in Instances
      PROVE  /\ without(idx[i], K) \in Seq(Keys) /\ IsInjective(without(idx[i], K))
             /\ Range(without(idx[i], K)) = {k \in DOMAIN obs \ K : Inst(k) = i}
  <2>1. idx[i] \in Seq(Keys) /\ IsInjective(idx[i]) /\ Range(idx[i]) = {k \in DOMAIN obs : Inst(k) = i}
    BY Zenon DEF Indexed
  <2>2. /\ without(idx[i], K) \in Seq(Keys) /\ IsInjective(without(idx[i], K))
        /\ Range(without(idx[i], K)) = Range(idx[i]) \ K
    BY Zenon, <2>1, WithoutFacts
  <2> QED BY Zenon, <2>1, <2>2
<1>3. u \in [Instances -> Seq(Keys)] BY Zenon, <1>1, <1>2
<1>4. \A i \in Instances : u[i] = without(idx[i], K) BY Zenon, <1>1
<1>5. DOMAIN Without(obs, K) = DOMAIN obs \ K BY Zenon DEF Without
<1>6. \A i \in Instances : IsInjective(u[i]) /\ Range(u[i]) = {k \in DOMAIN Without(obs, K) : Inst(k) = i}
  BY Zenon, <1>2, <1>4, <1>5
<1> QED BY Zenon, <1>3, <1>6 DEF Indexed

\* The index with a key is that of the table with it.
LEMMA IndexKey ==
  ASSUME NEW obs, NEW idx, NEW k \in Keys, NEW v, Indexed(obs, idx),
         NEW new, new = IF k \in Range(idx[Inst(k)]) THEN idx
                        ELSE [idx EXCEPT ![Inst(k)] = Append(@, k)]
  PROVE  Indexed(With(obs, k, v), new)
<1> PICK j \in Instances : j = Inst(k) BY Zenon, KeyInstance
<1>0. DOMAIN With(obs, k, v) = DOMAIN obs \union {k} BY Zenon DEF With
<1>1. /\ idx \in [Instances -> Seq(Keys)]
      /\ \A i \in Instances : IsInjective(idx[i]) /\ Range(idx[i]) = {x \in DOMAIN obs : Inst(x) = i}
  BY Zenon DEF Indexed
<1>2. CASE k \in Range(idx[j])
  <2>1. new = idx BY Zenon, <1>2
  <2>2. k \in DOMAIN obs BY Zenon, <1>1, <1>2
  <2>3. DOMAIN obs \union {k} = DOMAIN obs BY Zenon, <2>2
  <2>4. DOMAIN With(obs, k, v) = DOMAIN obs BY Zenon, <1>0, <2>3
  <2> QED BY Zenon, <1>1, <2>1, <2>4 DEF Indexed
<1>3. CASE k \notin Range(idx[j])
  <2> PICK q : q = Append(idx[j], k) BY Zenon
  <2>1. new = [idx EXCEPT ![j] = q]
    <3>1. new = [idx EXCEPT ![Inst(k)] = Append(@, k)] BY Zenon, <1>3
    <3> QED BY Zenon, <1>1, <3>1
  <2>2. idx[j] \in Seq(Keys) /\ IsInjective(idx[j]) BY Zenon, <1>1
  <2>3. q \in Seq(Keys) /\ Range(q) = Range(idx[j]) \union {k}
    <3>1. \A x \in Keys : Append(idx[j], x) \in Seq(Keys) /\ Range(Append(idx[j], x)) = Range(idx[j]) \union {x}
      BY Zenon, <2>2, AppendRange
    <3> QED BY Zenon, <3>1
  <2>4. IsInjective(q) BY Zenon, <1>3, <2>2, AppendInjective
  <2>5. /\ new \in [Instances -> Seq(Keys)] /\ new[j] = q
        /\ \A i \in Instances : i # j => new[i] = idx[i]
    BY Zenon, <1>1, <2>1, <2>3
  <2>6. ASSUME NEW i \in Instances
        PROVE  IsInjective(new[i]) /\ Range(new[i]) = {x \in DOMAIN obs \union {k} : Inst(x) = i}
    <3>1. CASE i = j
      <4>1. Range(q) = {x \in DOMAIN obs : Inst(x) = j} \union {k} BY Zenon, <1>1, <2>3
      <4>2. {x \in DOMAIN obs : Inst(x) = j} \union {k} = {x \in DOMAIN obs \union {k} : Inst(x) = j}
        BY Zenon
      <4> QED BY Zenon, <2>4, <2>5, <3>1, <4>1, <4>2
    <3>2. CASE i # j
      <4>1. Range(new[i]) = {x \in DOMAIN obs : Inst(x) = i} /\ IsInjective(new[i])
        BY Zenon, <1>1, <2>5, <3>2
      <4>2. {x \in DOMAIN obs : Inst(x) = i} = {x \in DOMAIN obs \union {k} : Inst(x) = i}
        BY Zenon, <3>2
      <4> QED BY Zenon, <4>1, <4>2
    <3> QED BY Zenon, <3>1, <3>2
  <2> QED BY Zenon, <1>0, <2>5, <2>6 DEF Indexed
<1> QED BY Zenon, <1>2, <1>3

\* What expires is too old for any discovery.
LEMMA ExpiredOld ==
  ASSUME DiscInv, NEW k \in Keys, NEW x \in Expired(byKey), x # k
  PROVE  ~([heard EXCEPT ![k] = 0][x] <= MaxWindow)
<1>0. /\ heard \in [Keys -> -1 .. ObsTTL + 1] /\ DOMAIN byKey \subseteq Keys
      /\ \A y \in DOMAIN byKey : byKey[y] = heard[y]
  BY Zenon DEF DiscInv, Retained
<1>1. x \in DOMAIN byKey /\ byKey[x] >= IF follows = "device" THEN ObsTTL ELSE ObsTTL + 1
  BY Zenon DEF Expired
<1>2. [heard EXCEPT ![k] = 0][x] = heard[x] BY Zenon, <1>0, <1>1
<1>3. ObsTTL \in Nat /\ MaxWindow \in Nat /\ MaxWindow < ObsTTL BY Zenon, DirectoryAssumption
<1>4. heard[x] \in Int BY <1>0, <1>1, <1>3
<1>5. heard[x] >= ObsTTL \/ heard[x] >= ObsTTL + 1 BY Zenon, <1>0, <1>1
<1>6. ~(heard[x] <= MaxWindow) BY <1>3, <1>4, <1>5
<1> QED BY Zenon, <1>2, <1>6

\* The age of something announced.
LEMMA AgeIsNat ==
  ASSUME NEW t \in Nat, NEW a \in -1 .. t + 1, a # -1
  PROVE  a \in Nat
OBVIOUS

\* It is not negative.
LEMMA NatIsLow == \A a \in Nat : 0 <= a
OBVIOUS

\* upsertObject evicts what expired and, when full, an oldest observation.
LEMMA UpsertObjectKeeps ==
  ASSUME DiscInv, NEW k \in Keys, follows = "object", upsertObject(k),
         heard' = [heard EXCEPT ![k] = 0]
  PROVE  Retained(byKey', heard') /\ Accounted(follows, byKey', heard')
<1>h. PICK h : h = heard' OBVIOUS
<1>l. PICK live : live = Without(byKey, Expired(byKey)) OBVIOUS
<1>a. PICK all : all = With(live, k, 0) OBVIOUS
<1>0. /\ heard \in [Keys -> -1 .. ObsTTL + 1] /\ DOMAIN byKey \subseteq Keys
      /\ \A y \in DOMAIN byKey : byKey[y] = heard[y] /\ heard[y] # -1
  BY Zenon DEF DiscInv, Retained
<1>1. h[k] = 0 /\ (\A x \in Keys : x # k => h[x] = heard[x]) /\ 0 # -1 BY <1>h, <1>0
<1>2. DOMAIN live = DOMAIN byKey \ Expired(byKey) /\ \A x \in DOMAIN live : live[x] = byKey[x]
  BY Zenon, <1>l DEF Without
<1>3. /\ DOMAIN all = DOMAIN live \union {k} /\ DOMAIN all \in SUBSET Keys
      /\ \A x \in DOMAIN all : all[x] = h[x] /\ h[x] # -1
  <2>1. DOMAIN all = DOMAIN live \union {k} /\ all[k] = 0 /\ \A x \in DOMAIN live : x # k => all[x] = live[x]
    BY Zenon, <1>a DEF With
  <2> QED BY Zenon, <1>0, <1>1, <1>2, <2>1
<1>4. \A x \in DOMAIN byKey \union {k} : x \in DOMAIN all \/ ~(h[x] <= MaxWindow)
  BY Zenon, <1>2, <1>3, <1>h, ExpiredOld
<1>5. byKey' \in IF Cardinality(DOMAIN all) > MaxObs
                 THEN {Without(all, {v}) : v \in Oldest(all, DOMAIN all)} ELSE {all}
  BY Zenon, <1>l, <1>a DEF upsertObject
<1>6. CASE byKey' = all
  <2>1. DOMAIN all \subseteq DOMAIN byKey \union {k} BY Zenon, <1>2, <1>3
  <2> QED BY Zenon, <1>3, <1>4, <1>6, <1>h, <2>1, AnnounceAccounts
<1>7. ASSUME NEW v \in Oldest(all, DOMAIN all), byKey' = Without(all, {v}), Cardinality(DOMAIN all) > MaxObs
      PROVE  Retained(byKey', heard') /\ Accounted(follows, byKey', heard')
  <2>1. v \in DOMAIN all /\ \A x \in DOMAIN all : all[x] <= all[v] BY Zenon DEF Oldest
  <2>2. \A x \in DOMAIN all : h[x] # -1 /\ h[x] <= h[v] BY Zenon, <1>3, <2>1
  <2>3. Crowd(follows, h, v) BY Zenon, <1>3, <1>7, <2>2, CrowdAll
  <2>o. PICK obs : obs = Without(all, {v}) OBVIOUS
  <2>4. DOMAIN obs = DOMAIN all \ {v} /\ \A x \in DOMAIN obs : obs[x] = all[x]
    BY Zenon, <2>o DEF Without
  <2>5. DOMAIN obs \subseteq DOMAIN byKey \union {k} BY Zenon, <1>2, <1>3, <2>4
  <2>6. \A x \in DOMAIN obs : obs[x] = h[x] BY Zenon, <1>3, <2>4
  <2>7. \A x \in DOMAIN byKey \union {k} : x \in DOMAIN obs \/ ~(h[x] <= MaxWindow) \/ Crowd(follows, h, x)
    BY Zenon, <1>4, <2>3, <2>4
  <2>8. Retained(obs, h) /\ Accounted(follows, obs, h)
    BY Zenon, <1>h, <2>5, <2>6, <2>7, AnnounceAccounts
  <2> QED BY Zenon, <1>h, <1>7, <2>o, <2>8
<1> QED BY Zenon, <1>5, <1>6, <1>7

\* upsertDevice evicts what expired, an oldest path of the instance, and an oldest observation.
LEMMA UpsertDeviceKeeps ==
  ASSUME DiscInv, NEW k \in Keys, follows = "device", upsertDevice(k),
         heard' = [heard EXCEPT ![k] = 0]
  PROVE  Retained(byKey', heard') /\ Accounted(follows, byKey', heard') /\ Indexed(byKey', byInst')
<1> DEFINE live == Without(byKey, Expired(byKey))
           idx  == unindex(byInst, Expired(byKey))
           path == IF k \notin DOMAIN live /\ Len(idx[Inst(k)]) >= MaxPaths
                   THEN {{v} : v \in Oldest(live, Range(idx[Inst(k)]))} ELSE {{}}
           rest(p) == Without(live, p)
           over(p) == IF k \notin DOMAIN rest(p) /\ Cardinality(DOMAIN rest(p)) >= MaxObs
                      THEN {{v} : v \in Oldest(rest(p), DOMAIN rest(p))} ELSE {{}}
           kept(p, o) == unindex(idx, p \union o)
<1>1. PICK p \in path : \E o \in over(p) :
        /\ byKey' = With(Without(rest(p), o), k, 0)
        /\ byInst' = IF k \in Range(kept(p, o)[Inst(k)]) THEN kept(p, o)
                     ELSE [kept(p, o) EXCEPT ![Inst(k)] = Append(@, k)]
  BY Zenon DEF upsertDevice
<1>2. PICK o \in over(p) :
        /\ byKey' = With(Without(rest(p), o), k, 0)
        /\ byInst' = IF k \in Range(kept(p, o)[Inst(k)]) THEN kept(p, o)
                     ELSE [kept(p, o) EXCEPT ![Inst(k)] = Append(@, k)]
  BY Zenon, <1>1
<1>h. PICK h : h = heard' OBVIOUS
<1>r. PICK r : r = rest(p) OBVIOUS
<1>3. /\ heard \in [Keys -> -1 .. ObsTTL + 1] /\ DOMAIN byKey \subseteq Keys
      /\ \A y \in DOMAIN byKey : byKey[y] = heard[y] /\ heard[y] # -1
      /\ Indexed(byKey, byInst)
  BY Zenon DEF DiscInv, Retained
<1>4. h[k] = 0 /\ (\A x \in Keys : x # k => h[x] = heard[x]) /\ 0 # -1 BY <1>3, <1>h
<1>5. DOMAIN live = DOMAIN byKey \ Expired(byKey) /\ \A x \in DOMAIN live : live[x] = byKey[x]
  BY Zenon DEF Without
<1>6. Indexed(live, idx) BY Zenon, <1>3, UnindexKeeps
<1>7. DOMAIN r = DOMAIN live \ p /\ \A x \in DOMAIN r : r[x] = live[x]
  BY Zenon, <1>r DEF Without
<1>8. DOMAIN byKey' = (DOMAIN r \ o) \union {k} /\ byKey'[k] = 0
      /\ \A x \in DOMAIN r \ o : x # k => byKey'[x] = r[x]
  <2>1. PICK w : w = Without(r, o) OBVIOUS
  <2>2. DOMAIN w = DOMAIN r \ o /\ \A x \in DOMAIN w : w[x] = r[x] BY Zenon, <2>1 DEF Without
  <2>3. byKey' = With(w, k, 0) BY Zenon, <1>2, <1>r, <2>1
  <2>4. DOMAIN byKey' = DOMAIN w \union {k} /\ byKey'[k] = 0
        /\ \A x \in DOMAIN w : x # k => byKey'[x] = w[x]
    BY Zenon, <2>3 DEF With
  <2> QED BY Zenon, <2>2, <2>4
<1>9. \A x \in DOMAIN live : x \in Keys /\ live[x] = heard[x] /\ heard[x] # -1 BY Zenon, <1>3, <1>5
<1>10. \A x \in DOMAIN byKey' : byKey'[x] = h[x]
  BY Zenon, <1>4, <1>7, <1>8, <1>9
<1>11. DOMAIN byKey' \subseteq DOMAIN byKey \union {k} BY Zenon, <1>5, <1>7, <1>8
<1>12. ASSUME NEW v \in p, v # k PROVE Crowd(follows, h, v)
  <2>0. /\ k \notin DOMAIN live /\ Len(idx[Inst(k)]) >= MaxPaths
        /\ v \in Oldest(live, Range(idx[Inst(k)]))
    <3>1. p # {} BY Zenon, <1>12
    <3>2. p \in path BY Zenon, <1>1
    <3> PICK full, ix, lv : /\ full = (k \notin DOMAIN live /\ Len(idx[Inst(k)]) >= MaxPaths)
                            /\ ix = idx[Inst(k)] /\ lv = live
      OBVIOUS
    <3>3. p \in IF full THEN {{x} : x \in Oldest(lv, Range(ix))} ELSE {{}} BY Zenon, <3>2
    <3> HIDE DEF live, idx, path
    <3>4. full BY Zenon, <3>1, <3>3
    <3>5. PICK x \in Oldest(lv, Range(ix)) : p = {x} BY Zenon, <3>3, <3>4
    <3>6. v = x BY Zenon, <1>12, <3>5
    <3> QED BY Zenon, <3>4, <3>5, <3>6
  <2> PICK q : q = idx[Inst(k)] OBVIOUS
  <2>1. k \notin DOMAIN live /\ Len(q) >= MaxPaths /\ v \in Oldest(live, Range(q))
    BY Zenon, <2>0
  <2>2. q \in Seq(Keys) /\ IsInjective(q) /\ Range(q) = {x \in DOMAIN live : Inst(x) = Inst(k)}
    BY Zenon, <1>6, KeyInstance DEF Indexed
  <2>3. v \in Range(q) /\ \A x \in Range(q) : live[x] <= live[v] BY Zenon, <2>1 DEF Oldest
  <2>4. IsFiniteSet(Range(q)) /\ Len(q) <= Cardinality(Range(q)) BY Zenon, <2>2, KeysFinite, RangeCount
  <2> PICK D : D = Range(q) \union {k} BY Zenon
  <2>5. D \in SUBSET Keys BY Zenon, <1>9, <2>2
  <2>6. Cardinality(D) > MaxPaths
    <3>1. k \notin Range(q) BY Zenon, <2>1, <2>2
    <3>2. Cardinality(D) = Cardinality(Range(q)) + 1 BY Zenon, <2>4, <3>1, FS_AddElement
    <3>3. Cardinality(Range(q)) \in Nat BY Zenon, <2>4, FS_CardinalityType
    <3>4. Len(q) \in Nat BY <2>2
    <3>5. MaxPaths \in Nat BY Zenon, DirectoryAssumption
    <3> HIDE DEF live, idx, path
    <3> QED BY <2>1, <2>4, <3>2, <3>3, <3>4, <3>5
  <2>7. h[v] = heard[v] /\ heard[v] \in Nat
    <3>1. v \in Keys /\ heard[v] # -1 BY Zenon, <1>9, <2>2, <2>3
    <3>2. ObsTTL \in Nat BY Zenon, DirectoryAssumption
    <3>3. heard[v] \in -1 .. ObsTTL + 1 BY Zenon, <1>3, <3>1
    <3>4. h[v] = heard[v] BY Zenon, <1>4, <1>12, <3>1
    <3>5. heard[v] \in Nat BY Zenon, <3>1, <3>2, <3>3, AgeIsNat
    <3> QED BY Zenon, <3>4, <3>5
  <2>8. ASSUME NEW x \in D PROVE h[x] # -1 /\ h[x] <= h[v] /\ Inst(x) = Inst(v)
    <3>1. Inst(v) = Inst(k) BY Zenon, <2>2, <2>3
    <3>2. CASE x = k
      <4>1. 0 <= heard[v] BY Zenon, <2>7, NatIsLow
      <4> QED BY Zenon, <1>4, <2>7, <3>1, <3>2, <4>1
    <3>3. CASE x # k
      <4>1. x \in Range(q) BY Zenon, <3>3
      <4>2. x \in DOMAIN live /\ v \in DOMAIN live /\ Inst(x) = Inst(k) /\ live[x] <= live[v]
        BY Zenon, <2>2, <2>3, <4>1
      <4> QED BY Zenon, <1>4, <1>9, <2>7, <3>1, <3>3, <4>2
    <3> QED BY Zenon, <3>2, <3>3
  <2>9. Crowd("device", h, v) BY Zenon, <2>5, <2>6, <2>8, CrowdPath
  <2> QED BY Zenon, <2>9
<1>13. ASSUME NEW v \in o, v # k PROVE Crowd(follows, h, v)
  <2>1. k \notin DOMAIN r /\ Cardinality(DOMAIN r) >= MaxObs /\ v \in Oldest(r, DOMAIN r)
    BY Zenon, <1>r, <1>13 DEF over
  <2>2. v \in DOMAIN r /\ \A x \in DOMAIN r : r[x] <= r[v] BY Zenon, <2>1 DEF Oldest
  <2>3. \A x \in DOMAIN r : x \in Keys /\ r[x] = heard[x] /\ heard[x] # -1 BY Zenon, <1>7, <1>9
  <2> PICK D : D = DOMAIN r \union {k} BY Zenon
  <2>4. D \in SUBSET Keys /\ DOMAIN r \in SUBSET Keys BY Zenon, <2>3
  <2>5. Cardinality(D) > MaxObs
    <3>1. IsFiniteSet(DOMAIN r) /\ Cardinality(DOMAIN r) \in Nat BY Zenon, <2>4, KeysFinite
    <3>2. Cardinality(D) = Cardinality(DOMAIN r) + 1 BY Zenon, <2>1, <3>1, FS_AddElement
    <3>3. MaxObs \in Nat BY Zenon, DirectoryAssumption
    <3> HIDE DEF live, idx, path
    <3> QED BY <2>1, <3>1, <3>2, <3>3
  <2>6. h[v] = heard[v] /\ heard[v] \in Nat
    <3>1. v \in Keys /\ heard[v] # -1 BY Zenon, <2>2, <2>3
    <3>2. ObsTTL \in Nat BY Zenon, DirectoryAssumption
    <3>3. heard[v] \in -1 .. ObsTTL + 1 BY Zenon, <1>3, <3>1
    <3>4. h[v] = heard[v] BY Zenon, <1>4, <1>13, <3>1
    <3>5. heard[v] \in Nat BY Zenon, <3>1, <3>2, <3>3, AgeIsNat
    <3> QED BY Zenon, <3>4, <3>5
  <2>7. ASSUME NEW x \in D PROVE h[x] # -1 /\ h[x] <= h[v]
    <3>1. CASE x = k
      <4>1. 0 <= heard[v] BY Zenon, <2>6, NatIsLow
      <4> QED BY Zenon, <1>4, <2>6, <3>1, <4>1
    <3>2. CASE x # k
      <4>1. x \in DOMAIN r BY Zenon, <3>2
      <4> QED BY Zenon, <1>4, <2>2, <2>3, <2>6, <3>2, <4>1
    <3> QED BY Zenon, <3>1, <3>2
  <2> QED BY Zenon, <2>4, <2>5, <2>7, CrowdAll
<1>14. ASSUME NEW x \in DOMAIN byKey \union {k}
       PROVE  x \in DOMAIN byKey' \/ ~(h[x] <= MaxWindow) \/ Crowd(follows, h, x)
  <2>1. CASE x = k BY Zenon, <1>8, <2>1
  <2>2. CASE x \in Expired(byKey) /\ x # k BY Zenon, <1>h, <2>2, ExpiredOld
  <2>3. CASE x \in p /\ x # k BY Zenon, <1>12, <2>3
  <2>4. CASE x \in o /\ x # k BY Zenon, <1>13, <2>4
  <2>5. CASE x \in DOMAIN byKey /\ x \notin Expired(byKey) /\ x \notin p /\ x \notin o
    BY Zenon, <1>5, <1>7, <1>8, <2>5
  <2> QED BY Zenon, <2>1, <2>2, <2>3, <2>4, <2>5
<1>15. Retained(byKey', h) /\ Accounted(follows, byKey', h)
  BY Zenon, <1>h, <1>10, <1>11, <1>14, AnnounceAccounts
<1>16. Indexed(byKey', byInst')
  <2>1. Indexed(Without(live, p \union o), kept(p, o)) BY Zenon, <1>6, UnindexKeeps
  <2>2. Without(live, p \union o) = Without(Without(live, p), o)
    <3>1. PICK m : m = live OBVIOUS
    <3>2. DOMAIN m \ (p \union o) = (DOMAIN m \ p) \ o BY Zenon
    <3>3. Without(m, p \union o) = [x \in (DOMAIN m \ p) \ o |-> m[x]] BY Zenon, <3>2 DEF Without
    <3>4. Without(Without(m, p), o) = [x \in (DOMAIN m \ p) \ o |-> m[x]] BY Zenon DEF Without
    <3> QED BY Zenon, <3>1, <3>3, <3>4
  <2>3. Indexed(Without(rest(p), o), kept(p, o)) BY Zenon, <2>1, <2>2
  <2>4. Indexed(With(Without(rest(p), o), k, 0), byInst')
    <3> PICK ob, ix : ob = Without(rest(p), o) /\ ix = kept(p, o) OBVIOUS
    <3>1. byInst' = IF k \in Range(ix[Inst(k)]) THEN ix ELSE [ix EXCEPT ![Inst(k)] = Append(@, k)]
      BY Zenon, <1>2
    <3>2. Indexed(ob, ix) BY Zenon, <2>3
    <3>3. Indexed(With(ob, k, 0), byInst') BY Zenon, <3>1, <3>2, IndexKey
    <3> QED BY Zenon, <3>3
  <2> QED BY Zenon, <1>2, <2>4
<1> QED BY Zenon, <1>h, <1>15, <1>16

\* Time passes in the registries.
LEMMA ElapseAccounts ==
  ASSUME DiscInv, Elapse
  PROVE  /\ heard' \in [Keys -> -1 .. ObsTTL + 1] /\ DOMAIN byKey' = DOMAIN byKey
         /\ Retained(byKey', heard') /\ Accounted(follows, byKey', heard')
<1>0. /\ heard \in [Keys -> -1 .. ObsTTL + 1] /\ DOMAIN byKey \subseteq Keys
      /\ \A y \in DOMAIN byKey : byKey[y] = heard[y] /\ heard[y] # -1
      /\ Accounted(follows, byKey, heard)
  BY Zenon DEF DiscInv, Retained
<1>1. ObsTTL \in Nat /\ MaxWindow \in Nat /\ MaxWindow < ObsTTL BY Zenon, DirectoryAssumption
<1>2. /\ heard' = [k \in Keys |-> older(heard[k], ObsTTL + 1)]
      /\ byKey' = [k \in DOMAIN byKey |-> older(byKey[k], ObsTTL + 1)]
  BY Zenon DEF Elapse
<1>3. \A a \in -1 .. ObsTTL + 1 :
        /\ older(a, ObsTTL + 1) \in -1 .. ObsTTL + 1
        /\ (older(a, ObsTTL + 1) = -1 <=> a = -1)
        /\ (older(a, ObsTTL + 1) <= MaxWindow => a <= MaxWindow)
  BY <1>1 DEF older
<1>4. \A a, b \in -1 .. ObsTTL + 1 :
        a # -1 /\ a <= b => older(a, ObsTTL + 1) <= older(b, ObsTTL + 1)
  BY <1>1 DEF older
<1>5. heard' \in [Keys -> -1 .. ObsTTL + 1] BY Zenon, <1>0, <1>2, <1>3
<1>6. \A x \in Keys : /\ heard'[x] = older(heard[x], ObsTTL + 1) /\ heard[x] \in -1 .. ObsTTL + 1
                      /\ (heard'[x] = -1 <=> heard[x] = -1)
                      /\ (heard'[x] <= MaxWindow => heard[x] <= MaxWindow)
  BY Zenon, <1>0, <1>2, <1>3
<1>7. DOMAIN byKey' = DOMAIN byKey /\ \A x \in DOMAIN byKey : byKey'[x] = older(byKey[x], ObsTTL + 1)
  BY Zenon, <1>2
<1>8. Retained(byKey', heard') BY Zenon, <1>0, <1>6, <1>7 DEF Retained
<1>9. ASSUME NEW k \in Keys, heard'[k] # -1, heard'[k] <= MaxWindow
      PROVE  k \in DOMAIN byKey' \/ Crowd(follows, heard', k)
  <2>1. k \in DOMAIN byKey \/ Crowd(follows, heard, k) BY Zenon, <1>0, <1>6, <1>9 DEF Accounted
  <2>2. ASSUME NEW x \in Newer(heard, k) PROVE x \in Newer(heard', k)
    <3>1. x \in Keys /\ heard[x] # -1 /\ heard[x] <= heard[k] BY Zenon DEF Newer
    <3>2. heard'[x] <= heard'[k] BY Zenon, <1>4, <1>6, <3>1
    <3> QED BY Zenon, <1>6, <3>1, <3>2 DEF Newer
  <2>3. Newer(heard, k) \subseteq Newer(heard', k) BY Zenon, <2>2
  <2> QED BY Zenon, <1>7, <2>1, <2>3, CrowdGrows
<1> QED BY Zenon, <1>5, <1>7, <1>8, <1>9 DEF Accounted

\* A discovery collects what it heard.
LEMMA CollectedFinds ==
  ASSUME DiscInv, Collected
  PROVE  FoundAll'
<1> PICK R, H : R = ObservationsSince /\ H = Heard OBVIOUS
<1>0. /\ heard \in [Keys -> -1 .. ObsTTL + 1] /\ since \in -1 .. MaxWindow
      /\ DOMAIN byKey \subseteq Keys
      /\ \A y \in DOMAIN byKey : byKey[y] = heard[y] /\ heard[y] # -1
      /\ Accounted(follows, byKey, heard)
  BY Zenon DEF DiscInv, Retained
<1>1. found'.returned = R /\ found'.heard = H /\ follows' = follows
  BY Zenon DEF Collected
<1>2. ObsTTL \in Nat /\ MaxWindow \in Nat /\ MaxObs \in Nat /\ MaxPaths \in Nat
  BY Zenon, DirectoryAssumption
<1>3. R \subseteq H BY Zenon, <1>0 DEF ObservationsSince, Heard
<1>4. ASSUME NEW k \in H, k \notin R,
             Cardinality(H) <= MaxObs,
             follows = "device" => \A i \in Instances : Cardinality({x \in H : Inst(x) = i}) <= MaxPaths
      PROVE  FALSE
  <2>1. k \in Keys /\ heard[k] # -1 /\ heard[k] <= since BY Zenon DEF Heard
  <2>2. k \notin DOMAIN byKey BY Zenon, <1>0, <1>4, <2>1 DEF ObservationsSince
  <2>3. heard[k] \in Int /\ since \in Int /\ since <= MaxWindow
    <3>1. heard[k] \in -1 .. ObsTTL + 1 BY Zenon, <1>0, <2>1
    <3> QED BY <1>0, <1>2, <3>1
  <2>4. heard[k] <= MaxWindow BY <1>2, <2>1, <2>3
  <2>5. Crowd(follows, heard, k) BY Zenon, <1>0, <2>1, <2>2, <2>4 DEF Accounted
  <2>6. ASSUME NEW x \in Newer(heard, k) PROVE x \in H
    <3>1. x \in Keys /\ heard[x] # -1 /\ heard[x] <= heard[k] BY Zenon DEF Newer
    <3>2. heard[x] \in -1 .. ObsTTL + 1 BY Zenon, <1>0, <3>1
    <3>3. heard[x] <= since BY <1>2, <2>1, <2>3, <3>1, <3>2
    <3> QED BY Zenon, <3>1, <3>3 DEF Heard
  <2> PICK N, N1, H1 : /\ N = Newer(heard, k) /\ N1 = {x \in Newer(heard, k) : Inst(x) = Inst(k)}
                       /\ H1 = {x \in H : Inst(x) = Inst(k)}
    BY Zenon
  <2>7. /\ N \in SUBSET Keys /\ N1 \in SUBSET Keys /\ H \in SUBSET Keys /\ H1 \in SUBSET Keys
        /\ N \subseteq H /\ N1 \subseteq H1
    BY Zenon, <2>6 DEF Newer, Heard
  <2>8. /\ Cardinality(N) \in Nat /\ Cardinality(N1) \in Nat /\ Cardinality(H) \in Nat
        /\ Cardinality(H1) \in Nat
        /\ Cardinality(N) <= Cardinality(H) /\ Cardinality(N1) <= Cardinality(H1)
    BY Zenon, <2>7, KeysFinite
  <2>9. CASE Cardinality(N) > MaxObs
    <3>1. Cardinality(H) <= MaxObs BY Zenon, <1>4
    <3> QED BY <1>2, <2>8, <2>9, <3>1
  <2>10. CASE follows = "device" /\ Cardinality(N1) > MaxPaths
    <3>1. Cardinality(H1) <= MaxPaths BY Zenon, <1>4, <2>1, <2>10, KeyInstance
    <3> QED BY <1>2, <2>8, <2>10, <3>1
  <2> QED BY Zenon, <2>5, <2>9, <2>10 DEF Crowd
<1>5. /\ Cardinality(H) <= MaxObs
      /\ (follows = "device" => \A i \in Instances : Cardinality({k \in H : Inst(k) = i}) <= MaxPaths)
      => R = H
  BY Zenon, <1>3, <1>4
<1> QED BY Zenon, <1>1, <1>3, <1>5 DEF FoundAll

\* A discovery returns only what was announced within its window, and all of it unless more was
\* announced than the registry has room for: for any keys, instances, limits and windows shorter than
\* the lifetime of observations.
THEOREM DiscoveriesAreComplete == DirSpec => []DiscoverComplete
<1>0. /\ ObsTTL \in Nat /\ MaxWindow \in Nat /\ MaxObs \in Nat /\ MaxPaths \in Nat
      /\ -1 \in -1 .. ObsTTL + 1 /\ 0 \in -1 .. ObsTTL + 1 /\ 0 \in -1 .. MaxWindow
      /\ -1 \in -1 .. MaxWindow
  <2>1. ObsTTL \in Nat /\ MaxWindow \in Nat /\ MaxObs \in Nat /\ MaxPaths \in Nat
    BY Zenon, DirectoryAssumption
  <2> QED BY <2>1
<1>1. DirInit => DiscInv
  <2> SUFFICES ASSUME DirInit PROVE DiscInv OBVIOUS
  <2>1. /\ follows \in {"device", "object", "route"} /\ byKey = <<>> /\ since = -1
        /\ byInst = [i \in Instances |-> <<>>] /\ heard = [k \in Keys |-> -1]
        /\ found = [returned |-> {}, heard |-> {}]
    BY Zenon DEF DirInit
  <2>2. DOMAIN byKey = {} BY <2>1
  <2>3. Retained(byKey, heard) BY Zenon, <2>2 DEF Retained
  <2>4. Accounted(follows, byKey, heard) BY Zenon, <2>1 DEF Accounted
  <2>5. <<>> \in Seq(Keys) /\ IsInjective(<<>>) /\ Range(<<>>) = {} BY DEF IsInjective, Range
  <2>6. Indexed(byKey, byInst)
    <3>1. byInst \in [Instances -> Seq(Keys)] /\ \A i \in Instances : byInst[i] = <<>> BY Zenon, <2>1, <2>5
    <3> QED BY Zenon, <2>2, <2>5, <3>1 DEF Indexed
  <2>7. FoundAll BY Zenon, <2>1 DEF FoundAll
  <2>8. heard \in [Keys -> -1 .. ObsTTL + 1] BY Zenon, <1>0, <2>1
  <2> QED BY Zenon, <1>0, <2>1, <2>3, <2>4, <2>6, <2>7, <2>8 DEF DiscInv
<1>2. DiscInv /\ [DirNext]_dirVars => DiscInv'
  <2> SUFFICES ASSUME DiscInv, [DirNext]_dirVars PROVE DiscInv' OBVIOUS
  <2>0. /\ follows \in {"device", "object", "route"} /\ since \in -1 .. MaxWindow
        /\ heard \in [Keys -> -1 .. ObsTTL + 1] /\ FoundAll
        /\ Retained(byKey, heard) /\ Accounted(follows, byKey, heard)
        /\ follows = "device" => Indexed(byKey, byInst)
    BY Zenon DEF DiscInv
  <2>1. ASSUME NEW k \in Keys, Announce(k) PROVE DiscInv'
    <3>1. /\ follows \in {"device", "object"} /\ upsert(k) /\ heard' = [heard EXCEPT ![k] = 0]
          /\ follows' = follows /\ since' = since /\ found' = found
      BY Zenon, <2>1 DEF Announce
    <3>2. heard' \in [Keys -> -1 .. ObsTTL + 1] BY Zenon, <1>0, <2>0, <3>1
    <3>3. FoundAll' BY Zenon, <2>0, <3>1 DEF FoundAll
    <3>4. CASE follows = "device"
      <4>1. upsertDevice(k) BY Zenon, <3>1, <3>4 DEF upsert
      <4>2. Retained(byKey', heard') /\ Accounted(follows, byKey', heard') /\ Indexed(byKey', byInst')
        BY Zenon, <3>1, <3>4, <4>1, UpsertDeviceKeeps
      <4> QED BY Zenon, <2>0, <3>1, <3>2, <3>3, <4>2 DEF DiscInv
    <3>5. CASE follows = "object"
      <4>0. "object" # "device" OBVIOUS
      <4>1. upsertObject(k) BY Zenon, <3>1, <3>5, <4>0 DEF upsert
      <4>2. Retained(byKey', heard') /\ Accounted(follows, byKey', heard')
        BY Zenon, <3>1, <3>5, <4>1, UpsertObjectKeeps
      <4> QED BY Zenon, <2>0, <3>1, <3>2, <3>3, <3>5, <4>0, <4>2 DEF DiscInv
    <3> QED BY Zenon, <3>1, <3>4, <3>5
  <2>2. CASE Discover
    <3>1. /\ since' = 0
          /\ UNCHANGED <<follows, byKey, byInst, heard, found>>
      BY Zenon, <2>2 DEF Discover
    <3>2. since' \in -1 .. MaxWindow BY Zenon, <1>0, <3>1
    <3> QED BY Zenon, <2>0, <3>1, <3>2 DEF DiscInv, FoundAll
  <2>3. CASE Collected
    <3>1. /\ since' = -1
          /\ UNCHANGED <<follows, byKey, byInst, heard>>
      BY Zenon, <2>3 DEF Collected
    <3>2. since' \in -1 .. MaxWindow BY Zenon, <1>0, <3>1
    <3>3. FoundAll' BY Zenon, <2>3, CollectedFinds
    <3> QED BY Zenon, <2>0, <3>1, <3>2, <3>3 DEF DiscInv
  <2>4. CASE Elapse
    <3>1. /\ UNCHANGED <<follows, byInst, found>> /\ since' = older(since, MaxWindow)
          /\ since < MaxWindow
      BY Zenon, <2>4 DEF Elapse
    <3>2. since' \in -1 .. MaxWindow BY <1>0, <2>0, <3>1 DEF older
    <3>3. /\ heard' \in [Keys -> -1 .. ObsTTL + 1] /\ DOMAIN byKey' = DOMAIN byKey
          /\ Retained(byKey', heard') /\ Accounted(follows, byKey', heard')
      BY Zenon, <2>4, ElapseAccounts
    <3>4. follows = "device" => Indexed(byKey', byInst') BY Zenon, <2>0, <3>1, <3>3 DEF Indexed
    <3> QED BY Zenon, <2>0, <3>1, <3>2, <3>3, <3>4 DEF DiscInv, FoundAll
  <2>5. CASE UNCHANGED <<follows, byKey, byInst, since, heard, found>>
    BY Zenon, <2>0, <2>5 DEF DiscInv, FoundAll
  <2>6. \A n \in Networks, h \in Hops, msg \in {"iam", "busy", "available", "reject"} :
          handleNetworkMessage(n, h, msg) => UNCHANGED <<follows, byKey, byInst, since, heard, found>>
    BY Zenon DEF handleNetworkMessage
  <2>7. \A n \in Networks : ResolveTarget(n) => UNCHANGED <<follows, byKey, byInst, since, heard, found>>
    BY Zenon DEF ResolveTarget
  <2>8. UNCHANGED dirVars => UNCHANGED <<follows, byKey, byInst, since, heard, found>>
    BY Zenon DEF dirVars
  <2> QED BY Zenon, <2>1, <2>2, <2>3, <2>4, <2>5, <2>6, <2>7, <2>8 DEF DirNext
<1>3. DiscInv => DiscoverComplete
  <2> SUFFICES ASSUME DiscInv PROVE DiscoverComplete OBVIOUS
  <2>1. FoundAll BY Zenon DEF DiscInv
  <2>2. ASSUME follows = "device"
        PROVE  /\ UNION {Range(byInst[i]) : i \in Instances} = DOMAIN byKey
               /\ \A i \in Instances : IsInjective(byInst[i]) /\ \A k \in Range(byInst[i]) : Inst(k) = i
    <3>1. \A i \in Instances : /\ IsInjective(byInst[i])
                               /\ Range(byInst[i]) = {k \in DOMAIN byKey : Inst(k) = i}
      BY Zenon, <2>2 DEF DiscInv, Indexed
    <3>2. \A k \in DOMAIN byKey : Inst(k) \in Instances BY Zenon, KeyInstance DEF DiscInv, Retained
    <3>3. \A k \in DOMAIN byKey : k \in Range(byInst[Inst(k)]) BY Zenon, <3>1, <3>2
    <3>4. \A i \in Instances : \A k \in Range(byInst[i]) : k \in DOMAIN byKey /\ Inst(k) = i BY Zenon, <3>1
    <3>5. UNION {Range(byInst[i]) : i \in Instances} = DOMAIN byKey
      <4>1. ASSUME NEW k \in UNION {Range(byInst[i]) : i \in Instances} PROVE k \in DOMAIN byKey
        <5> PICK i \in Instances : k \in Range(byInst[i]) BY <4>1
        <5> QED BY Zenon, <3>4
      <4>2. ASSUME NEW k \in DOMAIN byKey PROVE k \in UNION {Range(byInst[i]) : i \in Instances}
        BY <3>2, <3>3
      <4> QED BY Zenon, <4>1, <4>2
    <3> QED BY Zenon, <3>1, <3>4, <3>5
  <2> QED BY Zenon, <2>1, <2>2 DEF FoundAll, DiscoverComplete
<1> QED BY <1>1, <1>2, <1>3, PTL DEF DirSpec

------------------------------------------------------------------------------
(***************************************************************************)
(* Event detection, acknowledgment and reporting.                          *)
(***************************************************************************)
\* Every step of the server, deletions included.
Step == Next \/ RemoveName \/ \E p \in Points : RemoveLock(p)

\* The types of what detection, acknowledgment and reporting share.
EventTypes ==
  /\ eventState \in [Points -> States]
  /\ acked \in [Points -> SUBSET Transitions]
  /\ stamps \in [Points -> [Transitions -> Nat]]
  /\ past \in [Points -> SUBSET [state : States, stamp : Nat]]
  /\ owed \in [Points -> [Transitions -> Nat \union {NotOwed}]]
  /\ now \in Nat
  /\ pc \in {"wait", "drain", "batch", "ackRequired", "report"}
  /\ note \in [point : Points, to : States] \union {None}
  /\ told \in [Recipients -> [Points -> States \union {"unknown"}]]

\* Time stamps never lie in the future, and what is owed is never newer than
\* the stamp acknowledgeLocked compares an acknowledgment with.
StampsInOrder ==
  \A p \in Points, t \in Transitions :
    stamps[p][t] <= now /\ owed[p][t] <= stamps[p][t]

\* acked and the acknowledgments owed change together, lock held or not.
OwedIsUnacked ==
  \A p \in Points, t \in Transitions : owed[p][t] # NotOwed <=> t \notin acked[p]

\* The engine has a transition in hand exactly from Evaluate to Report, and
\* it leads to the state the point is in.
NoteIsCurrent ==
  /\ pc \in {"ackRequired", "report"} <=> note # None
  /\ note # None => note.to = eventState[note.point]

\* The inductive invariant.
EInv == EventTypes /\ StampsInOrder /\ OwedIsUnacked /\ NoteIsCurrent /\ RecipientIsCurrent

------------------------------------------------------------------------------
\* transitionOf classes every event state as one of the three transitions
\* (eventStateTransition).
LEMMA TransitionType == \A s \in States : transitionOf(s) \in Transitions
BY Zenon DEF States, Transitions, transitionOf

\* What EvaluateEvents decides for a point is an event state.
LEMMA DetectionType ==
  ASSUME NEW p \in Points, eventState[p] \in States
  PROVE  Detection(p).to \in States
<1> DEFINE s == eventState[p]
<1>1. outOfRange(cfg[p], value[p], s) \in States
  BY Zenon DEF outOfRange, States
<1>2. changeOfState(cfg[p], value[p], s) \in States
  BY Zenon DEF changeOfState, States
<1>3. condition(p) \in States
  BY Zenon, <1>1, <1>2 DEF condition
<1>4. QED
  BY Zenon, <1>3 DEF Detection, States

\* The server starts with nothing detected and nothing owed.
LEMMA EventsStart == Init => EInv
BY EventsAssumption DEF Init, EInv, EventTypes, StampsInOrder, OwedIsUnacked, NoteIsCurrent,
  RecipientIsCurrent, States, Transitions, NotOwed

\* Steps that touch neither the event states nor the engine's transition nor
\* what was acknowledged, owed and told keep the invariant (the application's
\* changes, dispatching them, Ack_Required, deletions, waking the engine).
LEMMA OtherSteps ==
  ASSUME EInv, now' \in Nat, now <= now',
         UNCHANGED <<eventState, acked, stamps, past, owed, note, told>>,
         \/ UNCHANGED pc
         \/ pc \in {"wait", "drain"} /\ pc' \in {"wait", "drain", "batch"}
  PROVE  EInv'
<1>1. EventTypes'
  BY Zenon DEF EInv, EventTypes
<1>2. StampsInOrder'
  BY DEF EInv, EventTypes, StampsInOrder, Transitions, NotOwed
<1>3. OwedIsUnacked'
  BY Zenon DEF EInv, OwedIsUnacked
<1>4. NoteIsCurrent'
  BY Zenon DEF EInv, EventTypes, NoteIsCurrent
<1>5. RecipientIsCurrent'
  BY Zenon DEF EInv, RecipientIsCurrent
<1>6. QED
  BY Zenon, <1>1, <1>2, <1>3, <1>4, <1>5 DEF EInv

\* AcknowledgeAlarm: an accepted acknowledgment carries a time stamp no older
\* than that of the transition it is for, so it settles what is owed.
LEMMA AcknowledgeKeeps ==
  ASSUME EInv, NEW w \in Writers, NEW p \in Points, AcknowledgeAlarm(w, p)
  PROVE  EInv'
<1> USE DEF AcknowledgeAlarm, pointVars, classVars, engineVars
<1>1. PICK a \in past[p] :
        /\ AckAccepted(p, a.state, a.stamp)
        /\ acked' = [acked EXCEPT ![p] = @ \union {transitionOf(a.state)}]
        /\ owed' = [owed EXCEPT ![p][transitionOf(a.state)] =
                      IF @ <= a.stamp THEN NotOwed ELSE @]
  BY Zenon
<1> DEFINE t == transitionOf(a.state)
<1>2. a.state \in States /\ a.stamp \in Nat /\ t \in Transitions
  BY TransitionType DEF EInv, EventTypes
<1> HIDE DEF t
<1>3. owed[p][t] \in Nat \union {NotOwed} /\ stamps[p][t] \in Nat
  BY <1>2 DEF EInv, EventTypes
<1>4. owed[p][t] <= a.stamp
  <2>1. CASE t \notin acked[p]
    BY <2>1, <1>1, <1>2, <1>3 DEF AckAccepted, EInv, StampsInOrder, NotOwed, t
  <2>2. CASE t \in acked[p]
    BY <2>2, <1>2, <1>3 DEF EInv, OwedIsUnacked, NotOwed
  <2>3. QED
    BY Zenon, <2>1, <2>2
<1>5. /\ acked' = [acked EXCEPT ![p] = @ \union {t}]
      /\ owed' = [owed EXCEPT ![p][t] = NotOwed]
  BY Zenon, <1>1, <1>4 DEF t
<1>6. EventTypes'
  BY <1>2, <1>5 DEF EInv, EventTypes
<1>7. StampsInOrder'
  BY <1>2, <1>3, <1>5 DEF EInv, EventTypes, StampsInOrder, NotOwed
<1>8. OwedIsUnacked'
  BY <1>2, <1>5 DEF EInv, EventTypes, OwedIsUnacked
<1>9. NoteIsCurrent' /\ RecipientIsCurrent'
  BY Zenon DEF EInv, NoteIsCurrent, RecipientIsCurrent
<1>10. QED
  BY Zenon, <1>6, <1>7, <1>8, <1>9 DEF EInv

\* EvaluateEvents: the only step that changes an event state takes the
\* transition in hand with it, stamped with the present time.
LEMMA EvaluateKeeps ==
  ASSUME EInv, NEW p \in Points, Evaluate(p)
  PROVE  EInv'
<1> DEFINE d == Detection(p)
           tr == transitionOf(d.to)
           moves == p \in table /\ cfg[p].detect /\ Transits(p, d.to)
<1>1. d.to \in States /\ tr \in Transitions
  BY Zenon, DetectionType, TransitionType DEF EInv, EventTypes
<1>2. /\ pc = "batch" /\ note = None
      /\ UNCHANGED <<acked, past, owed, now, told>>
  BY Zenon DEF Evaluate, EInv, NoteIsCurrent
<1>3. CASE moves
  <2> HIDE DEF d, tr
  <2>1. /\ eventState' = [eventState EXCEPT ![p] = d.to]
        /\ stamps' = [stamps EXCEPT ![p][tr] = now]
        /\ note' = [point |-> p, to |-> d.to]
        /\ pc' = "ackRequired"
    BY Zenon, <1>3 DEF Evaluate, transition, d, tr, moves
  <2>2. EventTypes'
    BY Zenon, <1>1, <1>2, <2>1 DEF EInv, EventTypes
  <2>3. StampsInOrder'
    BY <1>1, <1>2, <2>1 DEF EInv, EventTypes, StampsInOrder, NotOwed
  <2>4. OwedIsUnacked'
    BY Zenon, <1>2 DEF EInv, OwedIsUnacked
  <2>5. NoteIsCurrent'
    BY <1>1, <2>1, EventsAssumption DEF EInv, EventTypes, NoteIsCurrent, States
  <2>6. RecipientIsCurrent'
    BY <1>1, <1>2, <2>1, EventsAssumption DEF EInv, EventTypes, RecipientIsCurrent, States
  <2>7. QED
    BY Zenon, <2>2, <2>3, <2>4, <2>5, <2>6 DEF EInv
<1>4. CASE ~moves
  <2>1. UNCHANGED <<eventState, stamps, note>> /\ pc' \in {"wait", "batch"}
    BY Zenon, <1>4 DEF Evaluate, Done, d, moves
  <2>2. EventTypes' /\ StampsInOrder' /\ OwedIsUnacked'
    BY Zenon, <1>2, <2>1 DEF EInv, EventTypes, StampsInOrder, OwedIsUnacked
  <2>3. NoteIsCurrent' /\ RecipientIsCurrent'
    BY Zenon, <1>2, <2>1 DEF EInv, NoteIsCurrent, RecipientIsCurrent
  <2>4. QED
    BY Zenon, <2>2, <2>3 DEF EInv
<1>5. QED
  BY Zenon, <1>3, <1>4

\* AckRequired: what the transition now owes carries its own time stamp.
LEMMA AckRequiredKeeps ==
  ASSUME EInv, AckRequired
  PROVE  EInv'
<1> DEFINE p == note.point
           tr == transitionOf(note.to)
           need == cfg[p].class /\ tr \in ackReq
<1>1. pc = "ackRequired" /\ note \in [point : Points, to : States]
  BY Zenon DEF AckRequired, EInv, EventTypes, NoteIsCurrent
<1>2. p \in Points /\ note.to \in States /\ tr \in Transitions
  BY Zenon, <1>1, TransitionType
<1>3. /\ acked' = IF need THEN [acked EXCEPT ![p] = @ \ {tr}] ELSE acked
      /\ owed' = IF need THEN [owed EXCEPT ![p][tr] = stamps[p][tr]] ELSE owed
      /\ past' = [past EXCEPT ![p] = @ \union {[state |-> note.to, stamp |-> stamps[p][tr]]}]
      /\ pc' = "report"
      /\ UNCHANGED <<eventState, stamps, now, note, told>>
  BY Zenon DEF AckRequired
<1> HIDE DEF p, tr, need
<1>4. stamps[p][tr] \in Nat
  BY Zenon, <1>2 DEF EInv, EventTypes
<1>5. EventTypes'
  <2>1. acked' \in [Points -> SUBSET Transitions]
    BY Zenon, <1>3 DEF EInv, EventTypes
  <2>2. owed' \in [Points -> [Transitions -> Nat \union {NotOwed}]]
    BY Zenon, <1>2, <1>3, <1>4 DEF EInv, EventTypes
  <2>3. past' \in [Points -> SUBSET [state : States, stamp : Nat]]
    BY <1>2, <1>3, <1>4 DEF EInv, EventTypes
  <2>4. QED
    BY Zenon, <1>3, <2>1, <2>2, <2>3 DEF EInv, EventTypes
<1>6. StampsInOrder'
  BY <1>2, <1>3, <1>4 DEF EInv, EventTypes, StampsInOrder
<1>7. OwedIsUnacked'
  BY <1>2, <1>3, <1>4 DEF EInv, EventTypes, OwedIsUnacked, NotOwed
<1>8. NoteIsCurrent' /\ RecipientIsCurrent'
  BY Zenon, <1>1, <1>3 DEF EInv, NoteIsCurrent, RecipientIsCurrent
<1>9. QED
  BY Zenon, <1>5, <1>6, <1>7, <1>8 DEF EInv

\* Report: whoever is told is told the state the point still has.
LEMMA ReportKeeps ==
  ASSUME EInv, Report
  PROVE  EInv'
<1> DEFINE p == note.point
<1>1. /\ note \in [point : Points, to : States]
      /\ note.to = eventState[p]
  BY Zenon DEF Report, EInv, EventTypes, NoteIsCurrent
<1>2. PICK reached \in SUBSET Recipients :
        told' = [r \in Recipients |-> [told[r] EXCEPT ![p] =
                   IF r \in reached /\ Sent(r, p) THEN note.to ELSE "unknown"]]
  BY Zenon DEF Report
<1>3. /\ note' = None /\ pc' \in {"wait", "batch"}
      /\ UNCHANGED <<eventState, acked, stamps, past, owed, now>>
  BY Zenon DEF Report, Done, eventVars
<1> HIDE DEF p
<1>4. EventTypes'
  BY Zenon, <1>1, <1>2, <1>3 DEF EInv, EventTypes
<1>5. StampsInOrder' /\ OwedIsUnacked'
  BY Zenon, <1>3 DEF EInv, StampsInOrder, OwedIsUnacked
<1>6. NoteIsCurrent'
  BY Zenon, <1>3 DEF NoteIsCurrent
<1>7. RecipientIsCurrent'
  <2> SUFFICES ASSUME NEW r \in Recipients, NEW q \in Points
               PROVE  told'[r][q] \in {eventState[q], "unknown"}
    BY Zenon, <1>3 DEF RecipientIsCurrent
  <2>1. CASE q = p
    BY Zenon, <2>1, <1>1, <1>2 DEF EInv, EventTypes
  <2>2. CASE q # p
    BY Zenon, <2>2, <1>2 DEF EInv, EventTypes, RecipientIsCurrent, p
  <2>3. QED
    BY Zenon, <2>1, <2>2
<1>8. QED
  BY Zenon, <1>4, <1>5, <1>6, <1>7 DEF EInv

\* Every step keeps the invariant.
LEMMA EventsStep == EInv /\ [Step]_vars => EInv'
<1> SUFFICES ASSUME EInv, [Step]_vars PROVE EInv'
  BY Zenon
<1> USE DEF pointVars, eventVars, classVars, engineVars
<1>0. now \in Nat /\ now <= now
  BY DEF EInv, EventTypes
<1>1. ASSUME NEW w \in Writers, NEW p \in Points, Change(w, p) PROVE EInv'
  BY Zenon, <1>0, <1>1, OtherSteps DEF Change
<1>2. ASSUME NEW w \in Writers, Notify(w) PROVE EInv'
  BY Zenon, <1>0, <1>2, OtherSteps DEF Notify
<1>3. CASE Reconfigure
  BY Zenon, <1>0, <1>3, OtherSteps DEF Reconfigure
<1>4. CASE Tick
  BY <1>0, <1>4, OtherSteps DEF Tick
<1>5. CASE Wake
  BY Zenon, <1>0, <1>5, OtherSteps DEF Wake
<1>6. CASE Drain
  BY Zenon, <1>0, <1>6, OtherSteps DEF Drain
<1>7. CASE RemoveName
  BY Zenon, <1>0, <1>7, OtherSteps DEF RemoveName
<1>8. ASSUME NEW p \in Points, RemoveLock(p) PROVE EInv'
  BY Zenon, <1>0, <1>8, OtherSteps DEF RemoveLock
<1>9. CASE UNCHANGED vars
  BY Zenon, <1>0, <1>9, OtherSteps DEF vars
<1>10. QED
  BY Zenon, <1>1, <1>2, <1>3, <1>4, <1>5, <1>6, <1>7, <1>8, <1>9, AcknowledgeKeeps, EvaluateKeeps,
     AckRequiredKeeps, ReportKeeps DEF Step, Next

\* The invariant holds with and without deletions.
LEMMA EventsInvariant == Spec \/ SpecRemove => []EInv
<1>1. EInv /\ [Next]_vars => EInv'
  BY Zenon, EventsStep DEF Step
<1>2. EInv /\ [Next \/ RemoveName \/ \E p \in Points : RemoveLock(p)]_vars => EInv'
  BY Zenon, EventsStep DEF Step
<1>3. QED
  BY <1>1, <1>2, EventsStart, PTL DEF Spec, SpecRemove

------------------------------------------------------------------------------
(***************************************************************************)
(* No change of a point is lost on its way to the engine.                  *)
(***************************************************************************)
\* An evaluation of the point is still to come: it is marked, in the batch
\* the engine works on, about to be marked by the goroutine that changed it,
\* or by the engine after the transition it is making.
Due(p) ==
  \/ p \in dirty \/ p \in batch
  \/ \E w \in Writers : writer[w] = p
  \/ pc = "ackRequired" /\ note.point = p

\* Whenever event detection would move a point of the device to another
\* state, or report another fault, an evaluation of the point is to come.
ChangesAreDue ==
  \A p \in table : cfg[p].detect /\ Transits(p, Detection(p).to) => Due(p)

\* Whenever a point is marked the engine is about to drain the marks or has a
\* wake-up waiting, although the channel has one slot for all of them.
MarksAreWoken ==
  /\ pc # "drain" /\ dirty # {} => kick
  /\ batch # {} => pc \in {"batch", "ackRequired", "report"}
  /\ pc = "report" => note.point \in dirty

\* The points and the marks of the engine.
PointTypes ==
  /\ value = [p \in Points |-> value[p]]
  /\ reliability = [p \in Points |-> reliability[p]]
  /\ cfg = [p \in Points |-> cfg[p]]
  /\ pending = [p \in Points |-> pending[p]]
  /\ held = [p \in Points |-> held[p]]
  /\ lastFault = [p \in Points |-> lastFault[p]]
  /\ table \subseteq Points /\ dirty \subseteq Points /\ batch \subseteq Points
  /\ writer \in [Writers -> Points \union {None}]

DInv == EInv /\ PointTypes /\ MarksAreWoken /\ ChangesAreDue

\* A new server has every point marked and the engine woken.
LEMMA DueStart == Init => DInv
<1> SUFFICES ASSUME Init PROVE DInv
  BY Zenon
<1>1. PointTypes
  BY Zenon, EventsAssumption DEF Init, PointTypes
<1>2. MarksAreWoken /\ ChangesAreDue
  BY Zenon DEF Init, MarksAreWoken, ChangesAreDue, Due
<1>3. QED
  BY Zenon, <1>1, <1>2, EventsStart DEF DInv

\* The evaluation of a point depends on that point only.
LEMMA DetectionLocal ==
  ASSUME NEW q, value'[q] = value[q], reliability'[q] = reliability[q], cfg'[q] = cfg[q],
         eventState'[q] = eventState[q], pending'[q] = pending[q], held'[q] = held[q],
         lastFault'[q] = lastFault[q], cfg'[q].detect, Transits(q, Detection(q).to)'
  PROVE  cfg[q].detect /\ Transits(q, Detection(q).to)
<1>1. currentReliability(q)' = currentReliability(q)
  BY Zenon DEF currentReliability
<1>2. condition(q)' = condition(q)
  BY Zenon DEF condition
<1>3. Detection(q)' = Detection(q)
  BY Zenon, <1>1, <1>2 DEF Detection
<1>4. QED
  BY Zenon, <1>1, <1>3 DEF Transits

\* A second evaluation of a point, with nothing changed in between, decides
\* what the first one did: the condition that pends keeps its time.
LEMMA DetectionStable ==
  ASSUME NEW p \in Points, PointTypes, UNCHANGED <<pointVars, eventState, lastFault>>,
         pending' = [pending EXCEPT ![p] = Detection(p).pending],
         held' = [held EXCEPT ![p] = Detection(p).held]
  PROVE  Transits(p, Detection(p).to)' <=> Transits(p, Detection(p).to)
<1>1. currentReliability(p)' = currentReliability(p)
  BY Zenon DEF currentReliability, pointVars
<1>2. condition(p)' = condition(p)
  BY Zenon DEF condition, pointVars
<1>3. pending'[p] = Detection(p).pending /\ held'[p] = Detection(p).held
  BY Zenon DEF PointTypes
<1>4. Detection(p).to' = Detection(p).to
  <2> DEFINE rel == currentReliability(p)
             from == eventState[p]
             next == condition(p)
  <2>1. CASE rel # 0
    BY Zenon, <2>1, <1>1 DEF Detection
  <2>2. CASE rel = 0 /\ from = "fault"
    BY Zenon, <2>2, <1>1, <1>2 DEF Detection
  <2>3. CASE rel = 0 /\ from # "fault" /\ next = from
    BY Zenon, <2>3, <1>1, <1>2 DEF Detection
  <2>4. CASE rel = 0 /\ from # "fault" /\ next # from
    <3>1. Detection(p).pending = next /\ pending'[p] = next
      BY Zenon, <2>4, <1>3 DEF Detection
    <3>2. held'[p] = IF next = pending[p] THEN held[p] ELSE 0
      BY Zenon, <2>4, <1>3 DEF Detection
    <3>3. cfg' = cfg /\ eventState' = eventState
      BY Zenon DEF pointVars
    <3>4. QED
      BY Zenon, <2>4, <3>1, <3>2, <3>3, <1>1, <1>2 DEF Detection
  <2>5. QED
    BY Zenon, <2>1, <2>2, <2>3, <2>4
<1>5. QED
  BY Zenon, <1>1, <1>4 DEF Transits

\* The two ways a step keeps ChangesAreDue: what was due stays due, and a
\* point whose evaluation has become different is due.
LEMMA DueKept ==
  ASSUME ChangesAreDue, table' \subseteq table,
         \A q \in table' : Due(q) => Due(q)',
         \A q \in table' : cfg'[q].detect /\ Transits(q, Detection(q).to)'
                             => (cfg[q].detect /\ Transits(q, Detection(q).to)) \/ Due(q)'
  PROVE  ChangesAreDue'
BY Zenon DEF ChangesAreDue

\* A change of a point makes it due through the goroutine that changed it.
LEMMA ChangeDue ==
  ASSUME DInv, NEW w \in Writers, NEW p \in Points, Change(w, p)
  PROVE  PointTypes' /\ MarksAreWoken' /\ ChangesAreDue'
<1> USE DEF Change, eventVars, engineVars, DInv
<1>1. PointTypes'
  BY Zenon DEF PointTypes, SetPresentValue, SetReliability, WriteEventProperty
<1>2. MarksAreWoken'
  BY Zenon DEF MarksAreWoken
<1>3. writer' = [writer EXCEPT ![w] = p] /\ writer[w] = None /\ writer'[w] = p
  BY Zenon DEF PointTypes
<1>4. Due(p)'
  BY Zenon, <1>3 DEF Due
<1>5. ASSUME NEW q \in table', Due(q) PROVE Due(q)'
  BY Zenon, <1>3, <1>5, EventsAssumption DEF Due, PointTypes
<1>6. ASSUME NEW q \in table', q # p
      PROVE  value'[q] = value[q] /\ reliability'[q] = reliability[q] /\ cfg'[q] = cfg[q]
  BY Zenon, <1>6 DEF PointTypes, SetPresentValue, SetReliability, WriteEventProperty
<1>7. ASSUME NEW q \in table', cfg'[q].detect, Transits(q, Detection(q).to)'
      PROVE  (cfg[q].detect /\ Transits(q, Detection(q).to)) \/ Due(q)'
  BY Zenon, <1>4, <1>6, <1>7, DetectionLocal
<1>8. ChangesAreDue'
  BY Zenon, <1>5, <1>7, DueKept
<1>9. QED
  BY Zenon, <1>1, <1>2, <1>8

\* Steps that leave every point as it is, and drop no mark.
LEMMA PassiveDue ==
  ASSUME DInv, PointTypes', MarksAreWoken',
         UNCHANGED <<pointVars, eventState, pending, held, lastFault>>, table' \subseteq table,
         \A q \in table' : Due(q) => Due(q)'
  PROVE  ChangesAreDue'
<1>1. ASSUME NEW q \in table', cfg'[q].detect, Transits(q, Detection(q).to)'
      PROVE  cfg[q].detect /\ Transits(q, Detection(q).to)
  BY Zenon, <1>1, DetectionLocal DEF pointVars
<1>2. QED
  BY Zenon, <1>1, DueKept DEF DInv

\* An acknowledgment changes nothing detection looks at.
LEMMA AcknowledgeDue ==
  ASSUME DInv, NEW w \in Writers, NEW p \in Points, AcknowledgeAlarm(w, p)
  PROVE  PointTypes' /\ MarksAreWoken' /\ ChangesAreDue'
<1> USE DEF AcknowledgeAlarm, pointVars, engineVars, DInv
<1>1. PointTypes'
  BY Zenon DEF PointTypes
<1>2. MarksAreWoken'
  BY Zenon DEF MarksAreWoken
<1>3. writer' = [writer EXCEPT ![w] = p] /\ writer[w] = None
  BY Zenon
<1>4. ASSUME NEW q \in table', Due(q) PROVE Due(q)'
  BY Zenon, <1>3, <1>4, EventsAssumption DEF Due, PointTypes
<1>5. QED
  BY Zenon, <1>1, <1>2, <1>4, PassiveDue

\* Dispatching a change marks the point if the device still has it.
LEMMA NotifyDue ==
  ASSUME DInv, NEW w \in Writers, Notify(w)
  PROVE  PointTypes' /\ MarksAreWoken' /\ ChangesAreDue'
<1> USE DEF Notify, pointVars, eventVars, engineVars, DInv, mark
<1>1. PointTypes'
  BY Zenon DEF PointTypes
<1>2. MarksAreWoken'
  BY Zenon DEF MarksAreWoken, PointTypes
<1>3. ASSUME NEW q \in table', Due(q) PROVE Due(q)'
  <2>1. CASE writer[w] = q
    BY Zenon, <2>1 DEF Due
  <2>2. CASE writer[w] # q
    BY Zenon, <2>2, <1>3 DEF Due, PointTypes
  <2>3. QED
    BY Zenon, <2>1, <2>2
<1>4. QED
  BY Zenon, <1>1, <1>2, <1>3, PassiveDue

\* The housekeeping marks every point of the device.
LEMMA TickDue ==
  ASSUME DInv, Tick
  PROVE  PointTypes' /\ MarksAreWoken' /\ ChangesAreDue'
<1> USE DEF Tick, tick, mark, pointVars, engineVars, DInv
<1>1. PointTypes'
  BY Zenon DEF PointTypes
<1>2. MarksAreWoken'
  BY Zenon DEF MarksAreWoken
<1>3. ChangesAreDue'
  BY Zenon DEF ChangesAreDue, Due
<1>4. QED
  BY Zenon, <1>1, <1>2, <1>3

\* Waking and draining: the marks become the batch.
LEMMA DrainDue ==
  ASSUME DInv, Wake \/ Drain
  PROVE  PointTypes' /\ MarksAreWoken' /\ ChangesAreDue'
<1> USE DEF Wake, Drain, pointVars, eventVars, DInv
<1>1. PointTypes'
  BY Zenon DEF PointTypes
<1>2. MarksAreWoken'
  BY Zenon DEF MarksAreWoken
<1>3. ASSUME NEW q \in table', Due(q) PROVE Due(q)'
  BY Zenon, <1>3 DEF Due, MarksAreWoken
<1>4. QED
  BY Zenon, <1>1, <1>2, <1>3, PassiveDue

\* An evaluation that leaves the point where it is settles it; one that moves
\* the point leaves it due.
LEMMA EvaluateDue ==
  ASSUME DInv, NEW p \in Points, Evaluate(p)
  PROVE  PointTypes' /\ MarksAreWoken' /\ ChangesAreDue'
<1> DEFINE d == Detection(p)
           detects == p \in table /\ cfg[p].detect
           moves == detects /\ Transits(p, d.to)
<1> USE DEF DInv
<1>1. /\ pc = "batch" /\ p \in batch
      /\ UNCHANGED <<pointVars, writer, dirty, kick, table>>
      /\ IF detects
         THEN pending' = [pending EXCEPT ![p] = d.pending] /\ held' = [held EXCEPT ![p] = d.held]
         ELSE UNCHANGED <<pending, held>>
  BY Zenon DEF Evaluate, pointVars
<1>2. CASE moves
  <2> HIDE DEF d
  <2>1. /\ eventState' = [eventState EXCEPT ![p] = d.to]
        /\ lastFault' = IF d.to = "fault"
                        THEN [lastFault EXCEPT ![p] = currentReliability(p)] ELSE lastFault
        /\ note' = [point |-> p, to |-> d.to] /\ pc' = "ackRequired" /\ batch' = batch
    BY Zenon, <1>2 DEF Evaluate, transition, d, moves, detects
  <2>2. PointTypes'
    BY Zenon, <1>1, <2>1 DEF PointTypes, pointVars
  <2>3. MarksAreWoken'
    BY Zenon, <1>1, <2>1 DEF MarksAreWoken
  <2>4. \A q \in table' : Due(q) => Due(q)'
    BY Zenon, <1>1, <2>1 DEF Due
  <2>5. Due(p)'
    BY Zenon, <2>1 DEF Due
  <2>6. ASSUME NEW q \in table', cfg'[q].detect, Transits(q, Detection(q).to)', q # p
        PROVE  cfg[q].detect /\ Transits(q, Detection(q).to)
    <3>1. /\ value'[q] = value[q] /\ reliability'[q] = reliability[q] /\ cfg'[q] = cfg[q]
          /\ q \in Points
      BY Zenon, <1>1, <2>6 DEF pointVars, PointTypes
    <3>2. /\ eventState'[q] = eventState[q] /\ lastFault'[q] = lastFault[q]
          /\ pending'[q] = pending[q] /\ held'[q] = held[q]
      BY Zenon, <1>1, <2>1, <2>6, <3>1 DEF PointTypes, EInv, EventTypes
    <3>3. QED
      BY Zenon, <2>6, <3>1, <3>2, DetectionLocal
  <2>7. ChangesAreDue'
    BY Zenon, <1>1, <2>4, <2>5, <2>6, DueKept
  <2>8. QED
    BY Zenon, <2>2, <2>3, <2>7
<1>3. CASE ~moves
  <2>1. /\ UNCHANGED <<eventState, lastFault, note>>
        /\ batch' = batch \ {p} /\ pc' = IF batch \ {p} = {} THEN "wait" ELSE "batch"
    BY Zenon, <1>3 DEF Evaluate, Done, d, moves, detects
  <2>2. PointTypes'
    <3> HIDE DEF d
    <3>1. QED
      BY Zenon, <1>1, <2>1 DEF PointTypes, pointVars
  <2>3. MarksAreWoken'
    BY Zenon, <1>1, <2>1 DEF MarksAreWoken
  <2>4. ASSUME NEW q \in table', q # p
        PROVE  /\ Due(q) => Due(q)'
               /\ cfg'[q].detect /\ Transits(q, Detection(q).to)'
                    => cfg[q].detect /\ Transits(q, Detection(q).to)
    <3> HIDE DEF d
    <3>1. Due(q) => Due(q)'
      BY Zenon, <1>1, <2>1, <2>4 DEF Due
    <3>2. /\ value'[q] = value[q] /\ reliability'[q] = reliability[q] /\ cfg'[q] = cfg[q]
          /\ eventState'[q] = eventState[q] /\ lastFault'[q] = lastFault[q] /\ q \in Points
      BY Zenon, <1>1, <2>1, <2>4 DEF pointVars, PointTypes
    <3>3. pending'[q] = pending[q] /\ held'[q] = held[q]
      BY Zenon, <1>1, <2>4, <3>2 DEF PointTypes
    <3>4. QED
      BY Zenon, <3>1, <3>2, <3>3, DetectionLocal
  <2>5. ASSUME p \in table', cfg'[p].detect PROVE ~Transits(p, Detection(p).to)'
    <3>1. detects
      BY Zenon, <1>1, <2>5 DEF pointVars
    <3>2. UNCHANGED <<pointVars, eventState, lastFault>>
      BY Zenon, <1>1, <2>1
    <3>3. ~Transits(p, Detection(p).to)
      BY Zenon, <1>3, <3>1
    <3>4. QED
      BY Zenon, <1>1, <3>1, <3>2, <3>3, DetectionStable
  <2>6. ChangesAreDue'
    BY Zenon, <1>1, <2>4, <2>5 DEF ChangesAreDue
  <2>7. QED
    BY Zenon, <2>2, <2>3, <2>6
<1>4. QED
  BY Zenon, <1>2, <1>3

\* The engine marks the point whose transition it makes again, and forgets
\* the point in its batch only after that.
LEMMA TransitionDue ==
  ASSUME DInv, AckRequired \/ Report
  PROVE  PointTypes' /\ MarksAreWoken' /\ ChangesAreDue'
<1> USE DEF DInv
<1>1. UNCHANGED <<value, reliability, cfg, eventState, pending, held, lastFault, table, writer>>
  BY Zenon DEF AckRequired, Report, pointVars, eventVars
<1>2. note.point \in Points
  BY Zenon DEF AckRequired, Report, EInv, EventTypes, NoteIsCurrent
<1>3. CASE AckRequired
  <2>1. /\ dirty' = dirty \union {note.point} /\ kick' = TRUE /\ pc' = "report"
        /\ UNCHANGED <<batch, note>> /\ pc = "ackRequired"
    BY Zenon, <1>3 DEF AckRequired, mark
  <2>2. PointTypes'
    BY Zenon, <1>1, <1>2, <2>1 DEF PointTypes
  <2>3. MarksAreWoken'
    BY Zenon, <2>1 DEF MarksAreWoken
  <2>4. \A q \in table' : Due(q) => Due(q)'
    BY Zenon, <1>1, <2>1 DEF Due
  <2>5. QED
    BY Zenon, <1>1, <2>2, <2>3, <2>4, PassiveDue DEF pointVars
<1>4. CASE Report
  <2>1. /\ batch' = batch \ {note.point} /\ pc = "report"
        /\ pc' = IF batch \ {note.point} = {} THEN "wait" ELSE "batch"
        /\ UNCHANGED <<dirty, kick>>
    BY Zenon, <1>4 DEF Report, Done
  <2>2. PointTypes'
    BY Zenon, <1>1, <2>1 DEF PointTypes
  <2>3. MarksAreWoken'
    BY Zenon, <2>1 DEF MarksAreWoken
  <2>4. \A q \in table' : Due(q) => Due(q)'
    BY Zenon, <1>1, <2>1 DEF Due, MarksAreWoken
  <2>5. QED
    BY Zenon, <1>1, <2>2, <2>3, <2>4, PassiveDue DEF pointVars
<1>5. QED
  BY Zenon, <1>3, <1>4

\* Every step keeps the invariant.
LEMMA DueStep == DInv /\ [Step]_vars => DInv'
<1> SUFFICES ASSUME DInv, [Step]_vars PROVE DInv'
  BY Zenon
<1> DEFINE Goal == PointTypes' /\ MarksAreWoken' /\ ChangesAreDue'
<1>1. EInv'
  BY Zenon, EventsStep DEF DInv
<1>2. ASSUME \/ Reconfigure \/ RemoveName \/ (\E p \in Points : RemoveLock(p))
             \/ UNCHANGED vars
      PROVE  Goal
  <2>1. /\ UNCHANGED <<value, reliability, cfg, eventState, pending, held, lastFault, writer,
                       dirty, kick, pc, batch, note>>
        /\ table' \subseteq table
    BY Zenon, <1>2 DEF Reconfigure, RemoveName, RemoveLock, vars, pointVars, eventVars, engineVars
  <2>2. PointTypes' /\ MarksAreWoken'
    BY Zenon, <2>1 DEF DInv, PointTypes, MarksAreWoken
  <2>3. \A q \in table' : Due(q) => Due(q)'
    BY Zenon, <2>1 DEF Due
  <2>4. QED
    BY Zenon, <2>1, <2>2, <2>3, PassiveDue DEF pointVars
<1>3. Goal
  BY Zenon, <1>2, ChangeDue, AcknowledgeDue, NotifyDue, TickDue, DrainDue, EvaluateDue, TransitionDue
     DEF Step, Next
<1>4. QED
  BY Zenon, <1>1, <1>3 DEF DInv

\* The invariant holds with and without deletions.
LEMMA DueInvariant == Spec \/ SpecRemove => []DInv
<1>1. DInv /\ [Next]_vars => DInv'
  BY Zenon, DueStep DEF Step
<1>2. DInv /\ [Next \/ RemoveName \/ \E p \in Points : RemoveLock(p)]_vars => DInv'
  BY Zenon, DueStep DEF Step
<1>3. QED
  BY <1>1, <1>2, DueStart, PTL DEF Spec, SpecRemove

------------------------------------------------------------------------------
\* What detection, acknowledgment and reporting share keeps its types.
THEOREM EventTypesKept == Spec \/ SpecRemove => []EventTypes
BY EventsInvariant, PTL DEF EInv

\* AlarmsStayOwed: a transition that needed an acknowledgment counts as
\* unacknowledged exactly until it, or a later one of its kind, is
\* acknowledged, however acknowledgments, transitions, writes of Ack_Required
\* and deletions interleave (acknowledgeLocked compares time stamps).
THEOREM AlarmsAreOwed == Spec \/ SpecRemove => []AlarmsStayOwed
<1>1. EInv => AlarmsStayOwed
  BY Zenon DEF EInv, OwedIsUnacked, AlarmsStayOwed
<1>2. QED
  BY <1>1, EventsInvariant, PTL

\* RecipientIsCurrent: a recipient that got the last notification of a point
\* knows its event state, since the one engine goroutine reports a transition
\* before it evaluates again (eventEngine.run).
THEOREM RecipientsAreCurrent == Spec \/ SpecRemove => []RecipientIsCurrent
BY EventsInvariant, PTL DEF EInv

\* No change is lost on its way to event detection, the safety half of
\* DetectionComesToRest: a point that detection would move is marked, in the
\* engine's batch, or about to be marked, whatever the order in which a change
\* under the point's lock, its dispatch, the engine's own transition and the
\* draining of the marks happen (EventEngine.mark, run, evaluate).
THEOREM NoChangeLost == Spec \/ SpecRemove => []ChangesAreDue
BY DueInvariant, PTL DEF DInv

\* No wake-up is lost: with a point marked the engine is draining the marks or
\* its one-slot channel holds a wake-up (EventEngine.mark drops a second one).
THEOREM NoWakeUpLost == Spec \/ SpecRemove => []MarksAreWoken
BY DueInvariant, PTL DEF DInv

------------------------------------------------------------------------------
(***************************************************************************)
(* The client's streams: modules Subscription and EventDelivery.           *)
(***************************************************************************)
\* A sequence is a function on its positions, and such a function a sequence.
LEMMA SeqFacts ==
  ASSUME NEW S, NEW s \in Seq(S)
  PROVE  Len(s) \in Nat /\ s \in [1 .. Len(s) -> S] /\ DOMAIN s = 1 .. Len(s)
OBVIOUS

\* A function on 1 .. n is a sequence of length n.
LEMMA FunctionIsSeq ==
  ASSUME NEW S, NEW n \in Nat, NEW f \in [1 .. n -> S]
  PROVE  f \in Seq(S) /\ Len(f) = n
OBVIOUS

------------------------------------------------------------------------------
\* Taking the head off a queue.
LEMMA TailFacts ==
  ASSUME NEW S, NEW q \in Seq(S), q # <<>>
  PROVE  /\ Len(q) \in Nat \ {0} /\ q[1] \in S /\ Head(q) = q[1]
         /\ Tail(q) \in Seq(S) /\ Len(Tail(q)) = Len(q) - 1
         /\ \A i \in 1 .. Len(q) - 1 : Tail(q)[i] = q[i + 1]
OBVIOUS

\* Adding to the end of a queue.
LEMMA AppendFacts ==
  ASSUME NEW S, NEW q \in Seq(S), NEW e \in S
  PROVE  /\ Append(q, e) \in Seq(S) /\ Len(Append(q, e)) = Len(q) + 1
         /\ Append(q, e)[Len(q) + 1] = e
         /\ \A i \in 1 .. Len(q) : Append(q, e)[i] = q[i]
OBVIOUS

------------------------------------------------------------------------------
(***************************************************************************)
(* The event queue of a subscription.                                      *)
(***************************************************************************)
EventKinds == {"active", "renewing", "degraded", "note", "closed"}
QueueTypes == queue \in Seq([kind : EventKinds, gap : BOOLEAN])

\* The slot kept for Closed is free until Closed is sent.
SlotIsFree == ~chClosed => Len(queue) <= Capacity

\* The inductive invariant of the queue.
QInv == QueueTypes /\ SlotIsFree /\ EndsWithClosed

\* Sending an event through send, by whichever goroutine: a subscription that
\* has failed to start stays failed.
LEMMA SendKeeps ==
  ASSUME QInv, NEW kind \in EventKinds, NEW s, send(kind, s), UNCHANGED lastRead,
         start = "failed" <=> start' = "failed"
  PROVE  QInv'
<1>0. Capacity \in Nat
  BY Zenon, SubscriptionAssumption
<1>1. CASE chClosed \/ (s = "closed" /\ kind # "closed")
  BY Zenon, <1>1 DEF send, queueVars, QInv, QueueTypes, SlotIsFree, EndsWithClosed
<1>2. CASE ~chClosed /\ ~(s = "closed" /\ kind # "closed") /\ Full(kind)
  <2>1. kind # "closed"
    BY <1>0, <1>2 DEF Full, QInv, SlotIsFree, QueueTypes
  <2>2. queue' = queue /\ ~chClosed'
    BY Zenon, <1>2, <2>1 DEF send
  <2>3. QED
    BY Zenon, <1>2, <2>2 DEF QInv, QueueTypes, SlotIsFree, EndsWithClosed
<1>3. CASE ~chClosed /\ ~(s = "closed" /\ kind # "closed") /\ ~Full(kind)
  <2> DEFINE e == [kind |-> kind, gap |-> gapPending /\ kind # "closed"]
  <2>1. queue' = Append(queue, e)
    BY Zenon, <1>3 DEF send
  <2>3. (kind = "closed" /\ chClosed') \/ (kind # "closed" /\ ~chClosed')
    BY <1>3, Zenon DEF send
  <2>4. e \in [kind : EventKinds, gap : BOOLEAN] /\ e.kind = kind
    BY Zenon
  <2> HIDE DEF e
  <2>5. /\ queue' \in Seq([kind : EventKinds, gap : BOOLEAN]) /\ Len(queue') = Len(queue) + 1
        /\ queue'[Len(queue) + 1] = e /\ Len(queue) \in Nat /\ queue' # <<>>
    BY <2>1, <2>4, AppendFacts DEF QInv, QueueTypes
  <2>8. SlotIsFree'
    BY <1>0, <1>3, <2>3, <2>5 DEF Full, SlotIsFree
  <2>9. EndsWithClosed'
    BY Zenon, <2>3, <2>4, <2>5 DEF EndsWithClosed
  <2>10. QED
    BY Zenon, <2>5, <2>8, <2>9 DEF QInv, QueueTypes
<1>4. QED
  BY Zenon, <1>1, <1>2, <1>3

\* The application reads the oldest event.
LEMMA ReadKeeps ==
  ASSUME QInv, Read
  PROVE  QInv'
<1>1. /\ queue # <<>> /\ queue' = Tail(queue) /\ lastRead' = queue[1].kind
      /\ UNCHANGED <<chClosed, gapPending, start>>
  BY DEF Read
<1>2. QueueTypes' /\ SlotIsFree'
  BY <1>1, SubscriptionAssumption DEF QInv, QueueTypes, SlotIsFree
<1>3. EndsWithClosed'
  <2>0. /\ Len(queue) \in Nat \ {0} /\ Len(queue') = Len(queue) - 1 /\ queue' \in Seq([kind : EventKinds, gap : BOOLEAN])
        /\ \A i \in 1 .. Len(queue) - 1 : queue'[i] = queue[i + 1]
    BY Zenon, <1>1, TailFacts DEF QInv, QueueTypes
  <2> SUFFICES ASSUME chClosed, start # "failed"
               PROVE  IF queue' = <<>> THEN queue[1].kind = "closed"
                                       ELSE queue'[Len(queue')].kind = "closed"
    BY Zenon, <1>1 DEF EndsWithClosed
  <2>1. queue[Len(queue)].kind = "closed"
    BY Zenon, <1>1 DEF QInv, EndsWithClosed
  <2>2. CASE Len(queue) = 1
    BY <2>0, <2>1, <2>2
  <2>3. CASE Len(queue) # 1
    <3>1. Len(queue) - 1 \in 1 .. Len(queue) - 1 /\ queue' # <<>>
      BY <2>0, <2>3
    <3>2. queue'[Len(queue')] = queue[Len(queue)]
      BY <2>0, <3>1
    <3>3. QED
      BY Zenon, <2>1, <3>1, <3>2
  <2>4. QED
    BY Zenon, <2>2, <2>3
<1>4. QED
  BY Zenon, <1>2, <1>3 DEF QInv

\* What a subscription starts with.
LEMMA QueueStart == DeliveryInit => QInv
BY SubscriptionAssumption DEF DeliveryInit, SubInit, QInv, QueueTypes, SlotIsFree, EndsWithClosed

\* Every step keeps the invariant of the queue: events are added by send only,
\* and the channel is closed by send or because the subscription failed.
LEMMA QueueStep == QInv /\ [DeliveryNext]_deliveryVars => QInv'
<1> SUFFICES ASSUME QInv, [DeliveryNext]_deliveryVars PROVE QInv'
  BY Zenon
<1>1. ASSUME UNCHANGED <<queueVars, lastRead>>, start = "failed" <=> start' = "failed"
      PROVE  QInv'
  BY Zenon, <1>1 DEF queueVars, QInv, QueueTypes, SlotIsFree, EndsWithClosed
<1>2. CASE SubscribeFailed
  BY Zenon, <1>2 DEF SubscribeFailed, fail, QInv, QueueTypes, SlotIsFree, EndsWithClosed
<1>3. CASE SubscribeStarted
  BY Zenon, <1>3, SendKeeps DEF SubscribeStarted, EventKinds
<1>4. CASE RenewAnnounced
  BY Zenon, <1>4, SendKeeps DEF RenewAnnounced, EventKinds
<1>5. CASE RenewReported
  BY Zenon, <1>5, SendKeeps DEF RenewReported, EventKinds
<1>6. CASE Deliver
  BY Zenon, <1>6, SendKeeps DEF Deliver, EventKinds
<1>7. CASE CloseReturns
  BY Zenon, <1>1, <1>7, SendKeeps DEF CloseReturns, EventKinds
<1>8. CASE CloseAllReturns
  BY Zenon, <1>1, <1>8, SendKeeps DEF CloseAllReturns, EventKinds
<1>9. CASE Read
  BY Zenon, <1>9, ReadKeeps
<1>10. CASE Device \/ \E i \in Issuers : GiveUp(i)
  BY Zenon, <1>1, <1>10 DEF Device, GiveUp
<1>11. CASE Subscribe \/ SubscribeStored
  BY Zenon, <1>1, <1>11 DEF Subscribe, SubscribeStored
<1>12. CASE RenewDue \/ RenewEnds \/ RenewIssued \/ RenewAnswered \/ Lookup
  BY Zenon, <1>1, <1>12 DEF RenewDue, RenewEnds, RenewIssued, RenewAnswered, Lookup
<1>13. CASE CloseEnter \/ CloseIssue \/ ClientClose \/ CloseAll \/ CloseAllEnter
  BY Zenon, <1>1, <1>13 DEF CloseEnter, CloseIssue, ClientClose, CloseAll, CloseAllEnter
<1>14. CASE UNCHANGED allSub
  BY Zenon, <1>1, <1>14 DEF allSub, subVars
<1>15. CASE SubNext
  BY Zenon, <1>2, <1>3, <1>4, <1>5, <1>6, <1>7, <1>8, <1>9, <1>10, <1>11, <1>12, <1>13, <1>15
     DEF SubNext
<1>16. QED
  BY Zenon, <1>14, <1>15 DEF DeliveryNext, deliveryVars, OpenEventStream, CloseStream, Uninstall, ReadStream, Arrive,
     ToStream, ToDispatcher, DispatchOverflow, Work, DispatcherClose

------------------------------------------------------------------------------
(***************************************************************************)
(* Closing: whichever of Close and closeAll runs first owns the once, and  *)
(* both wait for the renewal loop.                                         *)
(***************************************************************************)
\* Everything a closer relies on: done means the renewal loop is gone (or
\* never came to be), the once is over only after done, and the state word is
\* closed by the owner of the once only.
CloseOrder ==
  /\ done => renew = "ended" \/ start = "failed"
  /\ start # "ok" => renew = "none"
  /\ close # "idle" => start = "ok"
  /\ once = "over" \/ close = "returned" => done
  /\ state = "closed" => once # "free"

\* Client.Close: closeCh first, then the subscriptions, then the dispatcher,
\* and at the end no renewal is past its look at closeCh.
ClientCloseOrder ==
  /\ clientClose # "idle" => clientClosed
  /\ dispatcherClose # "idle" => clientClosed
  /\ dispatcherClose = "returned" => renew # "transmit"

WireTypes == wire \in Seq([by : Issuers \union {"gone"}])

\* The inductive invariant of closing.
CInv == WireTypes /\ CloseOrder /\ ClientCloseOrder

\* What the client starts with.
LEMMA CloseStart == DeliveryInit => CInv
BY DEF DeliveryInit, SubInit, CInv, WireTypes, CloseOrder, ClientCloseOrder

\* transmit puts a request on its way.
LEMMA TransmitType ==
  ASSUME WireTypes, NEW i \in Issuers, transmit(i)
  PROVE  WireTypes'
BY DEF transmit, WireTypes

\* An issuer that gives up leaves its datagram on the way.
LEMMA GiveUpType ==
  ASSUME WireTypes, NEW i \in Issuers, GiveUp(i)
  PROVE  WireTypes' /\ Len(wire') = Len(wire)
<1>0. wire \in Seq([by : Issuers \union {"gone"}])
  BY Zenon DEF WireTypes
<1>1. /\ wire \in Seq([by : Issuers \union {"gone"}])
      /\ wire' = [n \in 1 .. Len(wire) |-> IF wire[n].by = i THEN [wire[n] EXCEPT !.by = "gone"]
                                                             ELSE wire[n]]
  BY DEF WireTypes, GiveUp
<1>2. ASSUME NEW n \in 1 .. Len(wire) PROVE wire'[n] \in [by : Issuers \union {"gone"}]
  <2>1. wire[n] \in [by : Issuers \union {"gone"}]
    BY Zenon, <1>0, SeqFacts
  <2>2. [wire[n] EXCEPT !.by = "gone"] \in [by : Issuers \union {"gone"}]
    BY Zenon, <2>1
  <2>3. wire'[n] \in {wire[n], [wire[n] EXCEPT !.by = "gone"]}
    BY Zenon, <1>1
  <2>4. QED
    BY Zenon, <2>1, <2>2, <2>3
<1>3. Len(wire) \in Nat /\ wire' \in [1 .. Len(wire) -> [by : Issuers \union {"gone"}]]
  <2> DEFINE T == [by : Issuers \union {"gone"}]
  <2>1. Len(wire) \in Nat
    BY <1>1
  <2>2. \A n \in 1 .. Len(wire) : wire'[n] \in T
    BY Zenon, <1>2
  <2>3. wire' = [n \in 1 .. Len(wire) |-> wire'[n]]
    BY Zenon, <1>1
  <2> HIDE DEF T
  <2>4. wire' \in [1 .. Len(wire) -> T]
    BY Zenon, <2>2, <2>3
  <2>5. QED
    BY Zenon, <2>1, <2>4 DEF T
<1>4. wire' \in Seq([by : Issuers \union {"gone"}])
  BY Zenon, <1>3, FunctionIsSeq
<1>5. DOMAIN wire' = 1 .. Len(wire)
  BY Zenon, <1>3
<1>6. Len(wire') = Len(wire)
  BY <1>3, <1>4, <1>5, SeqFacts
<1>7. QED
  BY Zenon, <1>4, <1>6 DEF WireTypes

\* The device takes one datagram, or the network loses it.
LEMMA DeviceType ==
  ASSUME WireTypes, Device
  PROVE  WireTypes' /\ Len(wire') = Len(wire) - 1
BY Zenon, TailFacts DEF WireTypes, Device

\* send leaves a closed state word closed and closes none.
LEMMA SendState ==
  ASSUME NEW kind \in EventKinds, send(kind, state), state' = "closed"
  PROVE  state = "closed"
BY Zenon DEF send

\* A step adds no datagram once Close or Client.Close has returned.
Quiet == close = "returned" \/ (dispatcherClose = "returned" /\ Used) => Len(wire') <= Len(wire)

\* Steps that send nothing are quiet.
LEMMA UnchangedIsQuiet ==
  ASSUME WireTypes, UNCHANGED wire
  PROVE  WireTypes' /\ Quiet
BY DEF WireTypes, Quiet

\* The call that starts the subscription.
LEMMA StartCloses ==
  ASSUME CInv, Subscribe \/ SubscribeFailed \/ SubscribeStored \/ SubscribeStarted,
         UNCHANGED evVars
  PROVE  CInv' /\ Quiet
<1> USE DEF CInv
<1>1. ClientCloseOrder'
  BY Zenon DEF ClientCloseOrder, CloseOrder, evVars, dispatchVars, Subscribe, SubscribeFailed,
     SubscribeStored, SubscribeStarted
<1>2. CASE Subscribe
  <2>1. WireTypes' /\ Quiet
    BY Zenon, <1>2, TransmitType, UnchangedIsQuiet DEF Subscribe, issue, Issuers, Quiet, Used, CloseOrder
  <2>2. CloseOrder'
    BY Zenon, <1>2 DEF Subscribe, CloseOrder
  <2>3. QED
    BY Zenon, <1>1, <2>1, <2>2
<1>3. CASE SubscribeFailed
  <2>1. CloseOrder'
    BY Zenon, <1>3 DEF SubscribeFailed, fail, CloseOrder
  <2>2. QED
    BY Zenon, <1>1, <1>3, <2>1, UnchangedIsQuiet DEF SubscribeFailed
<1>4. CASE SubscribeStored
  <2>1. CloseOrder'
    BY Zenon, <1>4 DEF SubscribeStored, CloseOrder
  <2>2. QED
    BY Zenon, <1>1, <1>4, <2>1, UnchangedIsQuiet DEF SubscribeStored
<1>5. CASE SubscribeStarted
  <2>1. CloseOrder'
    BY Zenon, <1>5, SendState DEF SubscribeStarted, CloseOrder, EventKinds
  <2>2. QED
    BY Zenon, <1>1, <1>5, <2>1, UnchangedIsQuiet DEF SubscribeStarted
<1>6. QED
  BY Zenon, <1>2, <1>3, <1>4, <1>5

\* The renewal loop: a renewal past its look at the context is waited for.
LEMMA RenewCloses ==
  ASSUME CInv, RenewDue \/ Renew, UNCHANGED evVars
  PROVE  CInv' /\ Quiet
<1> USE DEF CInv, Renew
<1>1. dispatcherClose' = dispatcherClose
  BY Zenon DEF evVars, dispatchVars
<1>2. CASE RenewDue
  <2>1. CloseOrder' /\ ClientCloseOrder'
    BY Zenon, <1>1, <1>2 DEF RenewDue, CloseOrder, ClientCloseOrder
  <2>2. QED
    BY Zenon, <1>2, <2>1, UnchangedIsQuiet DEF RenewDue
<1>3. CASE RenewEnds
  <2>1. CloseOrder' /\ ClientCloseOrder'
    BY Zenon, <1>1, <1>3 DEF RenewEnds, CloseOrder, ClientCloseOrder
  <2>2. QED
    BY Zenon, <1>3, <2>1, UnchangedIsQuiet DEF RenewEnds
<1>4. CASE RenewAnnounced
  <2>1. CloseOrder' /\ ClientCloseOrder'
    BY Zenon, <1>1, <1>4, SendState DEF RenewAnnounced, CloseOrder, ClientCloseOrder, EventKinds
  <2>2. QED
    BY Zenon, <1>4, <2>1, UnchangedIsQuiet DEF RenewAnnounced
<1>5. CASE RenewIssued
  <2>1. CloseOrder' /\ ClientCloseOrder'
    BY Zenon, <1>1, <1>5 DEF RenewIssued, CloseOrder, ClientCloseOrder
  <2>2. CASE renew = "issue"
    BY Zenon, <1>5, <2>1, <2>2, UnchangedIsQuiet DEF RenewIssued
  <2>3. CASE renew = "transmit"
    <3>1. WireTypes'
      BY Zenon, <1>5, <2>3, TransmitType DEF RenewIssued, Issuers
    <3>2. Quiet
      BY Zenon, <2>3 DEF Quiet, CloseOrder, ClientCloseOrder
    <3>3. QED
      BY Zenon, <2>1, <3>1, <3>2
  <2>4. QED
    BY Zenon, <1>5, <2>2, <2>3 DEF RenewIssued
<1>6. CASE RenewAnswered
  <2>1. CloseOrder' /\ ClientCloseOrder'
    BY Zenon, <1>1, <1>6 DEF RenewAnswered, CloseOrder, ClientCloseOrder
  <2>2. QED
    BY Zenon, <1>6, <2>1, UnchangedIsQuiet DEF RenewAnswered
<1>7. CASE RenewReported
  <2>1. CloseOrder' /\ ClientCloseOrder'
    BY Zenon, <1>1, <1>7, SendState DEF RenewReported, CloseOrder, ClientCloseOrder, EventKinds
  <2>2. QED
    BY Zenon, <1>7, <2>1, UnchangedIsQuiet DEF RenewReported
<1>8. QED
  BY Zenon, <1>2, <1>3, <1>4, <1>5, <1>6, <1>7

\* Subscription.Close: it swaps the state word inside the once, cancels, and
\* returns after the renewal loop ended.
LEMMA CloseCloses ==
  ASSUME CInv, CloseEnter \/ CloseIssue \/ CloseReturns, UNCHANGED evVars
  PROVE  CInv' /\ Quiet
<1> USE DEF CInv
<1>1. ClientCloseOrder'
  BY Zenon DEF ClientCloseOrder, evVars, dispatchVars, CloseEnter, CloseIssue, CloseReturns
<1>2. CASE CloseEnter
  <2>1. CloseOrder'
    BY Zenon, <1>2 DEF CloseEnter, CloseOrder
  <2>2. QED
    BY Zenon, <1>1, <1>2, <2>1, UnchangedIsQuiet DEF CloseEnter
<1>3. CASE CloseIssue
  <2>1. CloseOrder'
    BY Zenon, <1>3 DEF CloseIssue, CloseOrder
  <2>2. CASE clientClosed
    BY Zenon, <1>1, <1>3, <2>1, <2>2, UnchangedIsQuiet DEF CloseIssue, issue
  <2>3. CASE ~clientClosed
    <3>1. WireTypes'
      BY Zenon, <1>3, <2>3, TransmitType DEF CloseIssue, issue, Issuers
    <3>2. Quiet
      BY Zenon, <1>3, <2>3 DEF CloseIssue, Quiet, ClientCloseOrder
    <3>3. QED
      BY Zenon, <1>1, <2>1, <3>1, <3>2
  <2>4. QED
    BY Zenon, <2>2, <2>3
<1>4. CASE CloseReturns
  <2>1. CloseOrder'
    BY Zenon, <1>4, SendState DEF CloseReturns, CloseOrder, EventKinds, awaitDone
  <2>2. QED
    BY Zenon, <1>1, <1>4, <2>1, UnchangedIsQuiet DEF CloseReturns
<1>5. QED
  BY Zenon, <1>2, <1>3, <1>4

\* Client.Close: closeCh, then closeAll.
LEMMA CloseAllCloses ==
  ASSUME CInv, ClientClose \/ CloseAll \/ CloseAllEnter \/ CloseAllReturns, UNCHANGED evVars
  PROVE  CInv' /\ Quiet
<1> USE DEF CInv
<1>1. WireTypes' /\ Quiet
  BY Zenon, UnchangedIsQuiet DEF ClientClose, CloseAll, CloseAllEnter, CloseAllReturns
<1>2. ClientCloseOrder'
  BY Zenon DEF ClientCloseOrder, evVars, dispatchVars, ClientClose, CloseAll, CloseAllEnter,
     CloseAllReturns
<1>3. CASE ClientClose \/ CloseAll \/ CloseAllEnter
  BY <1>1, <1>2, <1>3 DEF ClientClose, CloseAll, CloseAllEnter, CloseOrder
<1>4. CASE CloseAllReturns
  <2>1. CloseOrder'
    BY Zenon, <1>4, SendState DEF CloseAllReturns, CloseOrder, EventKinds, awaitDone
  <2>2. QED
    BY Zenon, <1>1, <1>2, <2>1
<1>5. QED
  BY Zenon, <1>3, <1>4

\* The network, the device, the reader and the receive loop.
LEMMA OthersClose ==
  ASSUME CInv, Read \/ Device \/ (\E i \in Issuers : GiveUp(i)) \/ Lookup \/ Deliver,
         UNCHANGED evVars
  PROVE  CInv' /\ Quiet
<1> USE DEF CInv
<1>1. ClientCloseOrder'
  BY Zenon DEF ClientCloseOrder, evVars, dispatchVars, Read, Device, GiveUp, Lookup, Deliver
<1>2. CASE Device \/ \E i \in Issuers : GiveUp(i)
  <2>1. WireTypes' /\ Len(wire') <= Len(wire)
    BY <1>2, DeviceType, GiveUpType DEF WireTypes
  <2>2. CloseOrder'
    BY <1>2 DEF Device, GiveUp, CloseOrder
  <2>3. QED
    BY Zenon, <1>1, <2>1, <2>2 DEF Quiet
<1>3. CASE Read \/ Lookup
  <2>0. /\ done' = done /\ renew' = renew /\ start' = start /\ close' = close
        /\ once' = once /\ state' = state
    BY Zenon, <1>3 DEF Read, Lookup
  <2>1. CloseOrder'
    BY Zenon, <2>0 DEF CloseOrder
  <2>2. QED
    BY ZenonT(30), <1>1, <1>3, <2>1, UnchangedIsQuiet DEF Read, Lookup
<1>4. CASE Deliver
  <2>1. CloseOrder'
    BY Zenon, <1>4, SendState DEF Deliver, CloseOrder, EventKinds
  <2>2. QED
    BY Zenon, <1>1, <1>4, <2>1, UnchangedIsQuiet DEF Deliver
<1>5. QED
  BY Zenon, <1>2, <1>3, <1>4

\* The stream and the dispatcher leave the subscription alone; the end of
\* Client.Close waits for the renewal loops.
LEMMA DeliveryCloses ==
  ASSUME CInv, UNCHANGED allSub,
         UNCHANGED dispatcherClose \/ DispatcherClose
  PROVE  CInv' /\ Quiet
<1> USE DEF CInv, allSub, subVars
<1>1. WireTypes' /\ Quiet
  BY Zenon, UnchangedIsQuiet
<1>2. CloseOrder'
  BY Zenon DEF CloseOrder
<1>3. ClientCloseOrder'
  BY Zenon DEF ClientCloseOrder, DispatcherClose
<1>4. QED
  BY Zenon, <1>1, <1>2, <1>3

\* Every step keeps the invariant and is quiet.
LEMMA CloseStep == CInv /\ [DeliveryNext]_deliveryVars => CInv' /\ Quiet
<1> SUFFICES ASSUME CInv, [DeliveryNext]_deliveryVars PROVE CInv' /\ Quiet
  BY Zenon
<1>1. CASE SubNext /\ UNCHANGED evVars
  BY Zenon, <1>1, StartCloses, RenewCloses, CloseCloses, CloseAllCloses, OthersClose DEF SubNext, Renew
<1>2. CASE UNCHANGED deliveryVars
  BY Zenon, <1>2, DeliveryCloses DEF deliveryVars, evVars, dispatchVars
<1>3. CASE OpenEventStream \/ (\E k \in Streams : CloseStream(k) \/ Uninstall(k) \/ ReadStream(k))
  BY Zenon, <1>3, DeliveryCloses DEF OpenEventStream, CloseStream, Uninstall, ReadStream, dispatchVars
<1>4. CASE Arrive \/ ToStream \/ ToDispatcher \/ DispatchOverflow \/ Work \/ DispatcherClose
  BY Zenon, <1>4, DeliveryCloses DEF Arrive, ToStream, ToDispatcher, DispatchOverflow, Work,
     DispatcherClose, dispatchVars
<1>5. QED
  BY Zenon, <1>1, <1>2, <1>3, <1>4 DEF DeliveryNext

------------------------------------------------------------------------------
(***************************************************************************)
(* The event streams.                                                      *)
(***************************************************************************)
StreamEvent == [seq : Nat, gap : BOOLEAN]

StreamTypes ==
  /\ buf \in [Streams -> Seq(StreamEvent)]
  /\ seq \in [Streams -> Nat] /\ read \in [Streams -> Nat]
  /\ gap \in [Streams -> BOOLEAN] /\ closed \in [Streams -> BOOLEAN]
  /\ current \in Streams \union {Nothing}

\* What the receive loop has in hand: the stream it picked and the newest
\* notification, or the notification alone.
PickupTypes ==
  /\ events \in Nat
  /\ \/ pickup = <<>> \/ pickup = <<events>>
     \/ \E c \in Streams \union {Nothing} : pickup = <<c, events>>
  /\ overflow => pickup = <<events>>

\* Sequence of the newest event that the reader of a stream got or will get.
Newest(k) == IF buf[k] = <<>> THEN read[k] ELSE buf[k][Len(buf[k])].seq

\* The stream remembers a gap exactly while events published after its
\* newest one were dropped.
GapIsKept ==
  \A k \in Streams : ~closed[k] =>
    Newest(k) <= seq[k] /\ (gap[k] <=> Newest(k) # seq[k])

SInv == StreamTypes /\ PickupTypes /\ GapIsKept /\ GapIsSkip

\* The events of one open stream, for the steps that change one stream only.
SkipOf(b, r) ==
  \A i \in DOMAIN b : b[i].gap <=> b[i].seq # 1 + IF i = 1 THEN r ELSE b[i - 1].seq
KeptOf(b, r, n, g) ==
  LET last == IF b = <<>> THEN r ELSE b[Len(b)].seq
  IN last <= n /\ (g <=> last # n)

\* An event that fits carries the gap before it and closes it.
LEMMA PublishedEvent ==
  ASSUME NEW b \in Seq(StreamEvent), NEW r \in Nat, NEW n \in Nat, NEW g \in BOOLEAN,
         SkipOf(b, r), KeptOf(b, r, n, g)
  PROVE  /\ SkipOf(Append(b, [seq |-> n + 1, gap |-> g]), r)
         /\ KeptOf(Append(b, [seq |-> n + 1, gap |-> g]), r, n + 1, FALSE)
<1> DEFINE e == [seq |-> n + 1, gap |-> g]
           c == Append(b, e)
<1>1. e \in StreamEvent /\ e.seq = n + 1 /\ e.gap = g
  BY DEF StreamEvent
<1> HIDE DEF e
<1>2. /\ c \in Seq(StreamEvent) /\ Len(c) = Len(b) + 1 /\ c[Len(b) + 1] = e /\ Len(b) \in Nat
      /\ DOMAIN c = 1 .. Len(b) + 1 /\ DOMAIN b = 1 .. Len(b)
      /\ \A i \in 1 .. Len(b) : c[i] = b[i]
  BY <1>1, AppendFacts
<1> HIDE DEF c
<1>3. KeptOf(c, r, n + 1, FALSE)
  <2>1. c # <<>> /\ c[Len(c)].seq = n + 1
    BY <1>1, <1>2
  <2>2. QED
    BY <2>1 DEF KeptOf
<1>4. ASSUME NEW i \in 1 .. Len(b)
      PROVE  c[i].gap <=> c[i].seq # 1 + IF i = 1 THEN r ELSE c[i - 1].seq
  <2>1. i # 1 => i - 1 \in 1 .. Len(b)
    BY <1>2
  <2>2. c[i] = b[i] /\ (i # 1 => c[i - 1] = b[i - 1])
    BY Zenon, <1>2, <2>1
  <2>3. b[i].gap <=> b[i].seq # 1 + IF i = 1 THEN r ELSE b[i - 1].seq
    BY Zenon, <1>2 DEF SkipOf
  <2>4. QED
    BY Zenon, <2>2, <2>3
<1>5. c[Len(b) + 1].gap <=> c[Len(b) + 1].seq # 1 + IF Len(b) + 1 = 1 THEN r ELSE c[Len(b)].seq
  <2>1. CASE b = <<>>
    BY SMTT(30), <1>1, <1>2, <2>1 DEF KeptOf
  <2>2. CASE b # <<>>
    <3>1. Len(b) \in 1 .. Len(b) /\ b[Len(b)] \in StreamEvent /\ c[Len(b)] = b[Len(b)]
      BY <1>2, <2>2, TailFacts
    <3>2. g <=> b[Len(b)].seq # n
      BY Zenon, <2>2 DEF KeptOf
    <3>3. b[Len(b)].seq \in Nat
      BY Zenon, <3>1 DEF StreamEvent
    <3>4. QED
      BY <1>1, <1>2, <3>1, <3>2, <3>3
  <2>3. QED
    BY Zenon, <2>1, <2>2
<1>6. SkipOf(c, r)
  <2> SUFFICES ASSUME NEW i \in DOMAIN c
               PROVE  c[i].gap <=> c[i].seq # 1 + IF i = 1 THEN r ELSE c[i - 1].seq
    BY Zenon DEF SkipOf
  <2>1. CASE i \in 1 .. Len(b)
    BY Zenon, <1>4, <2>1
  <2>2. CASE i = Len(b) + 1
    BY <1>2, <1>5, <2>2
  <2>3. QED
    BY <1>2, <2>1, <2>2
<1>7. QED
  BY Zenon, <1>3, <1>6 DEF e, c

\* A dropped event opens a gap.
LEMMA DroppedEvent ==
  ASSUME NEW b \in Seq(StreamEvent), NEW r \in Nat, NEW n \in Nat, NEW g \in BOOLEAN,
         KeptOf(b, r, n, g)
  PROVE  KeptOf(b, r, n + 1, TRUE)
<1>1. CASE b = <<>>
  BY <1>1 DEF KeptOf
<1>2. CASE b # <<>>
  <2>1. b[Len(b)] \in StreamEvent
    BY <1>2
  <2>2. b[Len(b)].seq \in Nat
    BY Zenon, <2>1 DEF StreamEvent
  <2>3. QED
    BY <1>2, <2>2 DEF KeptOf
<1>3. QED
  BY Zenon, <1>1, <1>2

\* Reading an event leaves the newest one and every announced gap.
LEMMA ReadEvent ==
  ASSUME NEW b \in Seq(StreamEvent), b # <<>>, NEW r \in Nat, NEW n \in Nat, NEW g \in BOOLEAN,
         SkipOf(b, r), KeptOf(b, r, n, g)
  PROVE  SkipOf(Tail(b), Head(b).seq) /\ KeptOf(Tail(b), Head(b).seq, n, g)
<1> DEFINE c == Tail(b)
<1>1. /\ Len(b) \in Nat \ {0} /\ Head(b) = b[1] /\ b[1] \in StreamEvent
      /\ c \in Seq(StreamEvent) /\ Len(c) = Len(b) - 1
      /\ DOMAIN c = 1 .. Len(b) - 1 /\ DOMAIN b = 1 .. Len(b)
      /\ \A i \in 1 .. Len(b) - 1 : c[i] = b[i + 1]
  BY TailFacts
<1> HIDE DEF c
<1>2. ASSUME NEW i \in 1 .. Len(b) - 1
      PROVE  c[i].gap <=> c[i].seq # 1 + IF i = 1 THEN b[1].seq ELSE c[i - 1].seq
  <2>1. c[i] = b[i + 1] /\ i + 1 \in DOMAIN b /\ i + 1 # 1 /\ (i + 1) - 1 = i
    BY <1>1
  <2>2. b[i + 1].gap <=> b[i + 1].seq # 1 + b[i].seq
    BY Zenon, <2>1 DEF SkipOf
  <2>3. i # 1 => i - 1 \in 1 .. Len(b) - 1 /\ c[i - 1] = b[i]
    BY <1>1
  <2>4. QED
    BY Zenon, <2>1, <2>2, <2>3
<1>3. SkipOf(c, Head(b).seq)
  BY Zenon, <1>1, <1>2 DEF SkipOf
<1>4. KeptOf(c, Head(b).seq, n, g)
  <2>1. CASE Len(b) = 1
    BY <1>1, <2>1 DEF KeptOf
  <2>2. CASE Len(b) # 1
    <3>1. c # <<>> /\ c[Len(c)] = b[Len(b)]
      BY <1>1, <2>2
    <3>2. QED
      BY Zenon, <3>1 DEF KeptOf
  <2>3. QED
    BY Zenon, <2>1, <2>2
<1>5. QED
  BY Zenon, <1>3, <1>4 DEF c

\* GapIsKept and GapIsSkip, stream by stream.
LEMMA StreamByStream ==
  /\ GapIsKept <=> \A k \in Streams : ~closed[k] => KeptOf(buf[k], read[k], seq[k], gap[k])
  /\ GapIsSkip <=> \A k \in Streams : ~closed[k] => SkipOf(buf[k], read[k])
BY Zenon DEF GapIsKept, GapIsSkip, KeptOf, SkipOf, Newest

\* A step that changes one stream keeps the invariant if that stream keeps it.
LEMMA OneStream ==
  ASSUME SInv, StreamTypes', PickupTypes', NEW k \in Streams,
         \A j \in Streams \ {k} : /\ buf'[j] = buf[j] /\ read'[j] = read[j] /\ seq'[j] = seq[j]
                                  /\ gap'[j] = gap[j] /\ closed'[j] = closed[j],
         ~closed'[k] => /\ KeptOf(buf'[k], read'[k], seq'[k], gap'[k])
                        /\ SkipOf(buf'[k], read'[k])
  PROVE  SInv'
<1>1. \A j \in Streams : ~closed'[j] => KeptOf(buf'[j], read'[j], seq'[j], gap'[j])
  BY Zenon, StreamByStream DEF SInv
<1>2. \A j \in Streams : ~closed'[j] => SkipOf(buf'[j], read'[j])
  BY Zenon, StreamByStream DEF SInv
<1>3. GapIsKept' /\ GapIsSkip'
  <2>1. /\ GapIsKept' <=> \A j \in Streams : ~closed'[j] => KeptOf(buf'[j], read'[j], seq'[j], gap'[j])
        /\ GapIsSkip' <=> \A j \in Streams : ~closed'[j] => SkipOf(buf'[j], read'[j])
    BY Zenon DEF GapIsKept, GapIsSkip, KeptOf, SkipOf, Newest
  <2>2. QED
    BY Zenon, <1>1, <1>2, <2>1
<1>4. QED
  BY Zenon, <1>3 DEF SInv

\* No stream is open and nothing was received.
LEMMA StreamStart == DeliveryInit => SInv
<1> SUFFICES ASSUME DeliveryInit PROVE SInv
  BY Zenon
<1>1. StreamTypes
  BY DEF DeliveryInit, StreamTypes
<1>2. PickupTypes
  BY DeliveryAssumption DEF DeliveryInit, PickupTypes
<1>3. GapIsKept /\ GapIsSkip
  BY DEF DeliveryInit, GapIsKept, GapIsSkip, Newest
<1>4. QED
  BY Zenon, <1>1, <1>2, <1>3 DEF SInv

\* publish: eventStream.publish, for the stream the receive loop picked.
LEMMA ToStreamKeeps ==
  ASSUME SInv, ToStream
  PROVE  SInv'
<1> USE DEF SInv
<1>1. PICK c \in Streams \union {Nothing} : pickup = <<c, events>>
  BY DEF ToStream, PickupTypes
<1>2. Head(pickup) = c /\ pickup' = <<events>>
  BY <1>1 DEF ToStream
<1>3. UNCHANGED <<closed, read, current, overflow, events>>
  BY Zenon DEF ToStream, dispatchVars
<1>4. PickupTypes'
  BY ZenonT(30), <1>2, <1>3 DEF PickupTypes
<1>5. CASE c = Nothing \/ closed[c]
  <2>1. UNCHANGED <<buf, gap, seq>>
    BY Zenon, <1>2, <1>5 DEF ToStream, publish
  <2>2. QED
    BY <1>3, <1>4, <2>1 DEF StreamTypes, GapIsKept, GapIsSkip, Newest
<1>6. CASE c # Nothing /\ ~closed[c]
  <2>1. c \in Streams /\ publish(c)
    BY Zenon, <1>2, <1>6 DEF ToStream
  <2>2. /\ buf[c] \in Seq(StreamEvent) /\ read[c] \in Nat /\ seq[c] \in Nat /\ gap[c] \in BOOLEAN
    BY Zenon, <2>1 DEF StreamTypes
  <2>3. SkipOf(buf[c], read[c]) /\ KeptOf(buf[c], read[c], seq[c], gap[c])
    BY Zenon, <1>6, <2>1, StreamByStream
  <2>4. CASE Len(buf[c]) <= StreamSize
    <3> DEFINE e == [seq |-> seq[c] + 1, gap |-> gap[c]]
    <3>1. /\ seq' = [seq EXCEPT ![c] = seq[c] + 1] /\ gap' = [gap EXCEPT ![c] = FALSE]
          /\ buf' = [buf EXCEPT ![c] = Append(buf[c], e)]
      BY ZenonT(30), <1>6, <2>1, <2>4 DEF publish
    <3>2. Append(buf[c], e) \in Seq(StreamEvent)
      <4>1. seq[c] + 1 \in Nat
        BY <2>2
      <4>2. e \in StreamEvent
        BY Zenon, <2>2, <4>1 DEF StreamEvent
      <4> QED BY Zenon, <2>2, <4>2, AppendFacts
    <3>3. SkipOf(Append(buf[c], e), read[c]) /\ KeptOf(Append(buf[c], e), read[c], seq[c] + 1, FALSE)
      BY Zenon, <2>2, <2>3, PublishedEvent
    <3> HIDE DEF e
    <3>4. StreamTypes'
      BY <1>3, <2>1, <2>2, <3>1, <3>2 DEF StreamTypes
    <3>5. /\ buf'[c] = Append(buf[c], e) /\ read'[c] = read[c] /\ seq'[c] = seq[c] + 1
          /\ gap'[c] = FALSE
      BY Zenon, <1>3, <2>1, <3>1 DEF StreamTypes
    <3>6. \A j \in Streams \ {c} : /\ buf'[j] = buf[j] /\ read'[j] = read[j] /\ seq'[j] = seq[j]
                                   /\ gap'[j] = gap[j] /\ closed'[j] = closed[j]
      BY Zenon, <1>3, <2>1, <3>1 DEF StreamTypes
    <3>7. QED
      BY Zenon, <1>4, <2>1, <3>3, <3>4, <3>5, <3>6, OneStream
  <2>5. CASE ~(Len(buf[c]) <= StreamSize)
    <3>1. /\ seq' = [seq EXCEPT ![c] = seq[c] + 1] /\ gap' = [gap EXCEPT ![c] = TRUE]
          /\ buf' = buf
      BY Zenon, <1>6, <2>1, <2>5 DEF publish
    <3>2. KeptOf(buf[c], read[c], seq[c] + 1, TRUE)
      BY Zenon, <2>2, <2>3, DroppedEvent
    <3>3. StreamTypes'
      BY <1>3, <2>1, <2>2, <3>1 DEF StreamTypes
    <3>4. /\ buf'[c] = buf[c] /\ read'[c] = read[c] /\ seq'[c] = seq[c] + 1
          /\ gap'[c] = TRUE
      BY Zenon, <1>3, <2>1, <3>1 DEF StreamTypes
    <3>5. \A j \in Streams \ {c} : /\ buf'[j] = buf[j] /\ read'[j] = read[j] /\ seq'[j] = seq[j]
                                   /\ gap'[j] = gap[j] /\ closed'[j] = closed[j]
      BY Zenon, <1>3, <2>1, <3>1 DEF StreamTypes
    <3>6. QED
      BY Zenon, <1>4, <2>1, <2>3, <3>2, <3>3, <3>4, <3>5, OneStream
  <2>6. QED
    BY Zenon, <2>4, <2>5
<1>7. QED
  BY Zenon, <1>5, <1>6

\* The reader of a stream takes its oldest event.
LEMMA ReadStreamKeeps ==
  ASSUME SInv, NEW k \in Streams, ReadStream(k)
  PROVE  SInv'
<1> USE DEF SInv
<1>1. /\ buf[k] # <<>> /\ buf' = [buf EXCEPT ![k] = Tail(buf[k])]
      /\ read' = [read EXCEPT ![k] = Head(buf[k]).seq]
      /\ UNCHANGED <<closed, gap, seq, current, pickup, overflow, events>>
  BY Zenon DEF ReadStream, dispatchVars
<1>2. /\ buf[k] \in Seq(StreamEvent) /\ read[k] \in Nat /\ seq[k] \in Nat /\ gap[k] \in BOOLEAN
  BY Zenon DEF StreamTypes
<1>3. Tail(buf[k]) \in Seq(StreamEvent) /\ Head(buf[k]) \in StreamEvent
  BY Zenon, <1>1, <1>2, TailFacts
<1>4. Head(buf[k]).seq \in Nat
  BY Zenon, <1>3 DEF StreamEvent
<1>5. StreamTypes' /\ PickupTypes'
  BY Zenon, <1>1, <1>3, <1>4 DEF StreamTypes, PickupTypes
<1>6. /\ buf'[k] = Tail(buf[k]) /\ read'[k] = Head(buf[k]).seq
      /\ seq'[k] = seq[k] /\ gap'[k] = gap[k] /\ closed'[k] = closed[k]
  BY Zenon, <1>1 DEF StreamTypes
<1>7. \A j \in Streams \ {k} : /\ buf'[j] = buf[j] /\ read'[j] = read[j] /\ seq'[j] = seq[j]
                               /\ gap'[j] = gap[j] /\ closed'[j] = closed[j]
  BY Zenon, <1>1 DEF StreamTypes
<1>8. ~closed[k] => SkipOf(buf[k], read[k]) /\ KeptOf(buf[k], read[k], seq[k], gap[k])
  BY Zenon, StreamByStream
<1>9. ~closed'[k] => /\ KeptOf(buf'[k], read'[k], seq'[k], gap'[k])
                     /\ SkipOf(buf'[k], read'[k])
  BY Zenon, <1>1, <1>2, <1>6, <1>8, ReadEvent
<1>10. QED
  BY Zenon, <1>5, <1>7, <1>9, OneStream

\* Closing a stream ends what is promised of it and touches no other.
LEMMA CloseStreamKeeps ==
  ASSUME SInv, NEW k \in Streams, CloseStream(k)
  PROVE  SInv'
<1> USE DEF SInv
<1> DEFINE full == Len(buf[k]) > StreamSize
           n == seq[k] + IF full THEN 2 ELSE 1
           b == IF full THEN Tail(buf[k]) ELSE buf[k]
<1>1. /\ closed' = [closed EXCEPT ![k] = TRUE] /\ seq' = [seq EXCEPT ![k] = n]
      /\ buf' = [buf EXCEPT ![k] = Append(b, [seq |-> n, gap |-> FALSE])]
      /\ UNCHANGED <<current, gap, read, pickup, overflow, events>>
  BY Zenon DEF CloseStream, Close, dispatchVars
<1>2. buf[k] \in Seq(StreamEvent) /\ seq[k] \in Nat /\ n \in Nat
  BY DEF StreamTypes
<1>3. b \in Seq(StreamEvent)
  <2>1. CASE full
    <3>1. buf[k] # <<>>
      BY <1>2, <2>1, DeliveryAssumption
    <3>2. QED
      BY ZenonT(30), <1>2, <2>1, <3>1, TailFacts
  <2>2. QED
    BY Zenon, <1>2, <2>1
<1> HIDE DEF n, b
<1>4. Append(b, [seq |-> n, gap |-> FALSE]) \in Seq(StreamEvent)
  BY <1>2, <1>3 DEF StreamEvent
<1>5. StreamTypes' /\ PickupTypes'
  BY Zenon, <1>1, <1>2, <1>4 DEF StreamTypes, PickupTypes
<1>6. \A j \in Streams \ {k} : /\ buf'[j] = buf[j] /\ read'[j] = read[j] /\ seq'[j] = seq[j]
                               /\ gap'[j] = gap[j] /\ closed'[j] = closed[j]
  BY Zenon, <1>1 DEF StreamTypes
<1>7. closed'[k]
  BY Zenon, <1>1 DEF StreamTypes
<1>8. QED
  BY Zenon, <1>5, <1>6, <1>7, OneStream

\* Every step keeps the invariant of the streams.
LEMMA StreamStep == SInv /\ [DeliveryNext]_deliveryVars => SInv'
<1> SUFFICES ASSUME SInv, [DeliveryNext]_deliveryVars PROVE SInv'
  BY Zenon
<1>1. ASSUME UNCHANGED <<buf, gap, seq, read, closed>>, StreamTypes', PickupTypes'
      PROVE  SInv'
  BY Zenon, <1>1 DEF SInv, GapIsKept, GapIsSkip, Newest
<1>2. CASE UNCHANGED evVars
  BY Zenon, <1>1, <1>2 DEF SInv, evVars, streamVars, dispatchVars, StreamTypes, PickupTypes
<1>3. CASE OpenEventStream
  BY Zenon, <1>1, <1>3 DEF SInv, OpenEventStream, dispatchVars, StreamTypes, PickupTypes
<1>4. ASSUME NEW k \in Streams, Uninstall(k) PROVE SInv'
  BY Zenon, <1>1, <1>4 DEF SInv, Uninstall, dispatchVars, StreamTypes, PickupTypes
<1>5. CASE Arrive
  <2>1. StreamTypes' /\ UNCHANGED <<buf, gap, seq, read, closed>>
    BY Zenon, <1>5 DEF SInv, Arrive, streamVars, StreamTypes
  <2>2. PickupTypes'
    BY <1>5 DEF SInv, Arrive, streamVars, dispatchVars, StreamTypes, PickupTypes
  <2>3. QED
    BY Zenon, <1>1, <2>1, <2>2
<1>6. CASE ToDispatcher
  <2>1. StreamTypes' /\ UNCHANGED <<buf, gap, seq, read, closed>>
    BY Zenon, <1>6 DEF SInv, ToDispatcher, streamVars, StreamTypes
  <2>2. PickupTypes'
    BY <1>6 DEF SInv, ToDispatcher, PickupTypes
  <2>3. QED
    BY Zenon, <1>1, <2>1, <2>2
<1>7. CASE DispatchOverflow
  BY Zenon, <1>1, <1>7 DEF SInv, DispatchOverflow, streamVars, StreamTypes, PickupTypes
<1>8. CASE Work \/ DispatcherClose
  BY Zenon, <1>1, <1>8 DEF SInv, Work, DispatcherClose, streamVars, StreamTypes, PickupTypes
<1>9. QED
  BY Zenon, <1>2, <1>3, <1>4, <1>5, <1>6, <1>7, <1>8, ToStreamKeeps, ReadStreamKeeps, CloseStreamKeeps
     DEF DeliveryNext, deliveryVars

------------------------------------------------------------------------------
(***************************************************************************)
(* The dispatcher.                                                         *)
(***************************************************************************)
\* The notification that was handed to the dispatcher last.
Dispatched == IF dbuf = <<>> THEN handled ELSE dbuf[Len(dbuf)]

\* The queue is in the order received, after what was handled and before what
\* the receive loop has in hand.
DispatchOrder ==
  /\ handled \in Nat /\ dbuf \in Seq(Nat)
  /\ \A i \in 1 .. Len(dbuf) : handled < dbuf[i]
  /\ \A i, j \in 1 .. Len(dbuf) : i < j => dbuf[i] < dbuf[j]
  /\ Dispatched <= events
  /\ pickup # <<>> => Dispatched < events

\* Under drop-oldest the newest notification is never the one lost.
NewestKept ==
  DropOldest /\ pickup = <<>> /\ start = "unused" /\ ~dclosed => Dispatched = events

\* The inductive invariant of the dispatcher; that of the streams says what
\* the receive loop has in hand.
NInv == SInv /\ DispatchOrder /\ NewestKept

\* Nothing was received.
LEMMA DispatchStart == DeliveryInit => NInv
<1> SUFFICES ASSUME DeliveryInit PROVE NInv
  BY Zenon
<1>1. DispatchOrder /\ NewestKept
  BY DeliveryAssumption DEF DeliveryInit, DispatchOrder, NewestKept, Dispatched, Nothing
<1>2. QED
  BY Zenon, <1>1, StreamStart DEF NInv

\* The newest notification put behind an ordered queue, which may have lost
\* its oldest element.
LEMMA Enqueued ==
  ASSUME NEW q \in Seq(Nat), NEW h \in Nat, NEW n \in Nat,
         \A i \in 1 .. Len(q) : h < q[i],
         \A i, j \in 1 .. Len(q) : i < j => q[i] < q[j],
         h < n, q # <<>> => q[Len(q)] < n
  PROVE  LET c == Append(q, n) IN
         /\ c \in Seq(Nat) /\ c # <<>> /\ c[Len(c)] = n
         /\ \A i \in 1 .. Len(c) : h < c[i]
         /\ \A i, j \in 1 .. Len(c) : i < j => c[i] < c[j]
<1> DEFINE c == Append(q, n)
<1>1. /\ c \in Seq(Nat) /\ Len(q) \in Nat /\ Len(c) = Len(q) + 1 /\ c[Len(q) + 1] = n
      /\ \A i \in 1 .. Len(q) : c[i] = q[i] /\ q[i] \in Nat
  BY AppendFacts
<1> HIDE DEF c
<1>2. c # <<>>
  BY <1>1
<1>3. ASSUME NEW i \in 1 .. Len(q) PROVE q[i] < n
  <2>1. q # <<>> /\ Len(q) \in 1 .. Len(q)
    BY <1>1
  <2>2. i = Len(q) \/ q[i] < q[Len(q)]
    BY <1>1, <2>1
  <2>3. q[i] \in Nat /\ q[Len(q)] \in Nat
    BY Zenon, <1>1, <2>1
  <2>4. QED
    BY <2>1, <2>2, <2>3
<1>4. \A i \in 1 .. Len(c) : h < c[i]
  <2>1. ASSUME NEW i \in 1 .. Len(c) PROVE h < c[i]
    <3>1. i \in 1 .. Len(q) \/ i = Len(q) + 1
      BY SMTT(30), <1>1
    <3>2. QED
      BY Zenon, <1>1, <3>1
  <2>2. QED
    BY Zenon, <2>1
<1>5. \A i, j \in 1 .. Len(c) : i < j => c[i] < c[j]
  <2>1. ASSUME NEW i \in 1 .. Len(c), NEW j \in 1 .. Len(c), i < j PROVE c[i] < c[j]
    <3>1. i \in 1 .. Len(q) /\ c[i] = q[i] /\ (j \in 1 .. Len(q) \/ j = Len(q) + 1)
      BY SMTT(30), <1>1, <2>1
    <3>2. CASE j \in 1 .. Len(q)
      BY Zenon, <1>1, <2>1, <3>1, <3>2
    <3>3. CASE j = Len(q) + 1
      BY Zenon, <1>1, <1>3, <3>1, <3>3
    <3>4. QED
      BY Zenon, <3>1, <3>2, <3>3
  <2>2. QED
    BY Zenon, <2>1
<1>6. QED
  BY Zenon, <1>1, <1>2, <1>4, <1>5 DEF c

\* Dropping the oldest element leaves the order.
LEMMA Dequeued ==
  ASSUME NEW q \in Seq(Nat), q # <<>>, NEW h \in Nat,
         \A i \in 1 .. Len(q) : h < q[i],
         \A i, j \in 1 .. Len(q) : i < j => q[i] < q[j]
  PROVE  LET c == Tail(q) IN
         /\ c \in Seq(Nat) /\ (c # <<>> => c[Len(c)] = q[Len(q)]) /\ (c = <<>> => q[Len(q)] = q[1])
         /\ q[1] \in Nat /\ Head(q) = q[1]
         /\ \A i \in 1 .. Len(c) : h < c[i] /\ q[1] < c[i]
         /\ \A i, j \in 1 .. Len(c) : i < j => c[i] < c[j]
<1> DEFINE c == Tail(q)
<1>1. /\ c \in Seq(Nat) /\ Len(q) \in Nat \ {0} /\ Len(c) = Len(q) - 1
      /\ q[1] \in Nat /\ Head(q) = q[1]
      /\ \A i \in 1 .. Len(q) - 1 : c[i] = q[i + 1]
  BY Zenon, TailFacts
<1> HIDE DEF c
<1>2. ASSUME c # <<>> PROVE c[Len(c)] = q[Len(q)]
  <2>1. Len(c) \in 1 .. Len(q) - 1
    BY <1>1, <1>2
  <2>2. QED
    BY <1>1, <2>1
<1>3. ASSUME c = <<>> PROVE q[Len(q)] = q[1]
  <2>1. Len(c) = 0
    BY Zenon, <1>3
  <2>2. Len(q) = 1
    BY <1>1, <2>1
  <2>3. QED
    BY Zenon, <2>2
<1>4. \A i \in 1 .. Len(c) : h < c[i] /\ q[1] < c[i]
  <2>1. ASSUME NEW i \in 1 .. Len(c) PROVE h < c[i] /\ q[1] < c[i]
    <3>1. i + 1 \in 1 .. Len(q) /\ 1 \in 1 .. Len(q) /\ c[i] = q[i + 1] /\ 1 < i + 1
      BY SMTT(30), <1>1
    <3>2. QED
      BY Zenon, <3>1
  <2>2. QED
    BY Zenon, <2>1
<1>5. \A i, j \in 1 .. Len(c) : i < j => c[i] < c[j]
  <2>1. ASSUME NEW i \in 1 .. Len(c), NEW j \in 1 .. Len(c), i < j PROVE c[i] < c[j]
    <3>1. /\ i + 1 \in 1 .. Len(q) /\ j + 1 \in 1 .. Len(q) /\ i + 1 < j + 1
          /\ c[i] = q[i + 1] /\ c[j] = q[j + 1]
      BY SMTT(30), <1>1, <2>1
    <3>2. QED
      BY Zenon, <3>1
  <2>2. QED
    BY Zenon, <2>1
<1>6. QED
  BY Zenon, <1>1, <1>2, <1>3, <1>4, <1>5 DEF c

\* Arrive and ToStream: the notification in hand is newer than all before.
LEMMA HandOverKeeps ==
  ASSUME NInv, SInv', Arrive \/ ToStream
  PROVE  NInv'
<1>1. /\ UNCHANGED <<dbuf, handled, dclosed, start>> /\ pickup' # <<>>
      /\ events' = events + 1 \/ (pickup # <<>> /\ events' = events)
  <2>1. CASE Arrive
    BY Zenon, <2>1 DEF Arrive, dispatchVars, allSub, subVars
  <2>2. CASE ToStream
    <3>0. PickupTypes /\ Len(pickup) = 2
      BY Zenon, <2>2 DEF ToStream, NInv, SInv
    <3>1. PICK c \in Streams \union {Nothing} : pickup = <<c, events>>
      BY <3>0 DEF PickupTypes
    <3>2. pickup # <<>> /\ Tail(pickup) = <<events>>
      BY <3>1
    <3>3. QED
      BY <2>2, <3>2 DEF ToStream, dispatchVars, allSub, subVars
  <2>3. QED
    BY Zenon, <2>1, <2>2
<1>2. events \in Nat /\ Dispatched \in Nat
  <2>1. CASE dbuf = <<>>
    BY Zenon, <2>1 DEF NInv, SInv, PickupTypes, DispatchOrder, Dispatched
  <2>2. CASE dbuf # <<>>
    <3>1. dbuf \in Seq(Nat) /\ events \in Nat
      BY Zenon DEF NInv, SInv, PickupTypes, DispatchOrder
    <3>2. dbuf[Len(dbuf)] \in Nat
      BY <2>2, <3>1
    <3>3. QED
      BY Zenon, <2>2, <3>1, <3>2 DEF Dispatched
  <2>3. QED
    BY Zenon, <2>1, <2>2
<1>3. Dispatched' = Dispatched
  BY Zenon, <1>1 DEF Dispatched
<1>4. DispatchOrder'
  BY <1>1, <1>2, <1>3 DEF NInv, DispatchOrder
<1>5. NewestKept'
  BY Zenon, <1>1 DEF NewestKept
<1>6. QED
  BY Zenon, <1>4, <1>5 DEF NInv

\* eventDispatcher.publish: what is put into the queue is the newest, whether
\* it fits or the oldest has to go.
LEMMA DispatchKeeps ==
  ASSUME NInv, SInv', ToDispatcher \/ DispatchOverflow
  PROVE  NInv'
<1>1. /\ events \in Nat /\ pickup = <<events>> /\ Head(pickup) = events /\ events' = events
      /\ UNCHANGED <<handled, dclosed, start>>
  BY SMTT(30) DEF ToDispatcher, DispatchOverflow, NInv, SInv, PickupTypes, allSub, subVars
<1>2. /\ handled \in Nat /\ dbuf \in Seq(Nat)
      /\ \A i \in 1 .. Len(dbuf) : handled < dbuf[i]
      /\ \A i, j \in 1 .. Len(dbuf) : i < j => dbuf[i] < dbuf[j]
      /\ Dispatched < events
  BY Zenon, <1>1 DEF NInv, DispatchOrder
<1>3. handled < events /\ (dbuf # <<>> => dbuf[Len(dbuf)] < events)
  <2>1. CASE dbuf = <<>>
    BY Zenon, <1>2, <2>1 DEF Dispatched
  <2>2. CASE dbuf # <<>>
    <3>1. Len(dbuf) \in 1 .. Len(dbuf) /\ dbuf[Len(dbuf)] \in Nat
      BY <1>2, <2>2
    <3>2. QED
      BY <1>1, <1>2, <2>2, <3>1 DEF Dispatched
  <2>3. QED
    BY Zenon, <2>1, <2>2
<1>4. ASSUME NEW q \in Seq(Nat), dbuf' = Append(q, events),
             \A i \in 1 .. Len(q) : handled < q[i],
             \A i, j \in 1 .. Len(q) : i < j => q[i] < q[j],
             q # <<>> => q[Len(q)] < events, pickup' = <<>>
      PROVE  NInv'
  <2>1. /\ dbuf' \in Seq(Nat) /\ dbuf' # <<>> /\ dbuf'[Len(dbuf')] = events
        /\ \A i \in 1 .. Len(dbuf') : handled < dbuf'[i]
        /\ \A i, j \in 1 .. Len(dbuf') : i < j => dbuf'[i] < dbuf'[j]
    BY Zenon, <1>1, <1>2, <1>3, <1>4, Enqueued
  <2>2. Dispatched' = events
    BY Zenon, <2>1 DEF Dispatched
  <2>3. DispatchOrder' /\ NewestKept'
    BY SMTT(30), <1>1, <1>2, <1>4, <2>1, <2>2 DEF DispatchOrder, NewestKept
  <2>4. QED
    BY Zenon, <2>3 DEF NInv
<1>5. ASSUME UNCHANGED dbuf, pickup' = <<>> => dclosed \/ ~DropOldest
      PROVE  NInv'
  <2>1. Dispatched' = Dispatched
    BY Zenon, <1>1, <1>5 DEF Dispatched
  <2>2. Dispatched < events /\ Dispatched <= events
    BY Zenon, <1>1, <1>2 DEF NInv, DispatchOrder
  <2>3. DispatchOrder' /\ NewestKept'
    BY Zenon, <1>1, <1>2, <1>5, <2>1, <2>2 DEF DispatchOrder, NewestKept
  <2>4. QED
    BY Zenon, <2>3 DEF NInv
<1>6. CASE ToDispatcher
  <2>1. CASE dclosed \/ Len(dbuf) >= DispatchSize
    BY <1>1, <1>5, <1>6, <2>1 DEF ToDispatcher
  <2>2. CASE ~dclosed /\ ~(Len(dbuf) >= DispatchSize)
    <3>1. dbuf' = Append(dbuf, events) /\ pickup' = <<>>
      BY Zenon, <1>1, <1>6, <2>2 DEF ToDispatcher
    <3>2. QED
      BY Zenon, <1>2, <1>3, <1>4, <3>1
  <2>3. QED
    BY Zenon, <2>1, <2>2
<1>7. CASE DispatchOverflow
  <2>1. CASE ~DropOldest
    BY <1>5, <1>7, <2>1 DEF DispatchOverflow
  <2>2. CASE DropOldest /\ dbuf = <<>>
    <3>1. dbuf' = Append(dbuf, events) /\ pickup' = <<>>
      BY Zenon, <1>1, <1>7, <2>2 DEF DispatchOverflow
    <3>2. QED
      BY Zenon, <1>2, <1>3, <1>4, <3>1
  <2>3. CASE DropOldest /\ dbuf # <<>>
    <3>1. dbuf' = Append(Tail(dbuf), events) /\ pickup' = <<>>
      BY Zenon, <1>1, <1>7, <2>3 DEF DispatchOverflow
    <3>2. /\ Tail(dbuf) \in Seq(Nat)
          /\ \A i \in 1 .. Len(Tail(dbuf)) : handled < Tail(dbuf)[i]
          /\ \A i, j \in 1 .. Len(Tail(dbuf)) : i < j => Tail(dbuf)[i] < Tail(dbuf)[j]
          /\ Tail(dbuf) # <<>> => Tail(dbuf)[Len(Tail(dbuf))] = dbuf[Len(dbuf)]
      BY Zenon, <1>2, <2>3, Dequeued
    <3>3. QED
      BY Zenon, <1>3, <1>4, <2>3, <3>1, <3>2
  <2>4. QED
    BY Zenon, <2>1, <2>2, <2>3
<1>8. QED
  BY Zenon, <1>6, <1>7

\* The worker takes the oldest notification, or its handler returns.
LEMMA WorkKeeps ==
  ASSUME NInv, SInv', Work
  PROVE  NInv'
<1>1. UNCHANGED <<pickup, dclosed, start, events>>
  BY Zenon DEF Work, allSub, subVars
<1>2. CASE UNCHANGED <<dbuf, handled>>
  <2>1. Dispatched' = Dispatched
    BY Zenon, <1>2 DEF Dispatched
  <2>2. QED
    BY Zenon, <1>1, <1>2, <2>1 DEF NInv, DispatchOrder, NewestKept
<1>3. CASE dbuf # <<>> /\ dbuf' = Tail(dbuf) /\ handled' = Head(dbuf)
  <2>1. /\ dbuf' \in Seq(Nat) /\ handled' = dbuf[1] /\ handled' \in Nat
        /\ dbuf' # <<>> => dbuf'[Len(dbuf')] = dbuf[Len(dbuf)]
        /\ dbuf' = <<>> => dbuf[Len(dbuf)] = dbuf[1]
        /\ \A i \in 1 .. Len(dbuf') : handled' < dbuf'[i]
        /\ \A i, j \in 1 .. Len(dbuf') : i < j => dbuf'[i] < dbuf'[j]
    BY Zenon, <1>3, Dequeued DEF NInv, DispatchOrder
  <2>2. Dispatched' = Dispatched
    BY Zenon, <1>3, <2>1 DEF Dispatched
  <2>3. DispatchOrder' /\ NewestKept'
    BY Zenon, <1>1, <2>1, <2>2 DEF NInv, DispatchOrder, NewestKept
  <2>4. QED
    BY Zenon, <2>3 DEF NInv
<1>4. QED
  BY Zenon, <1>2, <1>3 DEF Work

\* Every step keeps the invariant of the dispatcher.
LEMMA DispatchStep == NInv /\ [DeliveryNext]_deliveryVars => NInv'
<1> SUFFICES ASSUME NInv, [DeliveryNext]_deliveryVars PROVE NInv'
  BY Zenon
<1>1. SInv'
  BY Zenon, StreamStep DEF NInv
<1>2. ASSUME UNCHANGED <<dbuf, handled, pickup, events>>, dclosed => dclosed',
             start' = "unused" => start = "unused"
      PROVE  NInv'
  <2>1. Dispatched' = Dispatched
    BY Zenon, <1>2 DEF Dispatched
  <2>2. DispatchOrder'
    BY Zenon, <1>2, <2>1 DEF NInv, DispatchOrder
  <2>3. NewestKept'
    BY Zenon, <1>2, <2>1 DEF NInv, NewestKept
  <2>4. QED
    BY Zenon, <1>1, <2>2, <2>3 DEF NInv
<1>3. CASE SubNext /\ UNCHANGED evVars
  <2>1. start' = "unused" => start = "unused"
    BY Zenon, <1>3 DEF SubNext, Read, Device, GiveUp, Subscribe, SubscribeFailed, SubscribeStored,
       SubscribeStarted, RenewDue, RenewEnds, RenewAnnounced, RenewIssued, RenewAnswered,
       RenewReported, Lookup, Deliver, CloseEnter, CloseIssue, CloseReturns, ClientClose,
       CloseAll, CloseAllEnter, CloseAllReturns
  <2>2. QED
    BY Zenon, <1>2, <1>3, <2>1 DEF evVars, dispatchVars
<1>4. CASE UNCHANGED deliveryVars
  BY Zenon, <1>2, <1>4 DEF deliveryVars, allSub, subVars, evVars, dispatchVars
<1>5. CASE OpenEventStream \/ (\E k \in Streams : CloseStream(k) \/ Uninstall(k) \/ ReadStream(k))
  BY Zenon, <1>2, <1>5 DEF OpenEventStream, CloseStream, Uninstall, ReadStream, dispatchVars, allSub,
     subVars
<1>6. CASE DispatcherClose
  BY Zenon, <1>2, <1>6 DEF DispatcherClose, allSub, subVars
<1>7. QED
  BY Zenon, <1>1, <1>3, <1>4, <1>5, <1>6, HandOverKeeps, DispatchKeeps, WorkKeeps DEF DeliveryNext

\* NewestIsHandled says the same of the handled notification and the queue as
\* one sequence.
LEMMA InOrder ==
  ASSUME DispatchOrder, NewestKept
  PROVE  NewestIsHandled
<1> DEFINE q == <<handled>> \o dbuf
<1>1. /\ q \in Seq(Nat) /\ Len(dbuf) \in Nat /\ Len(q) = Len(dbuf) + 1 /\ q[1] = handled
      /\ DOMAIN q = 1 .. Len(dbuf) + 1
      /\ \A i \in 1 .. Len(dbuf) : q[i + 1] = dbuf[i]
  BY DEF DispatchOrder
<1> HIDE DEF q
<1>2. ASSUME NEW i \in DOMAIN q, NEW j \in DOMAIN q, i < j PROVE q[i] < q[j]
  <2>1. j - 1 \in 1 .. Len(dbuf) /\ q[j] = dbuf[j - 1]
    <3>1. j - 1 \in 1 .. Len(dbuf) /\ (j - 1) + 1 = j
      BY <1>1, <1>2
    <3>2. QED
      BY ZenonT(30), <1>1, <3>1
  <2>2. CASE i = 1
    BY Zenon, <1>1, <2>1, <2>2 DEF DispatchOrder
  <2>3. CASE i # 1
    <3>1. i - 1 \in 1 .. Len(dbuf) /\ (i - 1) + 1 = i /\ i - 1 < j - 1
      BY <1>1, <1>2, <2>3
    <3>2. q[i] = dbuf[i - 1]
      BY Zenon, <1>1, <3>1
    <3>3. QED
      BY Zenon, <2>1, <3>1, <3>2 DEF DispatchOrder
  <2>4. QED
    BY Zenon, <2>2, <2>3
<1>3. q[Len(q)] = Dispatched
  <2>1. CASE dbuf = <<>>
    BY <1>1, <2>1 DEF Dispatched
  <2>2. CASE dbuf # <<>>
    <3>1. Len(dbuf) \in 1 .. Len(dbuf)
      BY <1>1, <2>2, TailFacts DEF DispatchOrder
    <3>2. QED
      BY Zenon, <1>1, <2>2, <3>1 DEF Dispatched
  <2>3. QED
    BY Zenon, <2>1, <2>2
<1>4. QED
  BY Zenon, <1>2, <1>3 DEF q, NewestIsHandled, NewestKept

------------------------------------------------------------------------------
\* EndsWithClosed: the event stream of a subscription that was started ends
\* with Closed, however many events were sent by the renewal loop, the receive
\* loop and the closers, whatever the reader took (subscription.send keeps the
\* last slot of the channel for Closed).
THEOREM StreamEndsWithClosed == DeliverySpec => []EndsWithClosed
<1>1. DeliverySpec => []QInv
  BY QueueStart, QueueStep, PTL DEF DeliverySpec
<1>2. QInv => EndsWithClosed
  BY Zenon DEF QInv
<1>3. QED
  BY <1>1, <1>2, PTL

\* Close returns, and the once it shares with closeAll is over, only after the
\* renewal loop has ended or never came to be (subscription.Close, closeAll).
THEOREM ClosedInOrder == DeliverySpec => [](CloseOrder /\ ClientCloseOrder)
<1>1. CInv /\ [DeliveryNext]_deliveryVars => CInv'
  BY Zenon, CloseStep
<1>2. CInv => CloseOrder /\ ClientCloseOrder
  BY Zenon DEF CInv
<1>3. QED
  BY <1>1, <1>2, CloseStart, PTL DEF DeliverySpec

\* QuietAfterClose: once Close or Client.Close has returned no step sends a
\* datagram of the subscription any more.
THEOREM NothingSentAfterClose == DeliverySpec => QuietAfterClose
<1>1. CInv /\ [DeliveryNext]_deliveryVars => CInv'
  BY Zenon, CloseStep
<1>2. CInv /\ [DeliveryNext]_deliveryVars
        => [close = "returned" \/ (dispatcherClose = "returned" /\ Used)
              => Len(wire') <= Len(wire)]_deliveryVars
  BY Zenon, CloseStep DEF Quiet
<1>3. QED
  BY <1>1, <1>2, CloseStart, PTL DEF DeliverySpec, QuietAfterClose

\* LossIsAnnounced: the reader of an open stream sees Gap exactly where events
\* are missing, and the handler is called in the order received, with the
\* newest notification kept under drop-oldest (eventStream.publish,
\* eventDispatcher.publish).
THEOREM LossesAreAnnounced == DeliverySpec => []LossIsAnnounced
<1>1. DeliverySpec => []NInv
  BY DispatchStart, DispatchStep, PTL DEF DeliverySpec
<1>2. NInv => LossIsAnnounced
  BY Zenon, InOrder DEF NInv, SInv, LossIsAnnounced
<1>3. QED
  BY <1>1, <1>2, PTL
==============================================================================
