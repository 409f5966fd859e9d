--------------------------- MODULE ClientTxProofs ---------------------------
(***************************************************************************)
(* Proofs about ClientTx, for every set of requests, every number of       *)
(* invoke IDs and every timeout.                                           *)
(***************************************************************************)
EXTENDS ClientTx, TLAPS

\* The part of TypeOK the guarantees of the transaction manager rest on.
TypeInv ==
  /\ pc \in [Requests -> PCs] /\ id \in [Requests -> IDs]
  /\ tx \in [Requests -> TxSet] /\ inUse \in [IDs -> Owner]
  /\ reserved \subseteq IDs /\ nextID \in IDs /\ fin \in [Agents -> FinSet]
  /\ rx \in [kind : SegmentKinds \cup {"none"}, id : IDs, from : Owner]
  /\ closer \in [step : {"open", "closed", "publishing", "done"},
                 pending : SUBSET Requests]

\* The allocation scan stays within the invoke IDs.
LEMMA ScanInIDs ==
  ASSUME nextID \in IDs, NEW k \in Nat
  PROVE  Scan(k) \in IDs
BY BoundsAssumption DEF Scan, IDs

\* The results the client makes up itself, and those that come from the peer.
LEMMA PlainType ==
  ASSUME NEW k \in LocalKinds
  PROVE  Plain(k) \in ResultSet
BY Zenon DEF Plain, ResultSet, Owner

\* Local results, wrapped as outcome-unknown or not.
LEMMA LocalTypes ==
  ASSUME NEW k \in LocalKinds, NEW r \in Requests
  PROVE  /\ Plain(k) \in ResultSet
         /\ wrapOutcomeUnknown(r, k) \in ResultSet
         /\ maybeUnknown(r, k) \in ResultSet
BY DEF Plain, wrapOutcomeUnknown, maybeUnknown, ResultSet, Owner

\* The results that come from the peer.
LEMMA PeerTypes ==
  ASSUME NEW k \in {"ack", "refusal"}, NEW q \in Owner
  PROVE  FromPeer(k, q) \in ResultSet
BY Zenon DEF FromPeer, ResultSet

(***************************************************************************)
(* That a transaction's result is published exactly once: the invariant    *)
(* that follows the right to publish, and the callers' steps.  register    *)
(* creates the right in inUse; complete moves it to the goroutine that     *)
(* removed the transaction, abortAll to the set it collected; publishing   *)
(* turns it into the result.  A request's right is in at most one of these *)
(* places (TakenIsGone, PendingIsGone, ResultIsLast), and while its caller *)
(* waits, in at least one (Accounted).                                     *)
(***************************************************************************)

\* The caller has registered its transaction.
Registered(r) == pc[r] \notin {"idle", "alloc", "allocWait", "reserved"}

Takes(a, r) == fin[a].step = "publish" /\ fin[a].tx = r

\* A transaction in use is registered under its own invoke ID.
InUseIsOwn ==
  \A i \in IDs : inUse[i] # NoReq =>
    id[inUse[i]] = i /\ Registered(inUse[i])

\* A transaction somebody took is nowhere else.
TakenIsGone ==
  \A r \in Requests : \A a \in Agents : Takes(a, r) =>
    /\ Registered(r) /\ inUse[id[r]] # r /\ tx[r].result = NoResult
    /\ r \notin closer.pending
    /\ \A b \in Agents : Takes(b, r) => a = b

PendingIsGone ==
  \A r \in closer.pending :
    Registered(r) /\ inUse[id[r]] # r /\ tx[r].result = NoResult

ResultIsLast ==
  \A r \in Requests : tx[r].result # NoResult => Registered(r) /\ inUse[id[r]] # r

\* A caller in finishTx is there for its own invoke ID, with a result.
Finishers ==
  /\ \A r \in Requests :
       /\ pc[r] = "finishing" <=> fin[Caller(r)].step # "none"
       /\ pc[r] = "finishing" => fin[Caller(r)].id = id[r]
  /\ \A a \in Agents : fin[a].step # "none" => fin[a].res # NoResult
  /\ rx # RxIdle => fin[RxLoop] = NotFinishing

Alive(r) == inUse[id[r]] = r \/ tx[r].result # NoResult \/ Owed(r)

LivePCs == {"registered", "sending", "sendWait", "acked", "wait", "expired", "resend"}

\* A caller's transaction is in use, taken or answered until it returns; one
\* that lost the race knows it is no longer in use.
Accounted ==
  \A r \in Requests :
    /\ pc[r] \in LivePCs => Alive(r)
    /\ pc[r] = "lost" => Alive(r) /\ inUse[id[r]] # r
    /\ pc[r] = "finishing" /\ fin[Caller(r)].step = "lock" => Alive(r)
    /\ /\ pc[r] = "finishing" /\ fin[Caller(r)].step = "publish"
       /\ fin[Caller(r)].tx = NoReq
       => Alive(r) /\ inUse[id[r]] # r

OnceInv ==
  /\ IDsExclusive
  /\ InUseIsOwn
  /\ TakenIsGone
  /\ PendingIsGone
  /\ ResultIsLast
  /\ Finishers
  /\ Accounted

\* The goroutines that may run finishTx are distinct.
LEMMA AgentFacts ==
  /\ RxLoop \in Agents
  /\ \A r \in Requests : Caller(r) \in Agents /\ Watcher(r) \in Agents
  /\ \A r : Caller(r) # RxLoop /\ Watcher(r) # RxLoop
  /\ \A r, q : Caller(r) # Watcher(q)
  /\ \A r, q : Caller(r) = Caller(q) => r = q
BY Zenon DEF Agents, RxLoop, Caller, Watcher

\* What inUse holds, when it holds something, is a request.
LEMMA OwnerFacts ==
  ASSUME TypeInv, NEW i \in IDs, inUse[i] # NoReq
  PROVE  inUse[i] \in Requests
BY Zenon DEF TypeInv, Owner

\* A published result is never mistaken for an empty channel.
LEMMA ResultNotEmpty ==
  ASSUME NEW res \in ResultSet
  PROVE  res # NoResult
BY DEF ResultSet, NoResult, LocalKinds

\* TakenIsGone for one goroutine and one transaction.
LEMMA Taken ==
  ASSUME TakenIsGone, NEW q \in Requests, NEW a \in Agents, Takes(a, q)
  PROVE  /\ Registered(q) /\ inUse[id[q]] # q /\ tx[q].result = NoResult
         /\ q \notin closer.pending
         /\ \A b \in Agents : Takes(b, q) => a = b
BY Zenon DEF TakenIsGone

\* A caller that goes on without leaving its transaction.
LEMMA CallerMoves ==
  ASSUME TypeInv, OnceInv, NEW r \in Requests, NEW l,
         pc[r] \in LivePCs,
         l \in LivePCs \/ (l = "lost" /\ inUse[id[r]] # r),
         pc' = [pc EXCEPT ![r] = l],
         UNCHANGED <<id, inUse, reserved, closer, fin, rx>>,
         \A q \in Requests : tx'[q].result = tx[q].result
  PROVE  OnceInv'
<1>1. \A q \in Requests : /\ Registered(q)' <=> Registered(q)
                          /\ Owed(q)' <=> Owed(q)
                          /\ Alive(q)' <=> Alive(q)
  BY DEF Registered, Owed, Alive, LivePCs
<1>2. IDsExclusive'
  BY SMTT(30) DEF OnceInv, IDsExclusive, LivePCs
<1>3. InUseIsOwn'
  BY Zenon, <1>1, OwnerFacts DEF OnceInv, InUseIsOwn
<1>4. TakenIsGone'
  BY SMTT(30), <1>1 DEF OnceInv, TakenIsGone, Takes
<1>5. PendingIsGone'
  BY Zenon, <1>1 DEF OnceInv, PendingIsGone, TypeInv
<1>6. ResultIsLast'
  BY Zenon, <1>1 DEF OnceInv, ResultIsLast
<1>7. Finishers'
  BY SMTT(30) DEF OnceInv, Finishers, LivePCs
<1>8. Accounted'
  BY SMTT(30), <1>1 DEF OnceInv, Accounted, LivePCs
<1> QED BY Zenon, <1>2, <1>3, <1>4, <1>5, <1>6, <1>7, <1>8 DEF OnceInv

\* A caller that enters finishTx.
LEMMA CallerEnds ==
  ASSUME TypeInv, OnceInv, NEW r \in Requests, NEW res \in ResultSet, NEW hold,
         pc[r] \in LivePCs,
         EndWith(r, res, hold),
         UNCHANGED <<id, inUse, reserved, closer, rx>>,
         \A q \in Requests : tx'[q].result = tx[q].result
  PROVE  OnceInv'
<1>1. /\ pc' = [pc EXCEPT ![r] = "finishing"]
      /\ fin' = [fin EXCEPT ![Caller(r)] = Finish(id[r], res, hold)]
  BY Zenon DEF EndWith, Goto
<1>2. fin[Caller(r)].step = "none"
  BY Zenon DEF OnceInv, Finishers, LivePCs
<1>3. /\ Caller(r) \in Agents
      /\ fin'[Caller(r)].step = "lock" /\ fin'[Caller(r)].id = id[r]
      /\ fin'[Caller(r)].res = res
      /\ \A b \in Agents : b # Caller(r) => fin'[b] = fin[b]
  BY Zenon, <1>1, AgentFacts DEF Finish, TypeInv
<1>4. \A b \in Agents, q \in Requests : Takes(b, q)' <=> Takes(b, q)
  BY Zenon, <1>2, <1>3 DEF Takes
<1>5. \A q \in Requests : /\ Registered(q)' <=> Registered(q)
                          /\ Owed(q)' <=> Owed(q)
                          /\ Alive(q)' <=> Alive(q)
  BY SMTT(30), <1>1, <1>4 DEF Registered, Owed, Alive, LivePCs, Takes
<1>6. IDsExclusive'
  BY SMTT(30), <1>1 DEF OnceInv, IDsExclusive
<1>7. InUseIsOwn'
  BY Zenon, <1>5, OwnerFacts DEF OnceInv, InUseIsOwn
<1>8. TakenIsGone'
  BY Zenon, <1>4, <1>5 DEF OnceInv, TakenIsGone
<1>9. PendingIsGone'
  BY ZenonT(30), <1>5 DEF OnceInv, PendingIsGone, TypeInv
<1>10. ResultIsLast'
  BY Zenon, <1>5 DEF OnceInv, ResultIsLast
<1>11. Finishers'
  <2>1. \A q \in Requests : q # r => fin'[Caller(q)] = fin[Caller(q)]
    BY Zenon, <1>3, AgentFacts
  <2>2. fin'[RxLoop] = fin[RxLoop]
    BY Zenon, <1>3, AgentFacts
  <2>3. \A b \in Agents : fin'[b].step # "none" => fin'[b].res # NoResult
    BY Zenon, <1>3, ResultNotEmpty DEF OnceInv, Finishers
  <2>4. \A q \in Requests :
          /\ pc'[q] = "finishing" <=> fin'[Caller(q)].step # "none"
          /\ pc'[q] = "finishing" => fin'[Caller(q)].id = id[q]
    BY <1>1, <1>3, <2>1 DEF OnceInv, Finishers, TypeInv
  <2> QED BY Zenon, <2>2, <2>3, <2>4 DEF OnceInv, Finishers
<1>12. Accounted'
  <2>1. \A q \in Requests : q # r => fin'[Caller(q)] = fin[Caller(q)]
    BY Zenon, <1>3, AgentFacts
  <2>2. Alive(r)
    BY Zenon DEF OnceInv, Accounted
  <2> QED BY Zenon, <1>1, <1>3, <1>5, <2>1, <2>2 DEF OnceInv, Accounted, LivePCs, TypeInv
<1> QED BY Zenon, <1>6, <1>7, <1>8, <1>9, <1>10, <1>11, <1>12 DEF OnceInv

\* The receive loop or a watchdog enters finishTx.
LEMMA AgentEnters ==
  ASSUME TypeInv, OnceInv, NEW a, \A r : a # Caller(r),
         NEW i, NEW res \in ResultSet, NEW hold,
         a \in Agents => fin[a].step = "none",
         fin' = [fin EXCEPT ![a] = Finish(i, res, hold)],
         rx' = RxIdle \/ (rx' = rx /\ a # RxLoop),
         UNCHANGED <<pc, id, inUse, reserved, closer>>,
         \A q \in Requests : tx'[q].result = tx[q].result
  PROVE  OnceInv'
<1>1. /\ \A b \in Agents : b # a => fin'[b] = fin[b]
      /\ a \in Agents => fin'[a].step = "lock" /\ fin'[a].res = res
  BY Zenon DEF Finish, TypeInv
<1>2. \A b \in Agents, q \in Requests : Takes(b, q)' <=> Takes(b, q)
  BY Zenon, <1>1 DEF Takes
<1>3. \A q \in Requests : /\ Registered(q)' <=> Registered(q)
                          /\ Owed(q)' <=> Owed(q)
                          /\ Alive(q)' <=> Alive(q)
  BY SMTT(30), <1>2 DEF Registered, Owed, Alive, Takes
<1>4. \A q \in Requests : fin'[Caller(q)] = fin[Caller(q)]
  BY Zenon, <1>1, AgentFacts
<1>5. IDsExclusive'
  BY Zenon DEF OnceInv, IDsExclusive
<1>6. InUseIsOwn'
  BY Zenon, <1>3, OwnerFacts DEF OnceInv, InUseIsOwn
<1>7. TakenIsGone'
  BY Zenon, <1>2, <1>3 DEF OnceInv, TakenIsGone
<1>8. PendingIsGone'
  BY ZenonT(30), <1>3 DEF OnceInv, PendingIsGone, TypeInv
<1>9. ResultIsLast'
  BY Zenon, <1>3 DEF OnceInv, ResultIsLast
<1>10. Finishers'
  <2>1. \A b \in Agents : fin'[b].step # "none" => fin'[b].res # NoResult
    BY Zenon, <1>1, ResultNotEmpty DEF OnceInv, Finishers
  <2>2. rx' # RxIdle => fin'[RxLoop] = NotFinishing
    BY Zenon, <1>1, AgentFacts DEF OnceInv, Finishers
  <2> QED BY Zenon, <1>4, <2>1, <2>2 DEF OnceInv, Finishers
<1>11. Accounted'
  BY Zenon, <1>3, <1>4 DEF OnceInv, Accounted
<1> QED BY Zenon, <1>5, <1>6, <1>7, <1>8, <1>9, <1>10, <1>11 DEF OnceInv

\* Steps that touch neither a caller nor the right to publish.
LEMMA NothingTaken ==
  ASSUME TypeInv, OnceInv,
         UNCHANGED <<pc, id, inUse, reserved, fin>>,
         closer'.pending = closer.pending,
         rx' # RxIdle => fin[RxLoop] = NotFinishing,
         \A q \in Requests : tx'[q].result = tx[q].result
  PROVE  OnceInv'
<1>1. \A q \in Requests : /\ Registered(q)' <=> Registered(q)
                          /\ Owed(q)' <=> Owed(q)
                          /\ Alive(q)' <=> Alive(q)
  BY Zenon DEF Registered, Owed, Alive
<1>2. IDsExclusive' /\ InUseIsOwn'
  BY Zenon, <1>1, OwnerFacts DEF OnceInv, IDsExclusive, InUseIsOwn
<1>3. TakenIsGone'
  BY Zenon, <1>1 DEF OnceInv, TakenIsGone, Takes
<1>4. PendingIsGone' /\ ResultIsLast'
  BY Zenon, <1>1 DEF OnceInv, PendingIsGone, ResultIsLast, TypeInv
<1>5. Finishers' /\ Accounted'
  BY Zenon, <1>1 DEF OnceInv, Finishers, Accounted
<1> QED BY Zenon, <1>2, <1>3, <1>4, <1>5 DEF OnceInv

\* A caller that has no invoke ID yet: Start, Refuse, a failed allocation.
LEMMA NotYetRegistered ==
  ASSUME TypeInv, OnceInv, NEW r \in Requests,
         pc[r] \in {"idle", "alloc", "allocWait"},
         NEW l \in {"alloc", "allocWait", "done"},
         pc' = [pc EXCEPT ![r] = l],
         UNCHANGED <<id, tx, inUse, reserved, closer, fin, rx>>
  PROVE  OnceInv'
<1>1. \A q \in Requests : /\ Registered(q) => Registered(q)'
                          /\ Owed(q)' <=> Owed(q)
                          /\ Alive(q)' <=> Alive(q)
  BY DEF Registered, Owed, Alive
<1>2. IDsExclusive'
  BY DEF OnceInv, IDsExclusive
<1>3. InUseIsOwn'
  BY Zenon, <1>1, OwnerFacts DEF OnceInv, InUseIsOwn
<1>4. TakenIsGone'
  BY <1>1 DEF OnceInv, TakenIsGone, Takes
<1>5. PendingIsGone'
  BY Zenon, <1>1 DEF OnceInv, PendingIsGone, TypeInv
<1>6. ResultIsLast'
  BY Zenon, <1>1 DEF OnceInv, ResultIsLast
<1>7. Finishers'
  BY DEF OnceInv, Finishers
<1>8. Accounted'
  BY Zenon, <1>1 DEF OnceInv, Accounted, LivePCs, TypeInv
<1> QED BY Zenon, <1>2, <1>3, <1>4, <1>5, <1>6, <1>7, <1>8 DEF OnceInv

\* tryAllocLocked.
LEMMA AllocateOnce ==
  ASSUME TypeInv, OnceInv, NEW r \in Requests, Allocate(r)
  PROVE  OnceInv'
<1>1. PICK k \in 0 .. NumIDs - 1 :
        /\ Free(Scan(k))
        /\ reserved' = reserved \cup {Scan(k)}
        /\ id' = [id EXCEPT ![r] = Scan(k)]
  BY Zenon DEF Allocate, tryAllocLocked
<1> DEFINE n == Scan(k)
<1>2. /\ pc[r] \in {"alloc", "allocWait"} /\ pc' = [pc EXCEPT ![r] = "reserved"]
      /\ UNCHANGED <<tx, inUse, closer, fin, rx>>
      /\ n \in IDs /\ inUse[n] = NoReq /\ n \notin reserved
  BY <1>1, ScanInIDs DEF Allocate, tryAllocLocked, Goto, Free, TypeInv
<1> HIDE DEF n
<1>3. reserved' = reserved \cup {n} /\ id' = [id EXCEPT ![r] = n]
  BY Zenon, <1>1 DEF n
<1>4. ~Registered(r) /\ ~Registered(r)'
      /\ \A q \in Requests : q # r => id'[q] = id[q] /\ pc'[q] = pc[q]
  BY SMTT(30), <1>2, <1>3 DEF Registered
<1>5. \A q \in Requests : /\ Registered(q)' <=> Registered(q)
                          /\ Owed(q)' <=> Owed(q)
                          /\ Registered(q) => id'[q] = id[q] /\ (Alive(q)' <=> Alive(q))
  BY Zenon, <1>2, <1>4 DEF Registered, Owed, Alive
<1>6. IDsExclusive'
  <2>1. \A i \in reserved' : inUse'[i] = NoReq
    BY Zenon, <1>2, <1>3 DEF OnceInv, IDsExclusive
  <2>2. \A q \in Requests : pc'[q] = "reserved" => id'[q] \in reserved'
    BY Zenon, <1>2, <1>3 DEF OnceInv, IDsExclusive, TypeInv
  <2>3. \A q \in Requests : q # r /\ pc'[q] = "reserved" => id'[q] # n
    BY Zenon, <1>2, <1>4 DEF OnceInv, IDsExclusive
  <2>4. \A q, p \in Requests :
          pc'[q] = "reserved" /\ pc'[p] = "reserved" /\ id'[q] = id'[p] => q = p
    BY <1>3, <1>4, <2>3 DEF OnceInv, IDsExclusive, TypeInv
  <2> QED BY Zenon, <2>1, <2>2, <2>4 DEF IDsExclusive
<1>7. InUseIsOwn'
  BY Zenon, <1>2, <1>5, OwnerFacts DEF OnceInv, InUseIsOwn
<1>8. TakenIsGone'
  BY SMTT(30), <1>2, <1>5 DEF OnceInv, TakenIsGone, Takes
<1>9. PendingIsGone'
  BY Zenon, <1>2, <1>5 DEF OnceInv, PendingIsGone, TypeInv
<1>10. ResultIsLast'
  BY Zenon, <1>2, <1>5 DEF OnceInv, ResultIsLast
<1>11. Finishers'
  BY SMTT(30), <1>2, <1>4 DEF OnceInv, Finishers
<1>12. Accounted'
  <2>1. \A q \in Requests : q # r => pc'[q] = pc[q] /\ id'[q] = id[q] /\ (Alive(q)' <=> Alive(q))
    BY Zenon, <1>2, <1>4, <1>5 DEF Alive
  <2> QED BY <1>2, <2>1 DEF OnceInv, Accounted, LivePCs
<1> QED BY Zenon, <1>6, <1>7, <1>8, <1>9, <1>10, <1>11, <1>12 DEF OnceInv

\* register: the right to publish is created.
LEMMA RegisterOnce ==
  ASSUME TypeInv, OnceInv, NEW r \in Requests, register(r)
  PROVE  OnceInv'
<1> DEFINE i == id[r]
<1>1. /\ pc[r] = "reserved" /\ pc' = [pc EXCEPT ![r] = "registered"]
      /\ reserved' = reserved \ {i}
      /\ inUse' = [inUse EXCEPT ![i] = r]
      /\ tx'[r].result = NoResult
      /\ \A q \in Requests : q # r => tx'[q] = tx[q]
      /\ UNCHANGED <<id, closer, fin, rx>>
  BY Zenon DEF register, Goto, TypeInv
<1>2. i \in reserved /\ i \in IDs /\ inUse[i] = NoReq
  BY Zenon, <1>1 DEF OnceInv, IDsExclusive, TypeInv
<1>3. ~Registered(r) /\ Registered(r)' /\ ~Owed(r)
  BY Zenon, <1>1 DEF Registered, Owed, OnceInv, TakenIsGone, PendingIsGone, Takes, TypeInv
<1>4. \A q \in Requests : q # r =>
        /\ pc'[q] = pc[q]
        /\ Registered(q)' <=> Registered(q)
        /\ Owed(q)' <=> Owed(q)
        /\ inUse'[id[q]] = q <=> inUse[id[q]] = q
        /\ Alive(q)' <=> Alive(q)
  BY <1>1, <1>2, RequestsAssumption DEF Registered, Owed, Alive
<1>5. IDsExclusive'
  BY Zenon, <1>1, <1>2 DEF OnceInv, IDsExclusive, TypeInv
<1>6. InUseIsOwn'
  BY SMTT(30), <1>1, <1>2, <1>3, <1>4, OwnerFacts DEF OnceInv, InUseIsOwn
<1>7. \A a \in Agents, q \in Requests : Takes(a, q)' <=> Takes(a, q)
  BY Zenon, <1>1 DEF Takes
<1>8. \A a \in Agents : ~Takes(a, r)
  BY Zenon, <1>3 DEF Owed, Takes
<1>9. TakenIsGone'
  BY SMTT(30), <1>1, <1>4, <1>7, <1>8 DEF OnceInv, TakenIsGone
<1>10. PendingIsGone'
  BY <1>1, <1>3, <1>4 DEF OnceInv, PendingIsGone, Owed, TypeInv
<1>11. ResultIsLast'
  BY SMTT(30), <1>1, <1>4 DEF OnceInv, ResultIsLast
<1>12. Finishers'
  BY <1>1 DEF OnceInv, Finishers
<1>13. Alive(r)'
  BY Zenon, <1>1, <1>2 DEF Alive, TypeInv
<1>14. Accounted'
  BY Zenon, <1>1, <1>4, <1>13 DEF OnceInv, Accounted, LivePCs, TypeInv
<1> QED BY Zenon, <1>5, <1>6, <1>9, <1>10, <1>11, <1>12, <1>14 DEF OnceInv

\* TakeResult and Deferred: the caller returns.
LEMMA CallerReturns ==
  ASSUME TypeInv, OnceInv, NEW r \in Requests, TakeResult(r) \/ Deferred(r)
  PROVE  OnceInv'
<1>1. /\ pc[r] \in {"wait", "lost", "deferred"}
      /\ \E l \in {"deferred", "done"} : pc' = [pc EXCEPT ![r] = l]
      /\ tx'[r].result = NoResult
      /\ \A q \in Requests : q # r => tx'[q] = tx[q]
      /\ UNCHANGED <<id, inUse, reserved, closer, fin, rx>>
  <2>1. CASE TakeResult(r)
    <3>1. tx' = [tx EXCEPT ![r].result = NoResult]
      BY Zenon, <2>1 DEF TakeResult
    <3>2. tx'[r].result = NoResult
      BY Zenon, <3>1 DEF TxSet, TypeInv
    <3> QED BY <2>1, <3>1, <3>2 DEF TakeResult, Return, mgrVars
  <2>2. CASE Deferred(r)
    BY Zenon, <2>2 DEF Deferred, Goto, NoTx, mgrVars, TypeInv
  <2> QED BY Zenon, <2>1, <2>2
<1>2. \A q \in Requests : /\ Registered(q)' <=> Registered(q)
                          /\ Owed(q)' <=> Owed(q)
                          /\ q # r => pc'[q] = pc[q] /\ (Alive(q)' <=> Alive(q))
  BY <1>1 DEF Registered, Owed, Alive
<1>3. IDsExclusive'
  <2>1. \A q \in Requests : pc'[q] = "reserved" => pc[q] = "reserved"
    BY <1>1, <1>2
  <2> QED BY Zenon, <1>1, <2>1 DEF OnceInv, IDsExclusive
<1>4. InUseIsOwn'
  BY Zenon, <1>1, <1>2, OwnerFacts DEF OnceInv, InUseIsOwn
<1>5. TakenIsGone'
  <2>1. \A a \in Agents, q \in Requests : Takes(a, q)' <=> Takes(a, q)
    BY Zenon, <1>1 DEF Takes
  <2>2. \A q \in Requests : tx[q].result = NoResult => tx'[q].result = NoResult
    BY Zenon, <1>1
  <2> QED BY Zenon, <1>1, <1>2, <2>1, <2>2 DEF OnceInv, TakenIsGone
<1>6. PendingIsGone'
  BY Zenon, <1>1, <1>2 DEF OnceInv, PendingIsGone, TypeInv
<1>7. ResultIsLast'
  BY Zenon, <1>1, <1>2 DEF OnceInv, ResultIsLast
<1>8. Finishers'
  BY SMTT(30), <1>1 DEF OnceInv, Finishers
<1>9. Accounted'
  BY ZenonT(30), <1>1, <1>2 DEF OnceInv, Accounted, LivePCs, TypeInv
<1> QED BY Zenon, <1>3, <1>4, <1>5, <1>6, <1>7, <1>8, <1>9 DEF OnceInv

(***************************************************************************)
(* The types.                                                              *)
(***************************************************************************)
\* The initial state has its type.
LEMMA InitType == Init => TypeInv
BY RequestsAssumption, BoundsAssumption
DEF Init, TypeInv, PCs, IDs, TxSet, FinSet, Timer, Off, Owner, NoTx, NotFinishing, RxIdle

\* A goroutine that enters finishTx.
LEMMA FinishType ==
  ASSUME fin \in [Agents -> FinSet], NEW a, NEW i \in IDs,
         NEW res \in ResultSet, NEW hold \in {0, ApduTimeout},
         fin' = [fin EXCEPT ![a] = Finish(i, res, hold)]
  PROVE  fin' \in [Agents -> FinSet]
<1>1. Finish(i, res, hold) \in FinSet
  BY Zenon DEF Finish, FinSet, Owner
<1> QED BY Zenon, <1>1

\* A caller that enters finishTx keeps the types of pc and fin.
LEMMA EndWithType ==
  ASSUME TypeInv, NEW r \in Requests, NEW res \in ResultSet,
         NEW hold \in {0, ApduTimeout}, EndWith(r, res, hold)
  PROVE  /\ pc' = [pc EXCEPT ![r] = "finishing"]
         /\ fin' \in [Agents -> FinSet]
<1>1. id[r] \in IDs /\ fin \in [Agents -> FinSet]
  BY Zenon DEF TypeInv
<1> QED BY Zenon, <1>1, FinishType DEF EndWith, Goto

\* What changes in a transaction keeps its type.
LEMMA TxTypes ==
  ASSUME NEW t \in TxSet
  PROVE  /\ [t EXCEPT !.sent = TRUE] \in TxSet
         /\ \A d \in {Off, ApduTimeout} : [t EXCEPT !.timer = d] \in TxSet
         /\ \A ph \in {"receiving", "sending"} :
              [t EXCEPT !.phase = ph, !.retries = 0, !.timer = Off] \in TxSet
         /\ [t EXCEPT !.phase = "initial", !.timer = ApduTimeout] \in TxSet
         /\ [t EXCEPT !.result = NoResult] \in TxSet
         /\ \A res \in ResultSet \cup {NoResult} :
              Published(t, res) \in TxSet
         /\ t.retries > 0 => [t EXCEPT !.retries = @ - 1] \in TxSet
         /\ NoTx \in TxSet
<1> USE BoundsAssumption
<1>1. \A u \in TxSet : [u EXCEPT !.sent = TRUE] \in TxSet
  BY Zenon DEF TxSet
<1>2. \A u \in TxSet, d \in {Off, ApduTimeout} : [u EXCEPT !.timer = d] \in TxSet
  BY DEF TxSet, Timer, Off
<1>3. \A u \in TxSet, ph \in {"initial", "receiving", "sending"} :
        [u EXCEPT !.phase = ph] \in TxSet
  BY Zenon DEF TxSet
<1>4. \A u \in TxSet : [u EXCEPT !.retries = 0] \in TxSet
  BY DEF TxSet
<1>5. \A u \in TxSet, res \in ResultSet \cup {NoResult} :
        [u EXCEPT !.result = res] \in TxSet
  BY Zenon DEF TxSet
<1>6. t.retries > 0 => [t EXCEPT !.retries = @ - 1] \in TxSet
  BY DEF TxSet
<1>7. NoTx \in TxSet
  BY DEF NoTx, TxSet, Timer, Off
<1>8. \A ph \in {"receiving", "sending"} :
        [t EXCEPT !.phase = ph, !.retries = 0, !.timer = Off] \in TxSet
  BY Zenon, <1>2, <1>3, <1>4
<1>9. [t EXCEPT !.phase = "initial", !.timer = ApduTimeout] \in TxSet
  BY Zenon, <1>2, <1>3
<1>10. \A res \in ResultSet \cup {NoResult} :
         Published(t, res) \in TxSet
  <2> SUFFICES ASSUME NEW res \in ResultSet \cup {NoResult}
               PROVE  Published(t, res) \in TxSet
      BY Zenon
  <2> DEFINE n == IF t.result = NoResult THEN res ELSE t.result
  <2>1. n \in ResultSet \cup {NoResult}
    BY Zenon DEF TxSet
  <2> HIDE DEF n
  <2>2. [t EXCEPT !.timer = Off, !.result = n] \in TxSet
    BY Zenon, <1>2, <1>5, <2>1
  <2> QED BY Zenon, <2>2 DEF Published, n
<1> QED BY Zenon, <1>1, <1>2, <1>5, <1>6, <1>7, <1>8, <1>9, <1>10


\* complete and Publish keep the type of the agents.
LEMMA FinTypes ==
  ASSUME fin \in [Agents -> FinSet], NEW a
  PROVE  /\ [fin EXCEPT ![a] = NotFinishing] \in [Agents -> FinSet]
         /\ \A t \in Owner :
              [fin EXCEPT ![a] = [@ EXCEPT !.step = "publish", !.tx = t]]
                \in [Agents -> FinSet]
<1>1. NotFinishing \in FinSet
  BY BoundsAssumption DEF NotFinishing, FinSet, Owner, IDs
<1>2. \A u \in FinSet : [u EXCEPT !.step = "publish"] \in FinSet
  BY Zenon DEF FinSet
<1>3. \A u \in FinSet, t \in Owner : [u EXCEPT !.tx = t] \in FinSet
  BY Zenon DEF FinSet
<1>4. \A u \in FinSet, t \in Owner :
        [u EXCEPT !.step = "publish", !.tx = t] \in FinSet
  BY Zenon, <1>2, <1>3
<1>5. [fin EXCEPT ![a] = NotFinishing] \in [Agents -> FinSet]
  BY Zenon, <1>1
<1>6. ASSUME NEW t \in Owner
      PROVE [fin EXCEPT ![a] = [@ EXCEPT !.step = "publish", !.tx = t]]
                \in [Agents -> FinSet]
  BY Zenon, <1>4
<1> QED BY Zenon, <1>5, <1>6

\* What every Publish does, whichever goroutine it is.
LEMMA PublishType ==
  ASSUME TypeInv, NEW a \in Agents, Publish(a)
  PROVE  /\ tx' \in [Requests -> TxSet]
         /\ fin' \in [Agents -> FinSet]
<1>1. fin[a] \in FinSet /\ tx \in [Requests -> TxSet]
  BY Zenon DEF TypeInv
<1> DEFINE t == fin[a].tx
<1>2. t \in Owner /\ fin[a].res \in ResultSet \cup {NoResult}
  BY Zenon, <1>1 DEF FinSet
<1>3. tx' \in [Requests -> TxSet]
  <2>1. CASE t = NoReq
    BY Zenon, <1>1, <2>1 DEF Publish
  <2>2. CASE t # NoReq
    <3>1. t \in Requests
      BY Zenon, <1>2, <2>2 DEF Owner
    <3>2. Published(tx[t], fin[a].res) \in TxSet
      BY Zenon, <1>1, <1>2, <3>1, TxTypes
    <3>3. tx' = [tx EXCEPT ![t] = Published(tx[t], fin[a].res)]
      BY Zenon, <2>2 DEF Publish
    <3> QED BY Zenon, <1>1, <3>1, <3>2, <3>3
  <2> QED BY Zenon, <2>1, <2>2
<1>6. fin' \in [Agents -> FinSet]
  BY Zenon, FinTypes DEF TypeInv, Publish
<1> QED BY Zenon, <1>3, <1>6

\* Every step preserves the types.
LEMMA StepType == TypeInv /\ [Next]_vars => TypeInv'
<1> SUFFICES ASSUME TypeInv, [Next]_vars PROVE TypeInv'
    BY Zenon
<1> USE BoundsAssumption
<1> USE DEF TypeInv, vars, callerVars, mgrVars, segVars, netVars
<1>1. ASSUME NEW r \in Requests, Start(r) \/ Refuse(r) \/ AllocateGivesUp(r)
      PROVE  TypeInv'
  BY Zenon, <1>1 DEF Start, Refuse, AllocateGivesUp, Goto, PCs
<1>2. ASSUME NEW r \in Requests, Allocate(r) PROVE TypeInv'
  <2>1. PICK k \in 0 .. NumIDs - 1 :
          /\ reserved' = reserved \cup {Scan(k)}
          /\ id' = [id EXCEPT ![r] = Scan(k)]
          /\ nextID' = Scan(k + 1)
    BY Zenon, <1>2 DEF Allocate, tryAllocLocked
  <2>2. Scan(k) \in IDs /\ Scan(k + 1) \in IDs
    BY ScanInIDs
  <2> QED
    BY Zenon, <1>2, <2>1, <2>2 DEF Allocate, tryAllocLocked, Goto, PCs
<1>3. ASSUME NEW r \in Requests, AllocateFails(r) PROVE TypeInv'
  BY Zenon, <1>3 DEF AllocateFails, Goto, PCs
<1>4. ASSUME NEW r \in Requests, register(r) PROVE TypeInv'
  BY <1>4 DEF register, Goto, PCs, TxSet, Timer, Off, Owner
<1>5. ASSUME NEW r \in Requests, Send(r) PROVE TypeInv'
  <2>1. tx' \in [Requests -> TxSet]
    BY Zenon, <1>5, TxTypes DEF Send
  <2>2. /\ \/ pc' = [pc EXCEPT ![r] = "wait"]
           \/ pc' = [pc EXCEPT ![r] = "finishing"]
        /\ fin' \in [Agents -> FinSet]
    BY Zenon, <1>5, EndWithType, LocalTypes DEF Send, LocalKinds, Goto
  <2>3. UNCHANGED <<id, mgrVars, rx, closer>>
    BY Zenon, <1>5 DEF Send
  <2> QED
    BY Zenon, <2>1, <2>2, <2>3 DEF PCs
<1>6. ASSUME NEW r \in Requests,
             SegmentsTooLarge(r) \/ SendGivesUp(r) \/ Cancel(r) \/ CloseSeen(r)
      PROVE  TypeInv'
  <2>1. pc' = [pc EXCEPT ![r] = "finishing"] /\ fin' \in [Agents -> FinSet]
    BY Zenon, <1>6, EndWithType, LocalTypes
    DEF SegmentsTooLarge, SendGivesUp, Cancel, CloseSeen, LocalKinds
  <2>2. UNCHANGED <<id, tx, mgrVars, rx, closer>>
    BY ZenonT(30), <1>6 DEF SegmentsTooLarge, SendGivesUp, Cancel, CloseSeen
  <2> QED
    BY Zenon, <2>1, <2>2 DEF PCs
<1>7. ASSUME NEW r \in Requests, enterSendingSegments(r) PROVE TypeInv'
  <2>1. tx' \in [Requests -> TxSet]
    <3> DEFINE t == inUse[id[r]]
    <3>1. ASSUME t # NoReq
          PROVE  t \in Requests /\ [tx[t] EXCEPT !.phase = "sending",
                                      !.retries = 0, !.timer = Off] \in TxSet
      BY Zenon, <3>1, TxTypes DEF Owner
    <3> QED BY ZenonT(30), <1>7, <3>1 DEF enterSendingSegments
  <2> QED
    BY Zenon, <1>7, <2>1 DEF enterSendingSegments, Goto, PCs
<1>8. ASSUME NEW r \in Requests, SendWindow(r) PROVE TypeInv'
  <2>1. tx' \in [Requests -> TxSet]
    BY Zenon, <1>8, TxTypes DEF SendWindow
  <2>2. /\ \/ pc' = [pc EXCEPT ![r] = "sendWait"]
           \/ pc' = [pc EXCEPT ![r] = "finishing"]
        /\ fin' \in [Agents -> FinSet]
    BY Zenon, <1>8, EndWithType, LocalTypes DEF SendWindow, LocalKinds, Goto
  <2> QED
    BY Zenon, <1>8, <2>1, <2>2 DEF SendWindow, PCs
<1>9. ASSUME NEW r \in Requests, AckProgress(r) PROVE TypeInv'
  BY Zenon, <1>9 DEF AckProgress, Goto, PCs
<1>11. ASSUME NEW r \in Requests, enterAwaitingResponse(r) PROVE TypeInv'
  <2>1. tx' \in [Requests -> TxSet]
    <3> DEFINE t == inUse[id[r]]
    <3>1. ASSUME t # NoReq
          PROVE  t \in Requests /\ [tx[t] EXCEPT !.phase = "initial",
                                      !.timer = ApduTimeout] \in TxSet
      BY Zenon, <3>1, TxTypes DEF Owner
    <3> QED BY ZenonT(30), <1>11, <3>1 DEF enterAwaitingResponse
  <2> QED
    BY Zenon, <1>11, <2>1 DEF enterAwaitingResponse, Goto, PCs
<1>13. ASSUME NEW r \in Requests, TimerFires(r) \/ Retransmit(r) PROVE TypeInv'
  <2>1. tx' \in [Requests -> TxSet]
    <3>1. \A d \in {Off, ApduTimeout} : [tx[r] EXCEPT !.timer = d] \in TxSet
      BY Zenon, TxTypes
    <3> QED BY Zenon, <1>13, <3>1 DEF TimerFires, Retransmit
  <2> QED
    BY Zenon, <1>13, <2>1 DEF TimerFires, Retransmit, Goto, PCs
<1>14. ASSUME NEW r \in Requests, onTimeout(r) PROVE TypeInv'
  <2> DEFINE t == inUse[id[r]]
  <2>1. t # NoReq => t \in Requests
    BY Zenon DEF Owner
  <2>2. tx' \in [Requests -> TxSet]
    <3>1. ASSUME t # NoReq, tx[t].retries > 0
          PROVE  [tx[t] EXCEPT !.retries = @ - 1] \in TxSet
      BY Zenon, <2>1, <3>1, TxTypes
    <3> QED BY Zenon, <1>14, <2>1, <3>1 DEF onTimeout
  <2>3. /\ fin' \in [Agents -> FinSet]
        /\ \E l \in {"lost", "wait", "resend", "finishing"} :
             pc' = [pc EXCEPT ![r] = l]
    BY Zenon, <1>14, EndWithType, LocalTypes DEF onTimeout, Goto, LocalKinds
  <2> QED
    BY Zenon, <1>14, <2>2, <2>3 DEF onTimeout, PCs
<1>15. ASSUME NEW r \in Requests, TakeResult(r) \/ Deferred(r) PROVE TypeInv'
  <2>1. tx' \in [Requests -> TxSet]
    <3>1. CASE TakeResult(r)
      BY Zenon, <3>1, TxTypes DEF TakeResult
    <3>2. CASE Deferred(r)
      BY Zenon, <3>2, TxTypes DEF Deferred
    <3> QED BY Zenon, <1>15, <3>1, <3>2
  <2> QED
    BY Zenon, <1>15, <2>1 DEF TakeResult, Deferred, Return, Goto, PCs
<1>17. ASSUME NEW a \in Agents, complete(a) PROVE TypeInv'
  <2>1. fin[a].id \in IDs
    BY Zenon DEF FinSet
  <2>2. fin' \in [Agents -> FinSet]
    BY Zenon, <1>17, <2>1, FinTypes DEF complete
  <2> QED
    BY Zenon, <1>17, <2>1, <2>2 DEF complete, Owner
<1>18. ASSUME NEW r \in Requests, CallerPublishes(r) PROVE TypeInv'
  <2>1. Caller(r) \in Agents
    BY Zenon DEF Agents
  <2>2. \/ pc' = [pc EXCEPT ![r] = "lost"]
        \/ pc' = [pc EXCEPT ![r] = "deferred"]
    BY Zenon, <1>18 DEF CallerPublishes, Goto, Return
  <2>3. UNCHANGED <<id, mgrVars, rx, closer>>
    BY Zenon, <1>18 DEF CallerPublishes, Publish
  <2> QED
    BY Zenon, <1>18, <2>1, <2>2, <2>3, PublishType DEF CallerPublishes, PCs
<1>19. ASSUME NEW a \in Agents, OtherPublishes(a) PROVE TypeInv'
  <2>1. UNCHANGED <<pc, id, mgrVars, rx, closer>>
    BY Zenon, <1>19 DEF OtherPublishes, Publish
  <2> QED
    BY Zenon, <1>19, <2>1, PublishType DEF OtherPublishes
<1>21. ASSUME NEW q \in Requests, RxAnswer(q) PROVE TypeInv'
  <2>1. fin' \in [Agents -> FinSet]
    BY ZenonT(30), <1>21, FinishType, PeerTypes DEF RxAnswer, RxFinish, Owner
  <2> QED
    BY Zenon, <1>21, <2>1 DEF RxAnswer
<1>22. ASSUME NEW q \in Requests, RxSegment(q) PROVE TypeInv'
  <2>1. fin' \in [Agents -> FinSet]
    BY Zenon, <1>22, FinishType, LocalTypes DEF RxSegment, RxFinish, LocalKinds
  <2>2. \/ \E k \in SegmentKinds : rx' = [kind |-> k, id |-> id[q], from |-> q]
        \/ UNCHANGED rx
    BY ZenonT(30), <1>22 DEF RxSegment
  <2>3. rx' \in [kind : SegmentKinds \cup {"none"}, id : IDs, from : Owner]
    BY <2>2 DEF Owner
  <2>4. UNCHANGED <<pc, id, tx, mgrVars, closer>>
    BY ZenonT(30), <1>22 DEF RxSegment, callerVars
  <2> QED
    BY Zenon, <2>1, <2>3, <2>4
<1>23. ASSUME NEW q \in Requests, RxSegmentACK(q) PROVE TypeInv'
  BY Zenon, <1>23 DEF RxSegmentACK
<1>24. rx.id \in IDs /\ RxIdle \in [kind : SegmentKinds \cup {"none"}, id : IDs,
                                    from : Owner]
  BY DEF RxIdle, IDs, Owner
<1>26. CASE AcceptFirst
  <2>1. tx' \in [Requests -> TxSet]
    <3> DEFINE t == inUse[rx.id]
    <3>1. ASSUME t # NoReq
          PROVE  t \in Requests /\ [tx[t] EXCEPT !.phase = "receiving",
                                      !.retries = 0, !.timer = Off] \in TxSet
      BY Zenon, <1>24, <3>1, TxTypes DEF Owner
    <3> QED BY ZenonT(30), <1>26, <3>1 DEF AcceptFirst
  <2> QED
    BY Zenon, <1>24, <1>26, <2>1 DEF AcceptFirst
<1>27. CASE AcceptNoFirst \/ AcceptOverLimit
  <2>1. fin' \in [Agents -> FinSet]
    BY ZenonT(30), <1>24, <1>27, FinishType, PlainType
    DEF AcceptNoFirst, AcceptOverLimit, RxFinish, LocalKinds
  <2> QED
    BY Zenon, <1>24, <1>27, <2>1 DEF AcceptNoFirst, AcceptOverLimit
<1>28. CASE AcceptOutOfOrder \/ AcceptMore
  BY Zenon, <1>24, <1>28 DEF AcceptOutOfOrder, AcceptMore
<1>31. CASE AcceptLast
  <2>1. fin' \in [Agents -> FinSet]
    BY ZenonT(30), <1>24, <1>31, FinishType, PeerTypes DEF AcceptLast, RxFinish
  <2> QED
    BY Zenon, <1>24, <1>31, <2>1 DEF AcceptLast
<1>32. ASSUME NEW i \in IDs, watchTimeout(i) PROVE TypeInv'
  <2>1. fin' \in [Agents -> FinSet]
    BY Zenon, <1>32, FinishType, PlainType DEF watchTimeout, LocalKinds
  <2> QED
    BY Zenon, <1>32, <2>1 DEF watchTimeout
<1>33. CASE Close \/ abortAll \/ CloseTransport
  BY <1>33 DEF Close, abortAll, CloseTransport, Owner
<1>35. ASSUME NEW r \in Requests, AbortPublish(r) PROVE TypeInv'
  <2>1. Published(tx[r], maybeUnknown(r, "closed")) \in TxSet
    BY Zenon, TxTypes, LocalTypes DEF LocalKinds
  <2> QED
    BY Zenon, <1>35, <2>1 DEF AbortPublish
<1>37. CASE Tick
  <2>1. \A d \in Nat : \A n \in Timer(d) : Less(n) \in Timer(d)
    BY DEF Less, Timer, Off
  <2>2. \A u \in TxSet : [u EXCEPT !.timer = Less(u.timer)] \in TxSet
    BY Zenon, <2>1 DEF TxSet
  <2> QED
    BY Zenon, <1>37, <2>2 DEF Tick
<1>38. CASE UNCHANGED vars
  BY Zenon, <1>38
<1>39. CASE Terminated
  BY Zenon, <1>39, <1>38 DEF Terminated
<1> QED
  BY Zenon, <1>1, <1>2, <1>3, <1>4, <1>5, <1>6, <1>7, <1>8, <1>9, <1>11, <1>13,
     <1>14, <1>15, <1>17, <1>18, <1>19, <1>21, <1>22, <1>23, <1>26, <1>27, <1>28,
     <1>31, <1>32, <1>33, <1>35, <1>37, <1>38, <1>39
  DEF Next, CallerStep, RxStep, PeerStep, CloseStep, InternalStep

\* The state the manager's guarantees rest on (callers' positions and invoke
\* IDs, transactions, allocation, finishTx, the receive loop and Close) keeps
\* its types, for every number of requests and invoke IDs and every timeout.
THEOREM TypeCorrect == Spec => []TypeInv
BY InitType, StepType, PTL DEF Spec

(***************************************************************************)
(* A transaction's result is published exactly once, a caller waiting for it*)
(* never waits in vain, and no invoke ID has two owners, whatever the      *)
(* interleaving of callers, receive loop, watchdogs and Close.             *)
(***************************************************************************)
\* Changes to a transaction that leave its result alone.
LEMMA ResultKept ==
  ASSUME NEW t \in TxSet, NEW ph, NEW d
  PROVE  /\ [t EXCEPT !.sent = TRUE].result = t.result
         /\ [t EXCEPT !.timer = d].result = t.result
         /\ [t EXCEPT !.retries = @ - 1].result = t.result
         /\ [t EXCEPT !.phase = ph, !.retries = 0, !.timer = d].result = t.result
         /\ [t EXCEPT !.phase = ph, !.timer = d].result = t.result
<1>1. t = [phase |-> t.phase, retries |-> t.retries, timer |-> t.timer,
           sent |-> t.sent, result |-> t.result]
  BY Zenon DEF TxSet
<1>2. /\ [t EXCEPT !.sent = TRUE].result = t.result
      /\ [t EXCEPT !.timer = d].result = t.result
      /\ [t EXCEPT !.retries = @ - 1].result = t.result
  BY Zenon DEF TxSet
<1>3. /\ [t EXCEPT !.phase = ph, !.retries = 0, !.timer = d].result = t.result
      /\ [t EXCEPT !.phase = ph, !.timer = d].result = t.result
  BY Zenon, <1>1
<1> QED BY Zenon, <1>2, <1>3

\* The receive loop.
LEMMA RxOnce ==
  ASSUME TypeInv, OnceInv, RxStep \/ \E q \in Requests : PeerStep(q)
  PROVE  OnceInv'
<1> DEFINE Same == \A q \in Requests : tx'[q].result = tx[q].result
<1>1. /\ RxLoop \in Agents /\ \A r : RxLoop # Caller(r)
      /\ NotFinishing.step = "none"
      /\ tx \in [Requests -> TxSet] /\ rx.id \in IDs
      /\ RxIdle.kind = "none"
      /\ rx # RxIdle => fin[RxLoop] = NotFinishing
  BY Zenon, AgentFacts DEF TypeInv, NotFinishing, RxIdle, OnceInv, Finishers
<1>2. ASSUME NEW q \in Requests, RxAnswer(q) PROVE OnceInv'
  <2>1. FromPeer("ack", q) \in ResultSet /\ FromPeer("refusal", q) \in ResultSet
    BY Zenon, PeerTypes DEF Owner
  <2>2. PICK res \in ResultSet :
          fin' = [fin EXCEPT ![RxLoop] = Finish(id[q], res, ApduTimeout)]
    BY Zenon, <1>2, <2>1 DEF RxAnswer, RxFinish
  <2>3. /\ fin[RxLoop].step = "none" /\ rx' = RxIdle
        /\ UNCHANGED <<pc, id, inUse, reserved, closer>> /\ Same
    BY ZenonT(30), <1>1, <1>2 DEF RxAnswer, RxFree, callerVars, mgrVars
  <2> HIDE DEF Same
  <2>4. \A r : RxLoop # Caller(r)
    BY Zenon, <1>1
  <2> QED BY Zenon, <2>2, <2>3, <2>4, AgentEnters DEF Same
<1>3. ASSUME NEW q \in Requests, RxSegment(q) PROVE OnceInv'
  <2>1. Plain("protocol") \in ResultSet
    BY Zenon, PlainType DEF LocalKinds
  <2>2. CASE UNCHANGED fin
    BY Zenon, <1>1, <1>3, <2>2, NothingTaken DEF RxSegment, RxFree, callerVars, mgrVars
  <2>3. CASE RxFinish(id[q], Plain("protocol")) /\ UNCHANGED rx
    BY Zenon, <1>1, <1>3, <2>1, <2>3, AgentEnters
    DEF RxSegment, RxFree, RxFinish, callerVars, mgrVars
  <2> QED BY Zenon, <1>3, <2>2, <2>3 DEF RxSegment
<1>4. ASSUME NEW q \in Requests, RxSegmentACK(q) PROVE OnceInv'
  BY Zenon, <1>1, <1>4, NothingTaken DEF RxSegmentACK, callerVars, mgrVars
<1>5. CASE AcceptFirst
  <2>1. Same
    <3> DEFINE t == inUse[rx.id]
    <3>1. CASE t = NoReq
      BY Zenon, <1>5, <3>1 DEF AcceptFirst
    <3>2. CASE t # NoReq
      <4>1. t \in Requests
        BY Zenon, <1>1, <3>2, OwnerFacts
      <4>2. [tx[t] EXCEPT !.phase = "receiving", !.retries = 0, !.timer = Off].result
              = tx[t].result
        BY <1>1, <4>1, ResultKept
      <4>3. tx' = [tx EXCEPT ![t] = [tx[t] EXCEPT !.phase = "receiving",
                                       !.retries = 0, !.timer = Off]]
        BY Zenon, <1>5, <3>2 DEF AcceptFirst
      <4> QED BY Zenon, <1>1, <4>1, <4>2, <4>3
    <3> QED BY Zenon, <3>1, <3>2
  <2> QED BY Zenon, <1>5, <2>1, NothingTaken DEF AcceptFirst, callerVars, mgrVars
<1>6. CASE AcceptNoFirst \/ AcceptOverLimit
  <2>1. Plain("protocol") \in ResultSet /\ Plain("segAbort") \in ResultSet
    BY Zenon, PlainType DEF LocalKinds
  <2>2. fin[RxLoop].step = "none"
    BY Zenon, <1>1, <1>6 DEF AcceptNoFirst, AcceptOverLimit
  <2> QED BY <1>1, <1>6, <2>1, <2>2, AgentEnters
          DEF AcceptNoFirst, AcceptOverLimit, RxFinish, callerVars, mgrVars
<1>7. CASE AcceptOutOfOrder \/ AcceptMore
  BY Zenon, <1>7, NothingTaken DEF AcceptOutOfOrder, AcceptMore, callerVars, mgrVars
<1>8. CASE AcceptLast
  <2>1. FromPeer("ack", rx.from) \in ResultSet
    BY Zenon, PeerTypes DEF TypeInv
  <2>2. fin[RxLoop].step = "none"
    BY Zenon, <1>1, <1>8 DEF AcceptLast
  <2>3. CASE UNCHANGED fin
    BY Zenon, <1>8, <2>3, NothingTaken DEF AcceptLast, callerVars, mgrVars
  <2>4. CASE RxFinish(rx.id, FromPeer("ack", rx.from))
    BY Zenon, <1>1, <1>8, <2>1, <2>2, <2>4, AgentEnters
    DEF AcceptLast, RxFinish, callerVars, mgrVars
  <2> QED BY Zenon, <1>8, <2>3, <2>4 DEF AcceptLast
<1> QED BY Zenon, <1>2, <1>3, <1>4, <1>5, <1>6, <1>7, <1>8 DEF RxStep, PeerStep

\* complete: the right to publish moves to the goroutine that removed the
\* transaction.
LEMMA CompleteOnce ==
  ASSUME TypeInv, OnceInv, NEW a \in Agents, complete(a)
  PROVE  OnceInv'
<1> DEFINE i == fin[a].id
           t == inUse[i]
<1>1. i \in IDs /\ t \in Owner
  BY Zenon DEF FinSet, TypeInv
<1>2. /\ fin[a].step = "lock"
      /\ fin' = [fin EXCEPT ![a] = [@ EXCEPT !.step = "publish", !.tx = t]]
      /\ inUse' = [inUse EXCEPT ![i] = NoReq]
      /\ UNCHANGED <<pc, id, tx, reserved, closer, rx>>
  BY Zenon DEF complete, callerVars
<1>3. /\ fin'[a].step = "publish" /\ fin'[a].tx = t
      /\ fin'[a].id = i /\ fin'[a].res = fin[a].res
      /\ \A b \in Agents : b # a => fin'[b] = fin[b]
  <2>1. fin[a] \in FinSet
    BY Zenon DEF TypeInv
  <2> QED BY Zenon, <1>2, <2>1 DEF FinSet, TypeInv
<1> HIDE DEF i, t
<1>4. \A q \in Requests :
        /\ Registered(q)' <=> Registered(q)
        /\ inUse'[id[q]] = q <=> (inUse[id[q]] = q /\ id[q] # i)
        /\ q # t => \A b \in Agents : Takes(b, q)' <=> Takes(b, q)
  BY Zenon, <1>1, <1>2, <1>3, RequestsAssumption DEF Registered, Takes, t, i, TypeInv
<1>5. ASSUME t # NoReq
      PROVE  /\ t \in Requests /\ id[t] = i /\ Registered(t) /\ inUse[id[t]] = t
             /\ tx[t].result = NoResult /\ t \notin closer.pending
             /\ \A b \in Agents : ~Takes(b, t)
             /\ \A q \in Requests, b \in Agents : q = t /\ Takes(b, q)' => b = a
  <2>1. t \in Requests /\ id[t] = i /\ Registered(t) /\ inUse[id[t]] = t
    BY Zenon, <1>1, <1>5 DEF OnceInv, InUseIsOwn, Owner, t
  <2>2. \A b \in Agents : ~Takes(b, t)
    BY Zenon, <2>1 DEF OnceInv, TakenIsGone
  <2>3. tx[t].result = NoResult /\ t \notin closer.pending
    BY Zenon, <2>1 DEF OnceInv, PendingIsGone, ResultIsLast
  <2>4. ASSUME NEW q \in Requests, q = t, NEW b \in Agents, b # a
        PROVE  ~Takes(b, q)'
    BY Zenon, <1>3, <2>2, <2>4 DEF Takes
  <2> QED BY Zenon, <2>1, <2>2, <2>3, <2>4
<1>6. \A q \in Requests : Alive(q) => Alive(q)'
  <2>1. ASSUME NEW q \in Requests, q = t PROVE Alive(q)'
    BY Zenon, <1>3, <2>1 DEF Alive, Owed
  <2>2. ASSUME NEW q \in Requests, q # t, Alive(q) PROVE Alive(q)'
    <3>1. inUse[id[q]] = q => id[q] # i
      BY Zenon, <2>2 DEF t
    <3>2. Owed(q) => Owed(q)'
      BY <1>2, <1>4, <2>2 DEF Owed, Takes
    <3>3. inUse[id[q]] = q => inUse'[id'[q]] = q
      BY Zenon, <1>2, <1>4, <3>1
    <3> QED BY Zenon, <1>2, <2>2, <3>2, <3>3 DEF Alive
  <2> QED BY Zenon, <2>1, <2>2
<1>7. IDsExclusive'
  BY <1>1, <1>2 DEF OnceInv, IDsExclusive
<1>8. InUseIsOwn'
  BY SMTT(30), <1>1, <1>2, <1>4, OwnerFacts DEF OnceInv, InUseIsOwn
<1>9. TakenIsGone'
  <2>1. ASSUME NEW q \in Requests, q = t, NEW b \in Agents, Takes(b, q)'
        PROVE  /\ Registered(q)' /\ inUse'[id'[q]] # q /\ tx'[q].result = NoResult
               /\ q \notin closer'.pending
               /\ \A c \in Agents : Takes(c, q)' => b = c
    BY Zenon, <1>2, <1>4, <1>5, <2>1, RequestsAssumption
  <2>2. ASSUME NEW q \in Requests, q # t, NEW b \in Agents, Takes(b, q)'
        PROVE  /\ Registered(q)' /\ inUse'[id'[q]] # q /\ tx'[q].result = NoResult
               /\ q \notin closer'.pending
               /\ \A c \in Agents : Takes(c, q)' => b = c
    <3>1. Takes(b, q) /\ \A c \in Agents : Takes(c, q)' => Takes(c, q)
      BY Zenon, <1>4, <2>2
    <3>2. /\ Registered(q) /\ inUse[id[q]] # q /\ tx[q].result = NoResult
          /\ q \notin closer.pending
          /\ \A c \in Agents : Takes(c, q) => b = c
      BY Zenon, <2>2, <3>1 DEF OnceInv, TakenIsGone
    <3> QED BY Zenon, <1>2, <1>4, <3>1, <3>2
  <2> QED BY Zenon, <2>1, <2>2 DEF TakenIsGone
<1>10. PendingIsGone'
  BY Zenon, <1>2, <1>4 DEF OnceInv, PendingIsGone, TypeInv
<1>11. ResultIsLast'
  BY Zenon, <1>2, <1>4 DEF OnceInv, ResultIsLast
<1>12. Finishers'
  <2>1. \A b \in Agents : /\ fin'[b].step # "none" <=> fin[b].step # "none"
                          /\ fin'[b].id = fin[b].id /\ fin'[b].res = fin[b].res
    BY Zenon, <1>2, <1>3 DEF i
  <2>2. fin[RxLoop] = NotFinishing => a # RxLoop
    BY SMTT(30), <1>2 DEF NotFinishing
  <2> QED BY Zenon, <1>2, <1>3, <2>1, <2>2, AgentFacts DEF OnceInv, Finishers
<1>13. Accounted'
  <2>1. \A q \in Requests : Caller(q) # a => fin'[Caller(q)] = fin[Caller(q)]
    BY Zenon, <1>3, AgentFacts
  <2>2. ASSUME NEW q \in Requests, Caller(q) = a
        PROVE  /\ pc[q] = "finishing" /\ Alive(q)' /\ fin'[a].step # "lock"
               /\ inUse'[id[q]] # q
    <3>1. pc[q] = "finishing" /\ fin[Caller(q)].id = id[q] /\ Alive(q)
      BY Zenon, <1>2, <2>2 DEF OnceInv, Finishers, Accounted
    <3> QED BY Zenon, <1>3, <1>4, <1>6, <2>2, <3>1 DEF i
  <2>3. \A q \in Requests : inUse'[id[q]] = q => inUse[id[q]] = q
    BY Zenon, <1>4
  <2>4. ASSUME NEW q \in Requests
        PROVE  /\ pc'[q] \in LivePCs => Alive(q)'
               /\ pc'[q] = "lost" => Alive(q)' /\ inUse'[id'[q]] # q
               /\ pc'[q] = "finishing" /\ fin'[Caller(q)].step = "lock" => Alive(q)'
               /\ /\ pc'[q] = "finishing" /\ fin'[Caller(q)].step = "publish"
                  /\ fin'[Caller(q)].tx = NoReq
                  => Alive(q)' /\ inUse'[id'[q]] # q
    BY Zenon, <1>2, <1>6, <2>1, <2>2, <2>3 DEF OnceInv, Accounted, LivePCs
  <2> QED BY Zenon, <2>4 DEF Accounted
<1> QED BY Zenon, <1>7, <1>8, <1>9, <1>10, <1>11, <1>12, <1>13 DEF OnceInv

\* What publishing does to the transaction it is for.
LEMMA PublishedFacts ==
  ASSUME NEW t \in TxSet, NEW res
  PROVE  Published(t, res).result = IF t.result = NoResult THEN res ELSE t.result
BY Zenon DEF Published, TxSet

\* CallerPublishes and OtherPublishes.
LEMMA PublishOnce ==
  ASSUME TypeInv, OnceInv, NEW a \in Agents, Publish(a),
         \/ \E r \in Requests : a = Caller(r) /\ CallerPublishes(r)
         \/ OtherPublishes(a)
  PROVE  OnceInv'
<1> DEFINE t == fin[a].tx
<1>1. t \in Owner /\ fin[a].res # NoResult /\ fin[a].step = "publish"
  BY Zenon DEF OnceInv, Finishers, Publish, FinSet, TypeInv
<1>2. /\ fin' = [fin EXCEPT ![a] = NotFinishing]
      /\ UNCHANGED <<id, inUse, reserved, rx, closer>>
  BY Zenon DEF Publish, mgrVars
<1>3. /\ fin'[a] = NotFinishing /\ fin'[a].step = "none"
      /\ \A b \in Agents : b # a => fin'[b] = fin[b]
  BY Zenon, <1>2 DEF NotFinishing, TypeInv
<1>4. \A q \in Requests : q # t => tx'[q] = tx[q]
  BY Zenon, <1>1 DEF Publish, Owner, TypeInv
<1>5. ASSUME t # NoReq
      PROVE  /\ t \in Requests /\ Takes(a, t) /\ tx'[t].result = fin[a].res
             /\ Registered(t) /\ inUse[id[t]] # t /\ t \notin closer.pending
             /\ \A b \in Agents : Takes(b, t) => b = a
  <2>1. t \in Requests /\ Takes(a, t)
    BY Zenon, <1>1, <1>5 DEF Owner, Takes
  <2>2. /\ Registered(t) /\ inUse[id[t]] # t /\ tx[t].result = NoResult
        /\ t \notin closer.pending /\ \A b \in Agents : Takes(b, t) => a = b
    <3>1. TakenIsGone
      BY Zenon DEF OnceInv
    <3> HIDE DEF t
    <3> QED BY Zenon, <2>1, <3>1, Taken
  <2>3. tx' = [tx EXCEPT ![t] = Published(tx[t], fin[a].res)]
    BY Zenon, <1>5 DEF Publish
  <2>4. tx'[t].result = fin[a].res
    BY Zenon, <2>1, <2>2, <2>3, PublishedFacts DEF TypeInv
  <2> QED BY Zenon, <2>1, <2>2, <2>4
<1> HIDE DEF t
<1>6. /\ \A q \in Requests : Caller(q) # a => pc'[q] = pc[q]
      /\ \A q \in Requests : Caller(q) = a =>
           /\ pc[q] = "finishing"
           /\ t = NoReq => pc'[q] = "lost"
           /\ t # NoReq => pc'[q] = "deferred"
  <2>1. CASE OtherPublishes(a)
    <3>1. \A q : a # Caller(q)
      BY <2>1 DEF OtherPublishes, Caller
    <3> QED BY Zenon, <2>1, <3>1 DEF OtherPublishes
  <2>2. ASSUME NEW r \in Requests, a = Caller(r), CallerPublishes(r)
        PROVE  /\ \A q \in Requests : Caller(q) # a => pc'[q] = pc[q]
               /\ \A q \in Requests : Caller(q) = a =>
                    /\ pc[q] = "finishing"
                    /\ t = NoReq => pc'[q] = "lost"
                    /\ t # NoReq => pc'[q] = "deferred"
    <3>1. \A q \in Requests : Caller(q) = a => q = r
      BY Zenon, <2>2, AgentFacts
    <3>2. pc[r] = "finishing"
      BY Zenon, <1>1, <2>2 DEF OnceInv, Finishers
    <3>3. /\ t = NoReq => pc' = [pc EXCEPT ![r] = "lost"]
          /\ t # NoReq => pc' = [pc EXCEPT ![r] = "deferred"]
      BY Zenon, <2>2 DEF CallerPublishes, Goto, Return, t
    <3> QED BY Zenon, <2>2, <3>1, <3>2, <3>3 DEF TypeInv
  <2> QED BY Zenon, <2>1, <2>2
<1>7. \A q \in Requests : Registered(q)' <=> Registered(q)
  BY Zenon, <1>6 DEF Registered
<1>8. /\ \A b \in Agents, q \in Requests : Takes(b, q)' => Takes(b, q) /\ b # a
      /\ \A b \in Agents, q \in Requests : Takes(b, q) /\ b # a => Takes(b, q)'
  BY Zenon, <1>3 DEF Takes
<1>9. \A q \in Requests : Alive(q) => Alive(q)'
  <2>1. ASSUME NEW q \in Requests, q = t PROVE Alive(q)'
    BY ZenonT(30), <1>1, <1>5, <2>1, RequestsAssumption DEF Alive
  <2>2. ASSUME NEW q \in Requests, q # t, Alive(q) PROVE Alive(q)'
    <3>1. \A b \in Agents : Takes(b, q) => b # a
      BY Zenon, <2>2 DEF Takes, t
    <3>2. Owed(q) => Owed(q)'
      BY Zenon, <1>2, <1>8, <3>1 DEF Owed, Takes
    <3> QED BY Zenon, <1>2, <1>4, <2>2, <3>2 DEF Alive
  <2> QED BY Zenon, <2>1, <2>2
<1>10. IDsExclusive'
  <2>1. \A q \in Requests : pc'[q] = "reserved" => pc[q] = "reserved"
    BY Zenon, <1>6
  <2> QED BY Zenon, <1>2, <2>1 DEF OnceInv, IDsExclusive
<1>11. InUseIsOwn'
  BY Zenon, <1>2, <1>7, OwnerFacts DEF OnceInv, InUseIsOwn
<1>12. TakenIsGone'
  <2> SUFFICES ASSUME NEW q \in Requests, NEW b \in Agents, Takes(b, q)'
               PROVE  /\ Registered(q)' /\ inUse'[id'[q]] # q
                      /\ tx'[q].result = NoResult /\ q \notin closer'.pending
                      /\ \A c \in Agents : Takes(c, q)' => b = c
      BY Zenon DEF TakenIsGone
  <2>1. Takes(b, q) /\ b # a /\ \A c \in Agents : Takes(c, q)' => Takes(c, q)
    BY Zenon, <1>8
  <2>2. /\ Registered(q) /\ inUse[id[q]] # q /\ tx[q].result = NoResult
        /\ q \notin closer.pending /\ \A c \in Agents : Takes(c, q) => b = c
    BY Zenon, <2>1 DEF OnceInv, TakenIsGone
  <2>3. q # t
    <3> SUFFICES ASSUME q = t PROVE FALSE
        BY Zenon
    <3>1. t # NoReq
      BY Zenon, RequestsAssumption
    <3>2. \A c \in Agents : Takes(c, t) => c = a
      BY Zenon, <1>5, <3>1
    <3> QED BY Zenon, <2>1, <3>2
  <2> QED BY Zenon, <1>2, <1>4, <1>7, <2>1, <2>2, <2>3
<1>13. PendingIsGone'
  BY ZenonT(30), <1>2, <1>4, <1>5, <1>7, RequestsAssumption DEF OnceInv, PendingIsGone, TypeInv
<1>14. ResultIsLast'
  BY ZenonT(30), <1>2, <1>4, <1>5, <1>7, RequestsAssumption DEF OnceInv, ResultIsLast
<1>15. Finishers'
  <2>1. \A b \in Agents : fin'[b].step # "none" => fin'[b].res # NoResult
    BY ZenonT(30), <1>3 DEF OnceInv, Finishers
  <2>2. rx' # RxIdle => fin'[RxLoop] = NotFinishing
    BY Zenon, <1>2, <1>3, AgentFacts DEF OnceInv, Finishers
  <2>3. ASSUME NEW q \in Requests
        PROVE  /\ pc'[q] = "finishing" <=> fin'[Caller(q)].step # "none"
               /\ pc'[q] = "finishing" => fin'[Caller(q)].id = id'[q]
    <3>1. CASE Caller(q) = a
      BY Zenon, <1>3, <1>6, <3>1
    <3>2. CASE Caller(q) # a
      <4>1. fin'[Caller(q)] = fin[Caller(q)] /\ pc'[q] = pc[q] /\ id'[q] = id[q]
        BY Zenon, <1>2, <1>3, <1>6, <3>2, AgentFacts
      <4>2. Finishers
        BY Zenon DEF OnceInv
      <4> QED BY ZenonT(30), <4>1, <4>2 DEF Finishers
    <3> QED BY Zenon, <3>1, <3>2
  <2> QED BY ZenonT(30), <2>1, <2>2, <2>3 DEF Finishers
<1>16. Accounted'
  <2> SUFFICES ASSUME NEW q \in Requests
        PROVE  /\ pc'[q] \in LivePCs => Alive(q)'
               /\ pc'[q] = "lost" => Alive(q)' /\ inUse'[id'[q]] # q
               /\ pc'[q] = "finishing" /\ fin'[Caller(q)].step = "lock" => Alive(q)'
               /\ /\ pc'[q] = "finishing" /\ fin'[Caller(q)].step = "publish"
                  /\ fin'[Caller(q)].tx = NoReq
                  => Alive(q)' /\ inUse'[id'[q]] # q
      BY Zenon DEF Accounted
  <2>1. CASE Caller(q) # a
    BY ZenonT(30), <1>2, <1>3, <1>6, <1>9, <2>1, AgentFacts DEF OnceInv, Accounted
  <2>2. CASE Caller(q) = a
    <3>1. pc'[q] = "lost" => Alive(q) /\ inUse[id[q]] # q
      BY Zenon, <1>1, <1>6, <2>2 DEF OnceInv, Accounted, t
    <3>2. pc'[q] \in {"lost", "deferred"}
      BY Zenon, <1>6, <2>2
    <3> QED BY Zenon, <1>2, <1>9, <3>1, <3>2 DEF LivePCs
  <2> QED BY ZenonT(30), <2>1, <2>2
<1> QED BY Zenon, <1>10, <1>11, <1>12, <1>13, <1>14, <1>15, <1>16 DEF OnceInv

\* abortAll: every right to publish moves to Close.
LEMMA AbortAllOnce ==
  ASSUME TypeInv, OnceInv, closer.pending = {}, abortAll
  PROVE  OnceInv'
<1>1. /\ closer'.pending = {inUse[i] : i \in IDs} \ {NoReq}
      /\ inUse' = [i \in IDs |-> NoReq]
      /\ UNCHANGED <<pc, id, tx, reserved, fin, rx>>
  BY Zenon DEF abortAll, callerVars
<1>2. \A q \in Requests : inUse'[id'[q]] # q
  BY Zenon, <1>1, RequestsAssumption DEF TypeInv
<1>3. ASSUME NEW q \in Requests, q \in closer'.pending
      PROVE  inUse[id[q]] = q /\ Registered(q)
  <2>1. PICK i \in IDs : q = inUse[i]
    BY Zenon, <1>1, <1>3
  <2> QED BY Zenon, <2>1, RequestsAssumption DEF OnceInv, InUseIsOwn
<1>4. \A q \in Requests : inUse[id[q]] = q => q \in closer'.pending
  <2> SUFFICES ASSUME NEW q \in Requests, inUse[id[q]] = q
               PROVE  q \in closer'.pending
      BY Zenon
  <2>1. id[q] \in IDs /\ q # NoReq
    BY Zenon, RequestsAssumption DEF TypeInv
  <2> QED BY Zenon, <1>1, <2>1
<1>5. \A q \in Requests : Registered(q)' <=> Registered(q)
  BY Zenon, <1>1 DEF Registered
<1>6. \A a \in Agents, q \in Requests : Takes(a, q)' <=> Takes(a, q)
  BY Zenon, <1>1 DEF Takes
<1>7. \A q \in Requests : Alive(q) => Alive(q)'
  <2> SUFFICES ASSUME NEW q \in Requests, Alive(q) PROVE Alive(q)'
      BY Zenon
  <2>1. CASE inUse[id[q]] = q
    BY Zenon, <1>4, <2>1 DEF Alive, Owed
  <2>2. CASE tx[q].result # NoResult
    BY Zenon, <1>1, <2>2 DEF Alive
  <2>3. CASE Owed(q)
    BY Zenon, <1>1, <2>3 DEF Alive, Owed
  <2> QED BY Zenon, <2>1, <2>2, <2>3 DEF Alive
<1>8. IDsExclusive'
  BY Zenon, <1>1 DEF OnceInv, IDsExclusive, TypeInv
<1>9. InUseIsOwn'
  BY Zenon, <1>1 DEF InUseIsOwn
<1>10. TakenIsGone'
  <2> SUFFICES ASSUME NEW q \in Requests, NEW b \in Agents, Takes(b, q)'
               PROVE  /\ Registered(q)' /\ inUse'[id'[q]] # q
                      /\ tx'[q].result = NoResult /\ q \notin closer'.pending
                      /\ \A c \in Agents : Takes(c, q)' => b = c
      BY Zenon DEF TakenIsGone
  <2>1. Takes(b, q) /\ \A c \in Agents : Takes(c, q)' => Takes(c, q)
    BY Zenon, <1>6
  <2>2. /\ Registered(q) /\ inUse[id[q]] # q /\ tx[q].result = NoResult
        /\ \A c \in Agents : Takes(c, q) => b = c
    BY Zenon, <2>1 DEF OnceInv, TakenIsGone
  <2> QED BY Zenon, <1>1, <1>2, <1>3, <1>5, <2>1, <2>2
<1>11. PendingIsGone'
  <2>1. closer'.pending \subseteq Requests
    BY <1>1 DEF Owner, TypeInv
  <2> QED BY Zenon, <1>1, <1>2, <1>3, <1>5, <2>1 DEF OnceInv, PendingIsGone, ResultIsLast, TypeInv
<1>12. ResultIsLast'
  BY Zenon, <1>1, <1>2, <1>5 DEF OnceInv, ResultIsLast, TypeInv
<1>13. Finishers'
  BY Zenon, <1>1 DEF OnceInv, Finishers
<1>14. Accounted'
  BY ZenonT(30), <1>1, <1>2, <1>7 DEF OnceInv, Accounted
<1> QED BY Zenon, <1>8, <1>9, <1>10, <1>11, <1>12, <1>13, <1>14 DEF OnceInv

\* abortAll publishes to one of the transactions it took.
LEMMA AbortPublishOnce ==
  ASSUME TypeInv, OnceInv, NEW r \in Requests, AbortPublish(r)
  PROVE  OnceInv'
<1>1. /\ r \in closer.pending /\ closer'.pending = closer.pending \ {r}
      /\ tx' = [tx EXCEPT ![r] = Published(@, maybeUnknown(r, "closed"))]
      /\ UNCHANGED <<pc, id, inUse, reserved, fin, rx>>
  BY SMTT(30) DEF AbortPublish, callerVars, mgrVars
<1>2. /\ Registered(r) /\ inUse[id[r]] # r /\ tx[r].result = NoResult
      /\ \A a \in Agents : ~Takes(a, r)
  BY Zenon, <1>1 DEF OnceInv, PendingIsGone, TakenIsGone
<1>3. tx'[r].result # NoResult
  <2>1. maybeUnknown(r, "closed") # NoResult
    BY Zenon, LocalTypes, ResultNotEmpty DEF LocalKinds
  <2> QED BY Zenon, <1>1, <1>2, <2>1, PublishedFacts DEF TypeInv
<1>4. \A q \in Requests : q # r => tx'[q] = tx[q]
  BY SMTT(30), <1>1
<1>5. \A q \in Requests : Registered(q)' <=> Registered(q)
  BY Zenon, <1>1 DEF Registered
<1>6. \A a \in Agents, q \in Requests : Takes(a, q)' <=> Takes(a, q)
  BY Zenon, <1>1 DEF Takes
<1>7. \A q \in Requests : Alive(q) => Alive(q)'
  BY Zenon, <1>1, <1>3, <1>4 DEF Alive, Owed
<1>8. IDsExclusive' /\ InUseIsOwn'
  BY Zenon, <1>1, <1>5, OwnerFacts DEF OnceInv, IDsExclusive, InUseIsOwn
<1>9. TakenIsGone'
  <2> SUFFICES ASSUME NEW q \in Requests, NEW b \in Agents, Takes(b, q)'
               PROVE  /\ Registered(q)' /\ inUse'[id'[q]] # q
                      /\ tx'[q].result = NoResult /\ q \notin closer'.pending
                      /\ \A c \in Agents : Takes(c, q)' => b = c
      BY Zenon DEF TakenIsGone
  <2>1. Takes(b, q) /\ q # r /\ \A c \in Agents : Takes(c, q)' => Takes(c, q)
    BY Zenon, <1>2, <1>6
  <2>2. /\ Registered(q) /\ inUse[id[q]] # q /\ tx[q].result = NoResult
        /\ q \notin closer.pending /\ \A c \in Agents : Takes(c, q) => b = c
    <3>1. TakenIsGone
      BY Zenon DEF OnceInv
    <3> QED BY Zenon, <2>1, <3>1, Taken
  <2> QED BY Zenon, <1>1, <1>4, <1>5, <2>1, <2>2
<1>10. PendingIsGone'
  BY Zenon, <1>1, <1>4, <1>5 DEF OnceInv, PendingIsGone, TypeInv
<1>11. ResultIsLast'
  BY Zenon, <1>1, <1>2, <1>4, <1>5 DEF OnceInv, ResultIsLast
<1>12. Finishers' /\ Accounted'
  BY Zenon, <1>1, <1>7 DEF OnceInv, Finishers, Accounted
<1> QED BY Zenon, <1>8, <1>9, <1>10, <1>11, <1>12 DEF OnceInv

\* abortAll starts from an empty set: closing happens once.
ClosesOnce == closer.step \in {"open", "closed"} => closer.pending = {}

\* Initially nobody has anything to publish.
LEMMA InitOnce == Init => OnceInv /\ ClosesOnce
<1> SUFFICES ASSUME Init PROVE OnceInv /\ ClosesOnce
    BY Zenon
<1>1. IDsExclusive /\ InUseIsOwn /\ PendingIsGone /\ ClosesOnce
  BY Zenon DEF Init, IDsExclusive, InUseIsOwn, PendingIsGone, ClosesOnce
<1>2. TakenIsGone /\ ResultIsLast
  BY Zenon DEF Init, TakenIsGone, Takes, ResultIsLast, NotFinishing, NoTx
<1>3. Finishers
  BY Zenon, AgentFacts DEF Init, Finishers, NotFinishing
<1>4. Accounted
  BY Zenon DEF Init, Accounted, LivePCs
<1> QED BY Zenon, <1>1, <1>2, <1>3, <1>4 DEF OnceInv

\* Nothing is pending before abortAll has run.
LEMMA StepClosesOnce == TypeInv /\ ClosesOnce /\ [Next]_vars => ClosesOnce'
<1> SUFFICES ASSUME TypeInv, ClosesOnce, [Next]_vars PROVE ClosesOnce'
    BY Zenon
<1> USE DEF ClosesOnce
<1>1. CASE Close \/ CloseStep
  BY <1>1 DEF Close, CloseStep, abortAll, AbortPublish, CloseTransport, TypeInv
<1>2. CASE UNCHANGED closer
  BY Zenon, <1>2
<1>3. Close \/ CloseStep \/ UNCHANGED closer
  BY Zenon DEF Next, CallerStep, RxStep, PeerStep, InternalStep, vars,
     Start, Refuse, AllocateGivesUp, SendGivesUp, Cancel, Allocate, AllocateFails,
     register, Send, SegmentsTooLarge, enterSendingSegments, SendWindow, AckProgress,
     enterAwaitingResponse, CloseSeen, TimerFires, onTimeout, Retransmit, TakeResult,
     Deferred, CallerPublishes, Publish, OtherPublishes, complete, RxAnswer,
     RxSegment, RxSegmentACK, AcceptFirst, AcceptNoFirst, AcceptOutOfOrder,
     AcceptOverLimit, AcceptMore, AcceptLast, watchTimeout, Tick, Terminated, TypeInv
<1> QED BY Zenon, <1>1, <1>2, <1>3

\* The caller's steps between register and return.
LEMMA CallerOnce ==
  ASSUME TypeInv, OnceInv, NEW r \in Requests,
         \/ Send(r) \/ SegmentsTooLarge(r) \/ enterSendingSegments(r)
         \/ SendWindow(r) \/ AckProgress(r) \/ SendGivesUp(r)
         \/ enterAwaitingResponse(r) \/ Cancel(r) \/ CloseSeen(r)
         \/ TimerFires(r) \/ onTimeout(r) \/ Retransmit(r)
  PROVE  OnceInv'
<1> DEFINE t == inUse[id[r]]
           Same == \A q \in Requests : tx'[q].result = tx[q].result
<1>1. /\ tx \in [Requests -> TxSet] /\ id[r] \in IDs
      /\ t # NoReq => t \in Requests
  BY Zenon, OwnerFacts DEF TypeInv
<1>2. CASE Send(r)
  <2>1. Same
    BY Zenon, <1>1, <1>2, ResultKept DEF Send
  <2> QED BY <1>2, <2>1, CallerMoves, CallerEnds, LocalTypes
          DEF Send, Goto, LivePCs, LocalKinds, mgrVars
<1>3. CASE SegmentsTooLarge(r)
  <2>1. Plain("tooLarge") \in ResultSet
    BY Zenon, PlainType DEF LocalKinds
  <2>2. /\ EndWith(r, Plain("tooLarge"), 0) /\ pc[r] \in LivePCs
        /\ UNCHANGED <<id, tx, inUse, reserved, closer, rx>>
    BY Zenon, <1>3 DEF SegmentsTooLarge, LivePCs, mgrVars
  <2> QED BY Zenon, <2>1, <2>2, CallerEnds
<1>4. CASE enterSendingSegments(r)
  <2>1. CASE t = NoReq
    BY <1>4, <2>1, CallerMoves, RequestsAssumption
    DEF enterSendingSegments, Goto, LivePCs, mgrVars
  <2>2. CASE t # NoReq
    <3>1. Same
      <4>1. [tx[t] EXCEPT !.phase = "sending", !.retries = 0, !.timer = Off].result
              = tx[t].result
        BY <1>1, <2>2, ResultKept
      <4>2. tx' = [tx EXCEPT ![t] = [tx[t] EXCEPT !.phase = "sending", !.retries = 0,
                                       !.timer = Off]]
        BY Zenon, <1>4, <2>2 DEF enterSendingSegments
      <4> QED BY Zenon, <1>1, <2>2, <4>1, <4>2
    <3> QED BY Zenon, <1>4, <2>2, <3>1, CallerMoves
            DEF enterSendingSegments, Goto, LivePCs, mgrVars
  <2> QED BY Zenon, <2>1, <2>2
<1>5. CASE SendWindow(r)
  <2>1. Same
    BY Zenon, <1>1, <1>5, ResultKept DEF SendWindow
  <2> QED BY <1>5, <2>1, CallerMoves, CallerEnds, LocalTypes
          DEF SendWindow, Goto, LivePCs, LocalKinds, mgrVars
<1>6. CASE AckProgress(r)
  BY ZenonT(30), <1>6, CallerMoves DEF AckProgress, Goto, LivePCs, mgrVars
<1>7. CASE SendGivesUp(r)
  <2>1. /\ Plain("protocol") \in ResultSet
        /\ \A k \in {"cancelled", "closed", "sendStalled", "timeout"} :
             wrapOutcomeUnknown(r, k) \in ResultSet
    BY Zenon, LocalTypes DEF LocalKinds
  <2>2. \E res \in ResultSet : EndWith(r, res, ApduTimeout)
    BY Zenon, <1>7, <2>1 DEF SendGivesUp
  <2>3. pc[r] \in LivePCs /\ UNCHANGED <<id, tx, inUse, reserved, closer, rx>>
    BY ZenonT(30), <1>7 DEF SendGivesUp, LivePCs, mgrVars
  <2> QED BY ZenonT(30), <2>2, <2>3, CallerEnds
<1>8. CASE enterAwaitingResponse(r)
  <2>1. CASE t = NoReq
    BY <1>8, <2>1, CallerMoves, RequestsAssumption
    DEF enterAwaitingResponse, Goto, LivePCs, mgrVars
  <2>2. CASE t # NoReq
    <3>1. Same
      <4>1. [tx[t] EXCEPT !.phase = "initial", !.timer = ApduTimeout].result
              = tx[t].result
        BY <1>1, <2>2, ResultKept
      <4>2. tx' = [tx EXCEPT ![t] = [tx[t] EXCEPT !.phase = "initial",
                                       !.timer = ApduTimeout]]
        BY Zenon, <1>8, <2>2 DEF enterAwaitingResponse
      <4> QED BY Zenon, <1>1, <2>2, <4>1, <4>2
    <3> QED BY Zenon, <1>8, <2>2, <3>1, CallerMoves
            DEF enterAwaitingResponse, Goto, LivePCs, mgrVars
  <2> QED BY ZenonT(30), <2>1, <2>2
<1>9. CASE Cancel(r) \/ CloseSeen(r)
  <2>1. maybeUnknown(r, "cancelled") \in ResultSet /\ maybeUnknown(r, "closed") \in ResultSet
    BY Zenon, LocalTypes DEF LocalKinds
  <2>2. \E res \in ResultSet : \E hold : EndWith(r, res, hold)
    BY Zenon, <1>9, <2>1 DEF Cancel, CloseSeen
  <2>3. pc[r] \in LivePCs /\ UNCHANGED <<id, tx, inUse, reserved, closer, rx>>
    BY Zenon, <1>9 DEF Cancel, CloseSeen, LivePCs, mgrVars
  <2> QED BY ZenonT(30), <2>2, <2>3, CallerEnds
<1>10. CASE TimerFires(r) \/ Retransmit(r)
  <2>1. Same
    <3>1. \E d : tx' = [tx EXCEPT ![r].timer = d]
      BY Zenon, <1>10 DEF TimerFires, Retransmit
    <3> QED BY <1>1, <3>1, ResultKept
  <2> QED BY Zenon, <1>10, <2>1, CallerMoves DEF TimerFires, Retransmit, Goto, LivePCs, mgrVars
<1>11. CASE onTimeout(r)
  <2>1. Same
    <3>1. t # NoReq => [tx[t] EXCEPT !.retries = @ - 1].result = tx[t].result
      BY Zenon, <1>1, ResultKept
    <3>2. \/ UNCHANGED tx
          \/ t # NoReq /\ tx' = [tx EXCEPT ![t].retries = @ - 1]
      BY Zenon, <1>11 DEF onTimeout
    <3> QED BY Zenon, <1>1, <3>1, <3>2
  <2>2. /\ pc[r] = "expired" /\ UNCHANGED <<id, inUse, reserved, closer, rx>>
        /\ \/ EndWith(r, maybeUnknown(r, "timeout"), ApduTimeout)
           \/ UNCHANGED fin /\ t # r /\ pc' = [pc EXCEPT ![r] = "lost"]
           \/ UNCHANGED fin /\ \E l \in {"wait", "resend"} : pc' = [pc EXCEPT ![r] = l]
    BY Zenon, <1>11, RequestsAssumption DEF onTimeout, Goto, mgrVars
  <2>3. maybeUnknown(r, "timeout") \in ResultSet
    BY Zenon, LocalTypes DEF LocalKinds
  <2>4. CASE EndWith(r, maybeUnknown(r, "timeout"), ApduTimeout)
    <3>1. pc[r] \in LivePCs
      BY Zenon, <2>2 DEF LivePCs
    <3> QED BY Zenon, <2>1, <2>2, <2>3, <2>4, <3>1, CallerEnds
  <2>5. CASE UNCHANGED fin /\ t # r /\ pc' = [pc EXCEPT ![r] = "lost"]
    <3>1. pc[r] \in LivePCs /\ inUse[id[r]] # r
      BY Zenon, <2>2, <2>5 DEF LivePCs
    <3> QED BY Zenon, <2>1, <2>2, <2>5, <3>1, CallerMoves
  <2>6. ASSUME NEW l \in {"wait", "resend"}, UNCHANGED fin, pc' = [pc EXCEPT ![r] = l]
        PROVE  OnceInv'
    <3>1. pc[r] \in LivePCs /\ l \in LivePCs
      BY Zenon, <2>2, <2>6 DEF LivePCs
    <3> QED BY Zenon, <2>1, <2>2, <2>6, <3>1, CallerMoves
  <2> QED BY Zenon, <2>2, <2>4, <2>5, <2>6
<1> QED BY Zenon, <1>2, <1>3, <1>4, <1>5, <1>6, <1>7, <1>8, <1>9, <1>10, <1>11

\* Every step preserves the invariant.
LEMMA StepOnce == TypeInv /\ OnceInv /\ ClosesOnce /\ [Next]_vars => OnceInv'
<1> SUFFICES ASSUME TypeInv, OnceInv, ClosesOnce, [Next]_vars PROVE OnceInv'
    BY Zenon
<1>1. ASSUME NEW r \in Requests,
             Start(r) \/ Refuse(r) \/ AllocateGivesUp(r) \/ AllocateFails(r)
      PROVE  OnceInv'
  BY Zenon, <1>1, NotYetRegistered
  DEF Start, Refuse, AllocateGivesUp, AllocateFails, Goto, mgrVars
<1>2. ASSUME NEW r \in Requests, CallerPublishes(r) PROVE OnceInv'
  <2>1. Caller(r) \in Agents /\ Publish(Caller(r))
    BY Zenon, <1>2, AgentFacts DEF CallerPublishes
  <2> QED BY Zenon, <1>2, <2>1, PublishOnce
<1>3. ASSUME NEW r \in Requests, CallerStep(r) PROVE OnceInv'
  BY Zenon, <1>1, <1>2, <1>3, AllocateOnce, RegisterOnce, CallerOnce, CallerReturns
  DEF CallerStep
<1>4. ASSUME NEW a \in Agents, OtherPublishes(a) PROVE OnceInv'
  BY Zenon, <1>4, PublishOnce DEF OtherPublishes
<1>5. ASSUME NEW i \in IDs, watchTimeout(i) PROVE OnceInv'
  <2> DEFINE a == Watcher(seg[i].tx)
  <2>1. /\ fin[a].step = "none" /\ a # RxLoop /\ \A r : a # Caller(r)
    BY <1>5, AgentFacts DEF watchTimeout, NotFinishing, TypeInv
  <2>2. Plain("segTimeout") \in ResultSet
    BY Zenon, PlainType DEF LocalKinds
  <2>3. /\ fin' = [fin EXCEPT ![a] = Finish(i, Plain("segTimeout"), ApduTimeout)]
        /\ UNCHANGED <<pc, id, tx, inUse, reserved, closer, rx>>
    BY Zenon, <1>5 DEF watchTimeout, callerVars, mgrVars
  <2> HIDE DEF a
  <2> QED BY Zenon, <2>1, <2>2, <2>3, AgentEnters
<1>6. CASE CloseStep
  <2>1. CASE abortAll
    BY ZenonT(30), <2>1, AbortAllOnce DEF ClosesOnce, abortAll
  <2>2. CASE CloseTransport
    BY Zenon, <2>2, NothingTaken
    DEF CloseTransport, callerVars, mgrVars, OnceInv, Finishers, TypeInv
  <2> QED BY Zenon, <1>6, <2>1, <2>2, AbortPublishOnce DEF CloseStep
<1>7. CASE Close
  BY Zenon, <1>7, NothingTaken DEF Close, callerVars, mgrVars, OnceInv, Finishers, TypeInv
<1>8. CASE Tick
  <2>1. \A q \in Requests : tx'[q].result = tx[q].result
    BY Zenon, <1>8, ResultKept DEF Tick, TypeInv
  <2> QED BY Zenon, <1>8, <2>1, NothingTaken DEF Tick, callerVars, OnceInv, Finishers
<1>9. CASE UNCHANGED vars
  BY Zenon, <1>9, NothingTaken DEF vars, callerVars, mgrVars, OnceInv, Finishers
<1> QED
  BY Zenon, <1>1, <1>3, <1>4, <1>5, <1>6, <1>7, <1>8, <1>9, CompleteOnce, RxOnce, CallerOnce
  DEF Next, InternalStep, Terminated

\* The inductive invariant.
LEMMA Invariance == Spec => [](TypeInv /\ OnceInv /\ ClosesOnce)
<1>1. Init => TypeInv /\ OnceInv /\ ClosesOnce
  BY Zenon, InitType, InitOnce
<1>2. TypeInv /\ OnceInv /\ ClosesOnce /\ [Next]_vars
        => (TypeInv /\ OnceInv /\ ClosesOnce)'
  BY Zenon, StepType, StepOnce, StepClosesOnce
<1> QED BY <1>1, <1>2, PTL DEF Spec

\* No invoke ID has two owners: tryAllocLocked reserves under the lock and
\* register claims the reservation.
THEOREM InvokeIDsExclusive == Spec => []IDsExclusive
<1>1. OnceInv => IDsExclusive
  BY Zenon DEF OnceInv
<1> QED BY <1>1, Invariance, PTL

\* The non-blocking send of complete and abortAll finds the channel empty: each
\* transaction is taken by one goroutine, which publishes one result.
THEOREM ResultPublishedOnce == Spec => []PublishedOnce
<1>1. OnceInv => PublishedOnce
  BY Zenon DEF OnceInv, PublishedOnce, Owed, TakenIsGone, PendingIsGone, Takes, TypeInv
<1> QED BY <1>1, Invariance, PTL

\* A caller blocked on its result channel after losing the race is owed a
\* result, or has it.
THEOREM LosersAreWoken == Spec => []LoserIsWoken
<1>1. OnceInv => LoserIsWoken
  BY Zenon DEF OnceInv, LoserIsWoken, Accounted, Alive
<1> QED BY <1>1, Invariance, PTL

(***************************************************************************)
(* That an answer reaches the request it answers.  What may still be on    *)
(* its way for a request whose transaction is gone is covered by the       *)
(* quarantine of its invoke ID (LateIsHeld), so that an ID with a          *)
(* transaction in use (FreeIsClear) has no message of another request.  A  *)
(* caller that may still transmit has its transaction in use, or lost it   *)
(* so recently that the quarantine is whole (BusyIsHeld): time does not    *)
(* pass before it notices.  Invoke IDs that were released without          *)
(* quarantine are outside the argument, as they are outside AnswerIsOwn.   *)
(***************************************************************************)

\* The types of the rest of the state this argument needs.
OwnTypes ==
  /\ quarantine \in [IDs -> 0 .. ApduTimeout]
  /\ wire \in [Requests -> 0 .. AnswerLife]
  /\ sendActive \in [IDs -> Owner]
  /\ outcome \in [Requests -> ResultSet \cup {NoResult}]
  /\ snd \in [Requests -> [ack : BOOLEAN, timer : Timer(SegTimeout), rounds : Int]]
  /\ bare \subseteq IDs

Answer(res) == res.kind \in {"ack", "refusal"}

\* The result is an answer to r, or r's invoke ID is outside the argument.
Mine(res, r) == res.from = r \/ id[r] \in bare

\* r's transaction is in use, or its invoke ID was released in this instant.
Held(r) ==
  \/ inUse[id[r]] = r
  \/ quarantine[id[r]] = ApduTimeout
  \/ Closed /\ id[r] \in bare

Kept(r) ==
  inUse[id[r]] = r \/ quarantine[id[r]] = ApduTimeout \/ id[r] \in bare

Owns(r, i) == r \in Requests /\ id[r] = i /\ Registered(r) /\ Kept(r)

Locks(r) == fin[Caller(r)].step = "lock"

\* The caller has something to do at once.
Busy(r) ==
  \/ pc[r] \in {"registered", "sending", "acked", "wait", "expired", "resend"}
  \/ pc[r] = "sendWait" /\ snd[r].ack
  \/ Locks(r) /\ fin[Caller(r)].hold = 0

\* An invoke ID that is taken is not in quarantine.
FreeIsClear ==
  \A i \in IDs : inUse[i] # NoReq \/ i \in reserved => quarantine[i] = 0

BusyIsHeld == \A r \in Requests : Busy(r) => Held(r)

\* The sender of segments of an invoke ID has that ID ...
SenderIsOwn ==
  \A i \in IDs : \A s \in Requests : sendActive[i] = s =>
    /\ id[s] = i /\ Registered(s) /\ s \in Segmented /\ pc[s] # "registered"
    /\ Locks(s) => fin[Caller(s)].hold # 0 \/ Closed

Cleaning(i) == \E a \in Agents : fin[a].step = "publish" /\ fin[a].id = i

\* ... and is forgotten with its transaction: until then somebody is about to.
SenderIsHeld ==
  \A i \in IDs : sendActive[i] # NoReq =>
    \/ inUse[i] = sendActive[i]
    \/ Closed /\ i \in bare
    \/ quarantine[i] = ApduTimeout /\ Cleaning(i)

\* The network has nothing for a request that never sent, and nothing for one
\* that is gone once the quarantine of its invoke ID is over.
LateIsHeld ==
  \A q \in Requests :
    /\ ~Registered(q) => wire[q] = 0
    /\ Registered(q) => \/ inUse[id[q]] = q \/ id[q] \in bare
                        \/ wire[q] <= quarantine[id[q]]

\* An answer the receive loop holds is for the owner of the invoke ID.
FromIsOwn ==
  /\ \A a \in Agents : fin[a].step = "lock" /\ Answer(fin[a].res)
                         => Owns(fin[a].res.from, fin[a].id)
  /\ rx # RxIdle => Owns(rx.from, rx.id)

\* Results on their way, in the channel and returned.
ResultIsOwn ==
  /\ \A a \in Agents : \A t \in Requests :
       Takes(a, t) /\ Answer(fin[a].res) => Mine(fin[a].res, t)
  /\ \A r \in Requests :
       /\ Answer(tx[r].result) => Mine(tx[r].result, r)
       /\ Answer(outcome[r]) => Mine(outcome[r], r) /\ pc[r] = "deferred"
       /\ ~Answer(fin[Caller(r)].res)

\* Only a caller gives its own invoke ID back without quarantine.
HoldIsWhole ==
  \A a \in Agents : fin[a].step = "lock" /\ fin[a].hold = 0
                      => \E r \in Requests : a = Caller(r)

OwnInv ==
  /\ FreeIsClear
  /\ HoldIsWhole
  /\ BusyIsHeld
  /\ SenderIsOwn
  /\ SenderIsHeld
  /\ LateIsHeld
  /\ FromIsOwn
  /\ ResultIsOwn

\* Senders when the manager's tables stand still and nothing new is sent.
LEMMA SendersStand ==
  ASSUME TypeInv, OwnTypes, SenderIsOwn, SenderIsHeld,
         UNCHANGED <<id, inUse, quarantine, bare>>, Closed => Closed',
         \A q \in Requests : Registered(q) => Registered(q)',
         \A q \in Requests : pc'[q] = "registered" => pc[q] = "registered",
         \A i \in IDs : sendActive'[i] = sendActive[i] \/ sendActive'[i] = NoReq,
         \A s \in Segmented :
           Locks(s)' => \/ fin'[Caller(s)] = fin[Caller(s)]
                        \/ fin'[Caller(s)].hold # 0 \/ Closed'
                        \/ pc[s] = "registered",
         \A a \in Agents : fin[a].step = "publish" =>
           fin'[a] = fin[a] \/ sendActive'[fin[a].id] = NoReq
  PROVE  SenderIsOwn' /\ SenderIsHeld'
<1>1. ASSUME NEW i \in IDs, NEW s \in Requests, sendActive'[i] = s
      PROVE  /\ id'[s] = i /\ Registered(s)' /\ s \in Segmented /\ pc'[s] # "registered"
             /\ Locks(s)' => fin'[Caller(s)].hold # 0 \/ Closed'
  <2>1. sendActive[i] = s
    BY Zenon, <1>1, RequestsAssumption
  <2>2. /\ id[s] = i /\ Registered(s) /\ s \in Segmented /\ pc[s] # "registered"
        /\ Locks(s) => fin[Caller(s)].hold # 0 \/ Closed
    BY Zenon, <2>1 DEF SenderIsOwn
  <2>3. fin'[Caller(s)] = fin[Caller(s)] => (Locks(s)' <=> Locks(s))
    BY Zenon DEF Locks
  <2> QED BY Zenon, <2>2, <2>3
<1>2. ASSUME NEW i \in IDs, sendActive'[i] # NoReq
      PROVE  \/ inUse'[i] = sendActive'[i]
             \/ Closed' /\ i \in bare'
             \/ quarantine'[i] = ApduTimeout /\ Cleaning(i)'
  <2>1. sendActive'[i] = sendActive[i]
    BY Zenon, <1>2
  <2>2. Cleaning(i) => Cleaning(i)'
    BY Zenon, <1>2 DEF Cleaning
  <2>3. \/ inUse[i] = sendActive[i]
        \/ Closed /\ i \in bare
        \/ quarantine[i] = ApduTimeout /\ Cleaning(i)
    BY Zenon, <1>2, <2>1 DEF SenderIsHeld
  <2> QED BY Zenon, <2>1, <2>2, <2>3
<1> QED BY Zenon, <1>1, <1>2 DEF SenderIsOwn, SenderIsHeld

\* Steps that leave the manager's tables alone.
LEMMA OwnStands ==
  ASSUME TypeInv, OwnTypes, OnceInv, OwnInv, AnswerLife <= ApduTimeout,
         UNCHANGED <<id, inUse, reserved, quarantine, bare>>, Closed => Closed',
         \A q \in Requests : Registered(q) => Registered(q)',
         \A q \in Requests : Busy(q)' => Busy(q) \/ Held(q),
         \A q \in Requests : \/ wire'[q] = wire[q]
                             \/ wire'[q] = AnswerLife /\ Registered(q) /\ Kept(q),
         \A a \in Agents : fin'[a].step = "publish" => fin'[a] = fin[a],
         \A a \in Agents : fin'[a].step = "lock" /\ Answer(fin'[a].res) =>
           fin'[a] = fin[a] \/ Owns(fin'[a].res.from, fin'[a].id),
         \A a \in Agents : fin'[a].step = "lock" /\ fin'[a].hold = 0 =>
           fin'[a] = fin[a] \/ \E r \in Requests : a = Caller(r),
         \A q \in Requests : ~Answer(fin'[Caller(q)].res),
         rx' = RxIdle \/ rx' = rx \/ Owns(rx'.from, rx'.id),
         \A q \in Requests : Answer(tx'[q].result) =>
           tx'[q].result = tx[q].result \/ Mine(tx'[q].result, q),
         \A q \in Requests : Answer(outcome'[q]) =>
           /\ outcome'[q] = outcome[q] \/ Mine(outcome'[q], q)
           /\ pc'[q] = "deferred",
         SenderIsOwn' /\ SenderIsHeld'
  PROVE  OwnInv'
<1>1. \A q \in Requests : /\ Held(q) => Held(q)'
                          /\ Kept(q) => Kept(q)'
                          /\ \A i : Owns(q, i) => Owns(q, i)'
                          /\ \A res : Mine(res, q) => Mine(res, q)'
  BY Zenon DEF Held, Kept, Owns, Mine
<1>2. FreeIsClear' /\ HoldIsWhole'
  BY Zenon DEF OwnInv, FreeIsClear, HoldIsWhole
<1>3. BusyIsHeld'
  BY Zenon, <1>1 DEF OwnInv, BusyIsHeld
<1>4. LateIsHeld'
  <2> SUFFICES ASSUME NEW q \in Requests
               PROVE  /\ ~Registered(q)' => wire'[q] = 0
                      /\ Registered(q)' => \/ inUse[id[q]] = q \/ id[q] \in bare
                                           \/ wire'[q] <= quarantine[id[q]]
    BY Zenon DEF LateIsHeld
  <2>1. /\ ~Registered(q) => wire[q] = 0
        /\ Registered(q) => \/ inUse[id[q]] = q \/ id[q] \in bare
                            \/ wire[q] <= quarantine[id[q]]
    BY Zenon DEF OwnInv, LateIsHeld
  <2>2. CASE wire'[q] = wire[q]
    <3>1. wire[q] = 0 => wire[q] <= quarantine[id[q]]
      BY DEF OwnTypes, TypeInv
    <3> QED BY Zenon, <2>1, <2>2, <3>1
  <2>3. CASE wire'[q] = AnswerLife /\ Registered(q) /\ Kept(q)
    BY <2>3 DEF Kept
  <2> QED BY Zenon, <2>2, <2>3
<1>5. FromIsOwn'
  <2>1. ASSUME NEW a \in Agents, fin'[a].step = "lock", Answer(fin'[a].res)
        PROVE  Owns(fin[a].res.from, fin[a].id)'
    <3>1. Owns(fin'[a].res.from, fin'[a].id)
      BY Zenon, <2>1 DEF OwnInv, FromIsOwn
    <3>2. fin'[a].res.from \in Requests
      BY Zenon, <3>1 DEF Owns
    <3> QED BY Zenon, <1>1, <3>1, <3>2 DEF Owns
  <2>2. ASSUME rx' # RxIdle PROVE Owns(rx.from, rx.id)'
    <3>1. Owns(rx'.from, rx'.id)
      BY Zenon, <2>2 DEF OwnInv, FromIsOwn
    <3> QED BY Zenon, <1>1, <3>1 DEF Owns
  <2> QED BY Zenon, <2>1, <2>2 DEF FromIsOwn, Answer
<1>6. ResultIsOwn'
  <2>1. ASSUME NEW a \in Agents, NEW t \in Requests, Takes(a, t)', Answer(fin'[a].res)
        PROVE  Mine(fin'[a].res, t)
    BY Zenon, <2>1 DEF OwnInv, ResultIsOwn, Takes
  <2>2. \A r \in Requests :
          /\ Answer(tx'[r].result) => Mine(tx'[r].result, r)
          /\ Answer(outcome'[r]) => Mine(outcome'[r], r) /\ pc'[r] = "deferred"
    BY Zenon DEF OwnInv, ResultIsOwn
  <2> QED BY Zenon, <2>1, <2>2 DEF ResultIsOwn, Answer, Mine
<1> QED BY Zenon, <1>2, <1>3, <1>4, <1>5, <1>6 DEF OwnInv

\* The steps that move each of the further variables.
LEMMA Frames ==
  ASSUME [Next]_vars
  PROVE  /\ UNCHANGED <<quarantine, bare>> \/ Tick \/ abortAll \/ \E a \in Agents : complete(a)
         /\ \/ UNCHANGED wire \/ Tick
            \/ \E q : wire' = [wire EXCEPT ![q] = AnswerLife]
         /\ \/ UNCHANGED sendActive
            \/ \E i : sendActive' = [sendActive EXCEPT ![i] = NoReq]
            \/ \E i : \E r \in Requests : sendActive' = [sendActive EXCEPT ![i] = r]
            \/ sendActive' = [i \in IDs |-> NoReq]
         /\ \/ UNCHANGED outcome
            \/ \E r \in Requests : CallerPublishes(r) \/ TakeResult(r) \/ Deferred(r)
<1> USE DEF vars, callerVars, mgrVars, segVars, netVars
<1>1. ASSUME NEW r \in Requests,
             Start(r) \/ Refuse(r) \/ AllocateGivesUp(r) \/ SendGivesUp(r) \/ Cancel(r)
      PROVE  UNCHANGED <<quarantine, bare, wire, sendActive, outcome>>
  BY ZenonT(30), <1>1 DEF Start, Refuse, AllocateGivesUp, SendGivesUp, Cancel
<1>2. ASSUME NEW r \in Requests,
             Allocate(r) \/ AllocateFails(r) \/ register(r) \/ SegmentsTooLarge(r)
             \/ AckProgress(r) \/ CloseSeen(r) \/ TimerFires(r) \/ onTimeout(r)
      PROVE  UNCHANGED <<quarantine, bare, wire, sendActive, outcome>>
  BY ZenonT(30), <1>2 DEF Allocate, AllocateFails, register, SegmentsTooLarge, AckProgress,
     CloseSeen, TimerFires, onTimeout, tryAllocLocked
<1>3. ASSUME NEW r \in Requests, Send(r) \/ SendWindow(r) \/ Retransmit(r)
      PROVE  /\ wire' = [wire EXCEPT ![r] = AnswerLife]
             /\ UNCHANGED <<quarantine, bare, sendActive, outcome>>
  BY ZenonT(30), <1>3 DEF Send, SendWindow, Retransmit
<1>4. ASSUME NEW r \in Requests, enterSendingSegments(r)
      PROVE  /\ UNCHANGED <<quarantine, bare, wire, outcome>>
             /\ UNCHANGED sendActive \/ sendActive' = [sendActive EXCEPT ![id[r]] = r]
  BY ZenonT(30), <1>4 DEF enterSendingSegments
<1>5. ASSUME NEW r \in Requests, enterAwaitingResponse(r) \/ Deferred(r) \/ TakeResult(r)
      PROVE  /\ UNCHANGED <<quarantine, bare, wire>>
             /\ UNCHANGED sendActive \/ sendActive' = [sendActive EXCEPT ![id[r]] = NoReq]
             /\ UNCHANGED outcome \/ Deferred(r) \/ TakeResult(r)
  BY ZenonT(30), <1>5 DEF enterAwaitingResponse, Deferred, TakeResult
<1>6. ASSUME NEW a, Publish(a)
      PROVE  /\ UNCHANGED <<quarantine, bare, wire>>
             /\ sendActive' = [sendActive EXCEPT ![fin[a].id] = NoReq]
  BY ZenonT(30), <1>6 DEF Publish
<1>7. ASSUME NEW q \in Requests, PeerStep(q)
      PROVE  UNCHANGED <<quarantine, bare, wire, sendActive, outcome>>
  BY ZenonT(30), <1>7 DEF PeerStep, RxAnswer, RxSegment, RxSegmentACK
<1>8. ASSUME RxStep
      PROVE  /\ UNCHANGED <<quarantine, bare, sendActive, outcome>>
             /\ UNCHANGED wire \/ wire' = [wire EXCEPT ![rx.from] = AnswerLife]
  BY ZenonT(30), <1>8 DEF RxStep, AcceptFirst, AcceptNoFirst, AcceptOutOfOrder,
     AcceptOverLimit, AcceptMore, AcceptLast, Heard
<1>9. ASSUME NEW a, complete(a) PROVE UNCHANGED <<wire, sendActive, outcome>>
  BY Zenon, <1>9 DEF complete
<1>10. ASSUME NEW i, watchTimeout(i)
       PROVE  UNCHANGED <<quarantine, bare, wire, sendActive, outcome>>
  BY Zenon, <1>10 DEF watchTimeout
<1>11. ASSUME CloseStep \/ Close
       PROVE  /\ UNCHANGED <<quarantine, bare>> \/ abortAll
              /\ UNCHANGED <<wire, outcome>>
              /\ UNCHANGED sendActive \/ sendActive' = [i \in IDs |-> NoReq]
  BY ZenonT(30), <1>11 DEF CloseStep, Close, abortAll, AbortPublish, CloseTransport
<1>12. ASSUME Tick PROVE UNCHANGED <<sendActive, outcome>>
  BY Zenon, <1>12 DEF Tick
<1>13. ASSUME Terminated \/ UNCHANGED vars
       PROVE  UNCHANGED <<quarantine, bare, wire, sendActive, outcome>>
  BY Zenon, <1>13 DEF Terminated
<1>14. ASSUME NEW r \in Requests, CallerStep(r)
       PROVE  /\ UNCHANGED <<quarantine, bare>>
              /\ UNCHANGED wire \/ \E q : wire' = [wire EXCEPT ![q] = AnswerLife]
              /\ \/ UNCHANGED sendActive
                 \/ \E i : sendActive' = [sendActive EXCEPT ![i] = NoReq]
                 \/ \E i : sendActive' = [sendActive EXCEPT ![i] = r]
              /\ UNCHANGED outcome \/ CallerPublishes(r) \/ TakeResult(r) \/ Deferred(r)
  <2> USE <1>2, <1>3, <1>4, <1>5, <1>6
  <2>1. CASE CallerPublishes(r)
    BY ZenonT(30), <2>1 DEF CallerPublishes
  <2> QED BY ZenonT(30), <1>14, <2>1 DEF CallerStep
<1>15. CASE \E r \in Requests : CallerStep(r) \/ PeerStep(r)
                                \/ Start(r) \/ Refuse(r) \/ AllocateGivesUp(r) \/ SendGivesUp(r) \/ Cancel(r)
  BY ZenonT(30), <1>15, <1>1, <1>7, <1>14
<1>16. CASE InternalStep
  <2>1. ASSUME NEW a \in Agents, OtherPublishes(a)
        PROVE  /\ UNCHANGED <<quarantine, bare, wire, outcome>>
               /\ sendActive' = [sendActive EXCEPT ![fin[a].id] = NoReq]
    BY Zenon, <2>1, <1>6 DEF OtherPublishes
  <2> QED BY ZenonT(30), <1>16, <1>9, <1>10, <1>11, <2>1 DEF InternalStep
<1>17. CASE RxStep \/ Close \/ Tick \/ Terminated \/ UNCHANGED vars
  BY ZenonT(30), <1>17, <1>8, <1>11, <1>12, <1>13
<1> QED BY ZenonT(30), <1>15, <1>16, <1>17 DEF Next

\* The sender's SegmentACK slot and timer.
LEMMA SenderFrame ==
  ASSUME [Next]_vars
  PROVE  \/ UNCHANGED snd \/ Tick
         \/ \E r \in Requests : AckProgress(r) \/ Deferred(r)
         \/ \E r \in Requests : SendWindow(r) /\ snd' = [snd EXCEPT ![r].timer = SegTimeout]
         \/ \E r \in Requests : /\ enterSendingSegments(r)
                                /\ snd' = [snd EXCEPT ![r] = [ack |-> FALSE, timer |-> Off,
                                                              rounds |-> MaxRounds]]
         \/ \E q \in Requests : RxSegmentACK(q)
<1> USE DEF vars, callerVars, mgrVars, segVars, netVars
<1>1. ASSUME NEW r \in Requests,
             Start(r) \/ Refuse(r) \/ AllocateGivesUp(r) \/ SendGivesUp(r) \/ Cancel(r)
      PROVE  UNCHANGED snd
  BY ZenonT(30), <1>1 DEF Start, Refuse, AllocateGivesUp, SendGivesUp, Cancel
<1>2. ASSUME NEW r \in Requests,
             Allocate(r) \/ AllocateFails(r) \/ register(r) \/ SegmentsTooLarge(r)
             \/ CloseSeen(r) \/ TimerFires(r) \/ onTimeout(r) \/ Send(r) \/ Retransmit(r)
             \/ enterAwaitingResponse(r) \/ TakeResult(r) \/ CallerPublishes(r)
      PROVE  UNCHANGED snd
  BY ZenonT(30), <1>2 DEF Allocate, AllocateFails, register, SegmentsTooLarge, Send,
     CloseSeen, TimerFires, onTimeout, Retransmit, enterAwaitingResponse, TakeResult,
     CallerPublishes, Publish
<1>3. ASSUME NEW r \in Requests, SendWindow(r)
      PROVE  UNCHANGED snd \/ snd' = [snd EXCEPT ![r].timer = SegTimeout]
  BY ZenonT(30), <1>3 DEF SendWindow
<1>4. ASSUME NEW r \in Requests, enterSendingSegments(r)
      PROVE  UNCHANGED snd \/ snd' = [snd EXCEPT ![r] = [ack |-> FALSE, timer |-> Off,
                                                         rounds |-> MaxRounds]]
  BY ZenonT(30), <1>4 DEF enterSendingSegments
<1>5. ASSUME NEW q \in Requests, RxAnswer(q) \/ RxSegment(q) PROVE UNCHANGED snd
  BY ZenonT(30), <1>5 DEF RxAnswer, RxSegment
<1>6. ASSUME RxStep PROVE UNCHANGED snd
  BY ZenonT(30), <1>6 DEF RxStep, AcceptFirst, AcceptNoFirst, AcceptOutOfOrder,
     AcceptOverLimit, AcceptMore, AcceptLast
<1>7. ASSUME InternalStep \/ Close \/ Terminated PROVE UNCHANGED snd
  BY ZenonT(30), <1>7 DEF InternalStep, complete, OtherPublishes, Publish, watchTimeout,
     CloseStep, Close, abortAll, AbortPublish, CloseTransport, Terminated
<1>8. CASE \E r \in Requests : CallerStep(r)
  BY ZenonT(30), <1>8, <1>2, <1>3, <1>4 DEF CallerStep
<1>9. CASE \E q \in Requests : PeerStep(q)
  BY ZenonT(30), <1>9, <1>5 DEF PeerStep
<1> QED BY ZenonT(30), <1>1, <1>6, <1>7, <1>8, <1>9 DEF Next

\* A sender's record after a step of its own or a SegmentACK.
LEMMA SenderTypes ==
  ASSUME NEW S, S = [ack : BOOLEAN, timer : Timer(SegTimeout), rounds : Int], NEW u \in S
  PROVE  /\ [u EXCEPT !.ack = TRUE] \in S
         /\ [u EXCEPT !.timer = SegTimeout] \in S
         /\ [u EXCEPT !.timer = Less(@)] \in S
         /\ [u EXCEPT !.ack = FALSE, !.timer = Off] \in S
         /\ \A n \in Int : [ack |-> FALSE, timer |-> Off, rounds |-> n] \in S
         /\ u.rounds - 1 \in Int
<1>1. /\ Off \in Timer(SegTimeout) /\ SegTimeout \in Timer(SegTimeout)
      /\ \A n \in Timer(SegTimeout) : Less(n) \in Timer(SegTimeout)
      /\ \A n \in Int : n - 1 \in Int
  BY BoundsAssumption DEF Off, Timer, Less
<1>2. u.rounds \in Int /\ u.timer \in Timer(SegTimeout)
  BY Zenon
<1> QED BY Zenon, <1>1, <1>2

\* OwnTypes holds initially and is kept.
LEMMA OwnTypesKept ==
  /\ Init => OwnTypes
  /\ TypeInv /\ OwnTypes /\ [Next]_vars => OwnTypes'
<1> DEFINE S == [ack : BOOLEAN, timer : Timer(SegTimeout), rounds : Int]
<1>1. Init => OwnTypes
  BY BoundsAssumption DEF Init, OwnTypes, NoSender, Off, Timer, Owner
<1> SUFFICES ASSUME TypeInv, OwnTypes, [Next]_vars PROVE OwnTypes'
  BY Zenon, <1>1
<1>2. quarantine' \in [IDs -> 0 .. ApduTimeout] /\ bare' \subseteq IDs
  <2>1. CASE Tick
    <3>1. \A n \in 0 .. ApduTimeout : Less(n) \in 0 .. ApduTimeout
      BY BoundsAssumption DEF Less
    <3> QED BY Zenon, <2>1, <3>1 DEF Tick, OwnTypes
  <2>2. CASE abortAll
    BY ZenonT(30), <2>2 DEF abortAll, OwnTypes
  <2>3. ASSUME NEW a \in Agents, complete(a)
        PROVE  quarantine' \in [IDs -> 0 .. ApduTimeout] /\ bare' \subseteq IDs
    <3>1. fin[a] \in FinSet
      BY Zenon DEF TypeInv
    <3>2. fin[a].id \in IDs /\ fin[a].hold \in 0 .. ApduTimeout
      BY <3>1, BoundsAssumption DEF FinSet
    <3> QED BY ZenonT(30), <2>3, <3>2 DEF complete, OwnTypes
  <2> QED BY Zenon, <2>1, <2>2, <2>3, Frames DEF OwnTypes
<1>3. wire' \in [Requests -> 0 .. AnswerLife]
  <2>1. AnswerLife \in 0 .. AnswerLife /\ \A n \in 0 .. AnswerLife : Less(n) \in 0 .. AnswerLife
    BY BoundsAssumption DEF Less
  <2> QED BY Zenon, <2>1, Frames DEF OwnTypes, Tick
<1>4. sendActive' \in [IDs -> Owner]
  BY Zenon, Frames DEF OwnTypes, Owner
<1>5. outcome' \in [Requests -> ResultSet \cup {NoResult}]
  <2>1. ASSUME NEW r \in Requests, CallerPublishes(r) \/ TakeResult(r) \/ Deferred(r)
        PROVE  \E res \in ResultSet \cup {NoResult} :
                 UNCHANGED outcome \/ outcome' = [outcome EXCEPT ![r] = res]
    <3>1. fin[Caller(r)].res \in ResultSet \cup {NoResult}
      BY Zenon, AgentFacts DEF TypeInv, FinSet
    <3>2. tx[r].result \in ResultSet \cup {NoResult}
      BY Zenon DEF TypeInv, TxSet
    <3> QED BY Zenon, <2>1, <3>1, <3>2 DEF CallerPublishes, TakeResult, Deferred, Return
  <2> QED BY Zenon, <2>1, Frames DEF OwnTypes
<1>6. snd' \in [Requests -> S]
  <2>1. snd \in [Requests -> S] /\ MaxRounds \in Int
    BY BoundsAssumption DEF OwnTypes
  <2>2. CASE Tick
    BY Zenon, <2>1, <2>2, SenderTypes DEF Tick
  <2>3. ASSUME NEW r \in Requests, AckProgress(r) \/ Deferred(r) PROVE snd' \in [Requests -> S]
    <3>1. /\ snd[r] \in S
          /\ [ack |-> FALSE, timer |-> Off, rounds |-> snd[r].rounds - 1] \in S
          /\ [snd[r] EXCEPT !.ack = FALSE, !.timer = Off] \in S
      BY Zenon, <2>1, SenderTypes
    <3>2. \E v \in S : snd' = [snd EXCEPT ![r] = v]
      BY Zenon, <2>3, <3>1 DEF AckProgress, Deferred
    <3> QED BY Zenon, <2>1, <3>2
  <2>4. ASSUME NEW q \in Requests, RxSegmentACK(q) PROVE snd' \in [Requests -> S]
    BY Zenon, <2>1, <2>4, SenderTypes DEF RxSegmentACK
  <2>5. ASSUME NEW r \in Requests
        PROVE  /\ [snd EXCEPT ![r].timer = SegTimeout] \in [Requests -> S]
               /\ [snd EXCEPT ![r] = [ack |-> FALSE, timer |-> Off, rounds |-> MaxRounds]]
                    \in [Requests -> S]
    BY Zenon, <2>1, SenderTypes
  <2> QED BY Zenon, <2>1, <2>2, <2>3, <2>4, <2>5, SenderFrame
<1> QED BY Zenon, <1>2, <1>3, <1>4, <1>5, <1>6 DEF OwnTypes

\* A caller that goes on outside finishTx.
LEMMA CallerGoesOwn ==
  ASSUME TypeInv, OwnTypes, OnceInv, OwnInv, AnswerLife <= ApduTimeout,
         NEW r \in Requests, NEW l, l # "registered", pc[r] # "deferred",
         l \notin {"idle", "alloc", "allocWait", "reserved"} \/ ~Registered(r),
         pc' = [pc EXCEPT ![r] = l], Busy(r)' => Held(r),
         UNCHANGED <<id, outcome, inUse, reserved, quarantine, bare, fin, rx, closer>>,
         \A q \in Requests : tx'[q].result = tx[q].result,
         \A q \in Requests : q # r => snd'[q] = snd[q],
         wire' = wire \/ (wire' = [wire EXCEPT ![r] = AnswerLife] /\ Owns(r, id[r])),
         \/ \A i \in IDs : sendActive'[i] = sendActive[i] \/ sendActive'[i] = NoReq
         \/ SenderIsOwn' /\ SenderIsHeld'
  PROVE  OwnInv'
<1>1. pc'[r] = l /\ \A q \in Requests : q # r => pc'[q] = pc[q]
  BY Zenon DEF TypeInv
<1>2. \A q \in Requests : Registered(q) => Registered(q)'
  BY Zenon, <1>1 DEF Registered
<1>3. \A q \in Requests : q # r => (Busy(q)' <=> Busy(q))
  BY Zenon, <1>1 DEF Busy, Locks
<1>4. \A q \in Requests : \/ wire'[q] = wire[q]
                          \/ wire'[q] = AnswerLife /\ Registered(q) /\ Kept(q)
  BY Zenon DEF Owns, OwnTypes
<1>5. \A q \in Requests : ~Answer(fin'[Caller(q)].res)
  BY Zenon DEF OwnInv, ResultIsOwn
<1>6. \A q \in Requests : Answer(outcome'[q]) => pc'[q] = "deferred"
  BY Zenon, <1>1 DEF OwnInv, ResultIsOwn
<1>7. SenderIsOwn' /\ SenderIsHeld'
  <2>1. \A q \in Requests : pc'[q] = "registered" => pc[q] = "registered"
    BY Zenon, <1>1
  <2> QED BY Zenon, <1>2, <2>1, SendersStand DEF OwnInv, Closed
<1> QED BY Zenon, <1>2, <1>3, <1>4, <1>5, <1>6, <1>7, OwnStands DEF Closed

\* A caller that enters finishTx.
LEMMA CallerEndsOwn ==
  ASSUME TypeInv, OwnTypes, OnceInv, OwnInv, AnswerLife <= ApduTimeout,
         NEW r \in Requests, NEW res, ~Answer(res), NEW hold,
         pc[r] \in LivePCs, EndWith(r, res, hold), hold = 0 => Held(r),
         r \in Segmented => hold # 0 \/ Closed \/ pc[r] = "registered",
         UNCHANGED <<id, outcome, inUse, reserved, quarantine, bare, rx, closer, snd, sendActive>>,
         \A q \in Requests : tx'[q].result = tx[q].result,
         wire' = wire \/ (wire' = [wire EXCEPT ![r] = AnswerLife] /\ Owns(r, id[r]))
  PROVE  OwnInv'
<1>1. /\ pc'[r] = "finishing" /\ \A q \in Requests : q # r => pc'[q] = pc[q]
      /\ fin'[Caller(r)] = Finish(id[r], res, hold)
      /\ fin[Caller(r)].step = "none"
      /\ \A b \in Agents : b # Caller(r) => fin'[b] = fin[b]
  BY Zenon, AgentFacts DEF EndWith, Goto, TypeInv, OnceInv, Finishers, LivePCs
<1>2. fin'[Caller(r)].step = "lock" /\ fin'[Caller(r)].res = res /\ fin'[Caller(r)].hold = hold
  BY <1>1 DEF Finish
<1>3. \A q \in Requests : Registered(q) => Registered(q)'
  BY Zenon, <1>1 DEF Registered
<1>4. \A q \in Requests : q # r => fin'[Caller(q)] = fin[Caller(q)]
  BY Zenon, <1>1, AgentFacts
<1>5. \A q \in Requests : Busy(q)' => Busy(q) \/ Held(q)
  BY Zenon, <1>1, <1>2, <1>4 DEF Busy, Locks
<1>6. \A q \in Requests : \/ wire'[q] = wire[q]
                          \/ wire'[q] = AnswerLife /\ Registered(q) /\ Kept(q)
  BY Zenon DEF Owns, OwnTypes
<1>7. \A q \in Requests : ~Answer(fin'[Caller(q)].res)
  BY Zenon, <1>2, <1>4 DEF OwnInv, ResultIsOwn
<1>8. \A q \in Requests : Answer(outcome'[q]) => pc'[q] = "deferred"
  BY Zenon, <1>1 DEF OwnInv, ResultIsOwn, LivePCs
<1>9. /\ \A a \in Agents : fin'[a].step = "publish" => fin'[a] = fin[a]
      /\ \A a \in Agents : fin[a].step = "publish" => fin'[a] = fin[a]
      /\ \A a \in Agents : fin'[a].step = "lock" /\ Answer(fin'[a].res) => fin'[a] = fin[a]
      /\ \A a \in Agents : fin'[a] = fin[a] \/ \E q \in Requests : a = Caller(q)
  BY Zenon, <1>1, <1>2
<1>10. SenderIsOwn' /\ SenderIsHeld'
  <2>1. \A q \in Requests : pc'[q] = "registered" => pc[q] = "registered"
    BY Zenon, <1>1
  <2>2. \A s \in Segmented :
          Locks(s)' => \/ fin'[Caller(s)] = fin[Caller(s)]
                       \/ fin'[Caller(s)].hold # 0 \/ Closed'
                       \/ pc[s] = "registered"
    BY Zenon, <1>2, <1>4, RequestsAssumption DEF Closed
  <2> QED BY Zenon, <1>3, <1>9, <2>1, <2>2, SendersStand DEF OwnInv, Closed
<1> QED BY Zenon, <1>3, <1>5, <1>6, <1>7, <1>8, <1>9, <1>10, OwnStands DEF Closed

\* The receive loop or a watchdog enters finishTx.
LEMMA AgentEntersOwn ==
  ASSUME TypeInv, OwnTypes, OnceInv, OwnInv, AnswerLife <= ApduTimeout,
         NEW a, \A r : a # Caller(r), NEW i, NEW res, NEW hold,
         hold # 0, a \in Agents => fin[a].step = "none",
         Answer(res) => Owns(res.from, i),
         fin' = [fin EXCEPT ![a] = Finish(i, res, hold)],
         rx' = RxIdle \/ rx' = rx,
         UNCHANGED <<pc, id, outcome, inUse, reserved, quarantine, bare, closer, snd, sendActive>>,
         \A q \in Requests : tx'[q].result = tx[q].result,
         wire' = wire \/ (wire' = [wire EXCEPT ![rx.from] = AnswerLife] /\ Owns(rx.from, rx.id))
  PROVE  OwnInv'
<1>1. /\ \A b \in Agents : b # a => fin'[b] = fin[b]
      /\ a \in Agents => /\ fin'[a].step = "lock" /\ fin'[a].res = res
                         /\ fin'[a].id = i /\ fin'[a].hold = hold
  BY Zenon DEF Finish, TypeInv
<1>2. \A q \in Requests : fin'[Caller(q)] = fin[Caller(q)]
  BY Zenon, <1>1, AgentFacts
<1>3. \A q \in Requests : (Registered(q)' <=> Registered(q)) /\ (Busy(q)' <=> Busy(q))
  BY Zenon, <1>2 DEF Registered, Busy, Locks
<1>4. \A q \in Requests : \/ wire'[q] = wire[q]
                          \/ wire'[q] = AnswerLife /\ Registered(q) /\ Kept(q)
  BY Zenon DEF Owns, OwnTypes
<1>5. /\ \A b \in Agents : fin'[b].step = "publish" => fin'[b] = fin[b]
      /\ \A b \in Agents : fin[b].step = "publish" => fin'[b] = fin[b]
      /\ \A b \in Agents : fin'[b].step = "lock" /\ Answer(fin'[b].res) =>
           fin'[b] = fin[b] \/ Owns(fin'[b].res.from, fin'[b].id)
      /\ \A b \in Agents : fin'[b].step = "lock" /\ fin'[b].hold = 0 => fin'[b] = fin[b]
  BY Zenon, <1>1
<1>6. SenderIsOwn' /\ SenderIsHeld'
  <2>1. \A s \in Segmented : fin'[Caller(s)] = fin[Caller(s)]
    BY Zenon, <1>2, RequestsAssumption
  <2> QED BY Zenon, <1>3, <1>5, <2>1, SendersStand DEF OwnInv, Closed
<1>7. \A q \in Requests : /\ ~Answer(fin'[Caller(q)].res)
                          /\ Answer(outcome'[q]) => pc'[q] = "deferred"
  BY Zenon, <1>2 DEF OwnInv, ResultIsOwn
<1> QED BY Zenon, <1>3, <1>4, <1>5, <1>6, <1>7, OwnStands DEF Closed

\* Steps of the receive loop, of Close and of time that leave callers and
\* finishTx alone.
LEMMA NothingOwn ==
  ASSUME TypeInv, OwnTypes, OnceInv, OwnInv, AnswerLife <= ApduTimeout,
         UNCHANGED <<pc, id, outcome, inUse, reserved, quarantine, bare, fin>>,
         Closed => Closed',
         \A q \in Requests : snd'[q].ack => snd[q].ack \/ Held(q),
         \A i \in IDs : sendActive'[i] = sendActive[i] \/ sendActive'[i] = NoReq,
         rx' = RxIdle \/ rx' = rx \/ Owns(rx'.from, rx'.id),
         \A q \in Requests : tx'[q].result = tx[q].result \/ ~Answer(tx'[q].result),
         wire' = wire \/ (wire' = [wire EXCEPT ![rx.from] = AnswerLife] /\ Owns(rx.from, rx.id))
  PROVE  OwnInv'
<1>1. \A q \in Requests : (Registered(q)' <=> Registered(q)) /\ (Busy(q)' => Busy(q) \/ Held(q))
  BY Zenon DEF Registered, Busy, Locks
<1>2. \A q \in Requests : \/ wire'[q] = wire[q]
                          \/ wire'[q] = AnswerLife /\ Registered(q) /\ Kept(q)
  BY Zenon DEF Owns, OwnTypes
<1>3. SenderIsOwn' /\ SenderIsHeld'
  BY Zenon, <1>1, SendersStand DEF OwnInv
<1>4. \A q \in Requests : /\ ~Answer(fin'[Caller(q)].res)
                          /\ Answer(outcome'[q]) => pc'[q] = "deferred"
  BY Zenon DEF OwnInv, ResultIsOwn
<1> QED BY Zenon, <1>1, <1>2, <1>3, <1>4, OwnStands

\* What is on its way for q, when its invoke ID is in use, is for the owner.
LEMMA LateIsOwn ==
  ASSUME TypeInv, OwnTypes, OwnInv, NEW q \in Requests, wire[q] > 0, inUse[id[q]] # NoReq
  PROVE  Owns(q, id[q])
<1>1. id[q] \in IDs /\ wire[q] # 0 /\ ~(wire[q] <= 0)
  BY DEF TypeInv, OwnTypes
<1>2. Registered(q) /\ quarantine[id[q]] = 0
  BY Zenon, <1>1 DEF OwnInv, LateIsHeld, FreeIsClear
<1> QED BY Zenon, <1>1, <1>2 DEF OwnInv, LateIsHeld, Owns, Kept

\* The results the client makes up itself are no answers.
LEMMA LocalIsNoAnswer ==
  ASSUME NEW k \in LocalKinds, NEW r
  PROVE  ~Answer(Plain(k)) /\ ~Answer(wrapOutcomeUnknown(r, k)) /\ ~Answer(maybeUnknown(r, k))
BY DEF Answer, LocalKinds, Plain, wrapOutcomeUnknown, maybeUnknown

\* The receive loop: lookup of an answer or of a segment.
LEMMA PeerOwn ==
  ASSUME TypeInv, OwnTypes, OnceInv, OwnInv, AnswerLife <= ApduTimeout,
         NEW q \in Requests, PeerStep(q)
  PROVE  OwnInv'
<1>1. /\ RxLoop \in Agents /\ \A r : RxLoop # Caller(r)
      /\ NotFinishing.step = "none" /\ id[q] \in IDs /\ ApduTimeout # 0
  BY AgentFacts, BoundsAssumption DEF NotFinishing, TypeInv
<1>2. CASE RxAnswer(q)
  <2>1. /\ inUse[id[q]] # NoReq /\ wire[q] > 0 /\ fin[RxLoop] = NotFinishing
        /\ UNCHANGED <<pc, id, outcome, tx, inUse, reserved, quarantine, bare, closer, snd,
                       sendActive, wire, rx>>
        /\ \E k : fin' = [fin EXCEPT ![RxLoop] = Finish(id[q], FromPeer(k, q), ApduTimeout)]
    BY Zenon, <1>2 DEF RxAnswer, Matches, RxFree, RxFinish, callerVars, mgrVars, segVars, netVars
  <2>2. Owns(q, id[q])
    BY Zenon, <2>1, LateIsOwn
  <2>3. \A k : FromPeer(k, q).from = q
    BY Zenon DEF FromPeer
  <2>4. PICK res : /\ res.from = q
                   /\ fin' = [fin EXCEPT ![RxLoop] = Finish(id[q], res, ApduTimeout)]
    BY Zenon, <2>1, <2>3
  <2>5. /\ RxLoop \in Agents => fin[RxLoop].step = "none"
        /\ Answer(res) => Owns(res.from, id[q])
        /\ \A p \in Requests : tx'[p].result = tx[p].result
    BY Zenon, <1>1, <2>1, <2>2, <2>4
  <2> QED BY Zenon, <1>1, <2>1, <2>4, <2>5, AgentEntersOwn
<1>3. CASE RxSegment(q)
  <2>1. /\ inUse[id[q]] # NoReq /\ wire[q] > 0 /\ fin[RxLoop] = NotFinishing
        /\ UNCHANGED <<pc, id, outcome, tx, inUse, reserved, quarantine, bare, closer, snd,
                       sendActive, wire>>
        /\ \/ /\ \E k \in SegmentKinds : rx' = [kind |-> k, id |-> id[q], from |-> q]
              /\ UNCHANGED fin
           \/ /\ fin' = [fin EXCEPT ![RxLoop] = Finish(id[q], Plain("protocol"), ApduTimeout)]
              /\ rx' = rx
    BY ZenonT(30), <1>3 DEF RxSegment, Matches, RxFree, RxFinish, callerVars, mgrVars, segVars, netVars
  <2>2. Owns(q, id[q])
    BY Zenon, <2>1, LateIsOwn
  <2>3. CASE /\ \E k \in SegmentKinds : rx' = [kind |-> k, id |-> id[q], from |-> q]
             /\ UNCHANGED fin
    <3>1. rx'.from = q /\ rx'.id = id[q]
      BY <2>3
    <3> QED BY Zenon, <2>1, <2>2, <2>3, <3>1, NothingOwn DEF Closed
  <2>4. CASE /\ fin' = [fin EXCEPT ![RxLoop] = Finish(id[q], Plain("protocol"), ApduTimeout)]
             /\ rx' = rx
    <3>1. ~Answer(Plain("protocol"))
      BY Zenon, LocalIsNoAnswer DEF LocalKinds
    <3> QED BY Zenon, <1>1, <2>1, <2>4, <3>1, AgentEntersOwn
  <2> QED BY Zenon, <2>1, <2>3, <2>4
<1>4. CASE RxSegmentACK(q)
  <2> DEFINE t == sendActive[id[q]]
  <2>1. /\ t # NoReq /\ snd' = [snd EXCEPT ![t].ack = TRUE]
        /\ UNCHANGED <<pc, id, outcome, tx, inUse, reserved, quarantine, bare, closer, fin,
                       sendActive, wire, rx>>
    BY Zenon, <1>4 DEF RxSegmentACK, Matches, callerVars, mgrVars, netVars
  <2>2. t \in Requests
    BY Zenon, <1>1, <2>1 DEF OwnTypes, Owner
  <2>3. Held(t)
    <3>1. id[t] = id[q]
      BY Zenon, <1>1, <2>2 DEF OwnInv, SenderIsOwn
    <3> QED BY Zenon, <1>1, <2>1, <3>1 DEF OwnInv, SenderIsHeld, Held
  <2>4. \A p \in Requests : p # t => snd'[p] = snd[p]
    BY Zenon, <2>1 DEF OwnTypes
  <2> HIDE DEF t
  <2> QED BY Zenon, <2>1, <2>3, <2>4, NothingOwn DEF Closed
<1> QED BY Zenon, <1>2, <1>3, <1>4 DEF PeerStep

\* The receive loop: the segment it holds is accepted or not.
LEMMA RxOwn ==
  ASSUME TypeInv, OwnTypes, OnceInv, OwnInv, AnswerLife <= ApduTimeout, RxStep
  PROVE  OwnInv'
<1>1. /\ RxLoop \in Agents /\ \A r : RxLoop # Caller(r)
      /\ NotFinishing.step = "none" /\ rx.id \in IDs /\ RxIdle.kind = "none"
      /\ tx \in [Requests -> TxSet] /\ ApduTimeout # 0
  BY AgentFacts, BoundsAssumption DEF NotFinishing, TypeInv, RxIdle
<1>2. rx # RxIdle
  BY Zenon, <1>1 DEF RxStep, AcceptFirst, AcceptNoFirst, AcceptOutOfOrder, AcceptOverLimit,
     AcceptMore, AcceptLast
<1>3. fin[RxLoop] = NotFinishing /\ Owns(rx.from, rx.id)
  BY Zenon, <1>2 DEF OnceInv, Finishers, OwnInv, FromIsOwn
<1>4. /\ ~Answer(Plain("protocol")) /\ ~Answer(Plain("segAbort"))
      /\ FromPeer("ack", rx.from).from = rx.from
  BY Zenon, LocalIsNoAnswer DEF LocalKinds, FromPeer
<1>5. /\ rx' = RxIdle
      /\ UNCHANGED <<pc, id, outcome, inUse, reserved, quarantine, bare, closer, snd, sendActive>>
      /\ wire' = wire \/ wire' = [wire EXCEPT ![rx.from] = AnswerLife]
  BY ZenonT(30) DEF RxStep, AcceptFirst, AcceptNoFirst, AcceptOutOfOrder, AcceptOverLimit,
     AcceptMore, AcceptLast, Heard, callerVars, mgrVars, segVars, netVars
<1>6. \A q \in Requests : tx'[q].result = tx[q].result
  <2>1. CASE AcceptFirst
    <3> DEFINE t == inUse[rx.id]
    <3>1. CASE t # NoReq
      <4>1. t \in Requests
        BY Zenon, <1>1, <3>1, OwnerFacts
      <4>2. tx' = [tx EXCEPT ![t] = [tx[t] EXCEPT !.phase = "receiving", !.retries = 0,
                                                  !.timer = Off]]
        BY Zenon, <2>1, <3>1 DEF AcceptFirst
      <4>3. [tx[t] EXCEPT !.phase = "receiving", !.retries = 0, !.timer = Off].result
              = tx[t].result
        BY <1>1, <4>1, ResultKept
      <4> QED BY Zenon, <1>1, <4>1, <4>2, <4>3
    <3> QED BY Zenon, <2>1, <3>1 DEF AcceptFirst
  <2> QED BY Zenon, <2>1 DEF RxStep, AcceptNoFirst, AcceptOutOfOrder, AcceptOverLimit,
             AcceptMore, AcceptLast
<1>7. \/ UNCHANGED fin
      \/ \E res : /\ Answer(res) => res.from = rx.from
                  /\ fin' = [fin EXCEPT ![RxLoop] = Finish(rx.id, res, ApduTimeout)]
  BY ZenonT(30), <1>4 DEF RxStep, AcceptFirst, AcceptNoFirst, AcceptOutOfOrder, AcceptOverLimit,
     AcceptMore, AcceptLast, RxFinish
<1>8. CASE UNCHANGED fin
  BY Zenon, <1>3, <1>5, <1>6, <1>8, NothingOwn DEF Closed
<1>9. ASSUME NEW res, Answer(res) => res.from = rx.from,
             fin' = [fin EXCEPT ![RxLoop] = Finish(rx.id, res, ApduTimeout)]
      PROVE  OwnInv'
  BY Zenon, <1>1, <1>3, <1>5, <1>6, <1>9, AgentEntersOwn
<1> QED BY Zenon, <1>7, <1>8, <1>9

\* enterSendingSegments finds its own transaction and becomes the sender.
LEMMA SenderEnters ==
  ASSUME TypeInv, OwnTypes, OnceInv, OwnInv, NEW r \in Requests, r \in Segmented,
         pc[r] = "registered", pc' = [pc EXCEPT ![r] = "sending"],
         inUse[id[r]] # NoReq,
         sendActive' = [sendActive EXCEPT ![id[r]] = r],
         UNCHANGED <<id, inUse, quarantine, bare, fin, closer>>
  PROVE  SenderIsOwn' /\ SenderIsHeld'
<1>1. /\ id[r] \in IDs /\ sendActive'[id[r]] = r
      /\ \A i \in IDs : i # id[r] => sendActive'[i] = sendActive[i]
      /\ pc'[r] = "sending" /\ \A q \in Requests : q # r => pc'[q] = pc[q]
  BY Zenon DEF TypeInv, OwnTypes
<1>2. quarantine[id[r]] # ApduTimeout
  BY <1>1, BoundsAssumption DEF OwnInv, FreeIsClear
<1>3. inUse[id[r]] = r \/ (Closed /\ id[r] \in bare)
  BY Zenon, <1>2 DEF OwnInv, BusyIsHeld, Busy, Held
<1>4. ~Locks(r)
  BY Zenon DEF Locks, OnceInv, Finishers
<1>5. \A q \in Requests : (Registered(q) => Registered(q)') /\ (Locks(q)' <=> Locks(q))
  BY Zenon, <1>1 DEF Registered, Locks
<1>6. Registered(r)
  BY Zenon DEF Registered
<1>7. ASSUME NEW i \in IDs, NEW s \in Requests, sendActive'[i] = s
      PROVE  /\ id[s] = i /\ Registered(s)' /\ s \in Segmented /\ pc'[s] # "registered"
             /\ Locks(s)' => fin[Caller(s)].hold # 0 \/ Closed
  <2>1. CASE i = id[r]
    BY Zenon, <1>1, <1>4, <1>5, <1>6, <1>7, <2>1
  <2>2. CASE i # id[r]
    <3>1. sendActive[i] = s
      BY Zenon, <1>1, <1>7, <2>2
    <3>2. /\ id[s] = i /\ Registered(s) /\ s \in Segmented /\ pc[s] # "registered"
          /\ Locks(s) => fin[Caller(s)].hold # 0 \/ Closed
      BY Zenon, <3>1 DEF OwnInv, SenderIsOwn
    <3> QED BY Zenon, <1>1, <1>5, <3>2
  <2> QED BY Zenon, <2>1, <2>2
<1>8. SenderIsHeld'
  <2>1. \A i : Cleaning(i)' <=> Cleaning(i)
    BY Zenon DEF Cleaning
  <2> QED BY Zenon, <1>1, <1>3, <2>1 DEF OwnInv, SenderIsHeld, Closed
<1> QED BY Zenon, <1>7, <1>8 DEF SenderIsOwn, Closed

\* The caller's steps between register and return.
LEMMA CallerOwn ==
  ASSUME TypeInv, OwnTypes, OnceInv, OwnInv, AnswerLife <= ApduTimeout, NEW r \in Requests,
         \/ Send(r) \/ SegmentsTooLarge(r) \/ enterSendingSegments(r)
         \/ SendWindow(r) \/ AckProgress(r) \/ SendGivesUp(r)
         \/ enterAwaitingResponse(r) \/ Cancel(r) \/ CloseSeen(r)
         \/ TimerFires(r) \/ onTimeout(r) \/ Retransmit(r)
  PROVE  OwnInv'
<1> DEFINE t == inUse[id[r]]
           Same == \A q \in Requests : tx'[q].result = tx[q].result
           Rest == UNCHANGED <<id, outcome, inUse, reserved, quarantine, bare, rx, closer>>
<1>1. /\ tx \in [Requests -> TxSet] /\ id[r] \in IDs
      /\ t # NoReq => t \in Requests
      /\ ApduTimeout # 0
  BY OwnerFacts, BoundsAssumption DEF TypeInv
<1>2. Busy(r) => Held(r)
  BY Zenon DEF OwnInv, BusyIsHeld
<1>3. Registered(r) /\ Held(r) => Owns(r, id[r])
  BY Zenon DEF Owns, Held, Kept
<1>4. \A k \in LocalKinds : /\ ~Answer(Plain(k)) /\ ~Answer(wrapOutcomeUnknown(r, k))
                            /\ ~Answer(maybeUnknown(r, k))
  BY Zenon, LocalIsNoAnswer
<1>5. Rest
  BY ZenonT(30) DEF Send, SegmentsTooLarge, enterSendingSegments, SendWindow, AckProgress,
     SendGivesUp, enterAwaitingResponse, Cancel, CloseSeen, TimerFires, onTimeout, Retransmit,
     callerVars, mgrVars
<1>6. CASE Send(r)
  <2>1. Same
    BY Zenon, <1>1, <1>6, ResultKept DEF Send
  <2>2. /\ pc[r] = "registered" /\ r \notin Segmented
        /\ wire' = [wire EXCEPT ![r] = AnswerLife]
        /\ UNCHANGED <<snd, sendActive>>
        /\ \/ pc' = [pc EXCEPT ![r] = "wait"] /\ UNCHANGED fin
           \/ EndWith(r, wrapOutcomeUnknown(r, "sendFailed"), 0)
    BY Zenon, <1>6 DEF Send, Goto, segVars
  <2>3. Registered(r) /\ Held(r) /\ pc[r] \in LivePCs /\ Owns(r, id[r])
    BY Zenon, <1>2, <1>3, <2>2 DEF Busy, Registered, LivePCs
  <2>4. CASE pc' = [pc EXCEPT ![r] = "wait"] /\ UNCHANGED fin
    BY Zenon, <1>5, <2>1, <2>2, <2>3, <2>4, CallerGoesOwn
  <2>5. CASE EndWith(r, wrapOutcomeUnknown(r, "sendFailed"), 0)
    <3>1. ~Answer(wrapOutcomeUnknown(r, "sendFailed"))
      BY Zenon, <1>4 DEF LocalKinds
    <3> QED BY Zenon, <1>5, <2>1, <2>2, <2>3, <2>5, <3>1, CallerEndsOwn
  <2> QED BY Zenon, <2>2, <2>4, <2>5
<1>7. CASE SegmentsTooLarge(r)
  <2>1. /\ pc[r] = "registered" /\ EndWith(r, Plain("tooLarge"), 0)
        /\ UNCHANGED <<tx, snd, sendActive, wire>> /\ ~Answer(Plain("tooLarge"))
    BY Zenon, <1>4, <1>7 DEF SegmentsTooLarge, segVars, netVars, LocalKinds
  <2>2. Held(r) /\ pc[r] \in LivePCs
    BY Zenon, <1>2, <2>1 DEF Busy, LivePCs
  <2> QED BY Zenon, <1>5, <2>1, <2>2, CallerEndsOwn
<1>8. CASE enterSendingSegments(r)
  <2>1. pc[r] = "registered" /\ r \in Segmented /\ UNCHANGED <<fin, wire>>
    BY Zenon, <1>8 DEF enterSendingSegments, netVars
  <2>2. Held(r) /\ ~Locks(r)
    BY Zenon, <1>2, <2>1 DEF Busy, Locks, OnceInv, Finishers
  <2>3. CASE t = NoReq
    <3>1. pc' = [pc EXCEPT ![r] = "lost"] /\ UNCHANGED <<tx, snd, sendActive>>
      BY Zenon, <1>8, <2>3 DEF enterSendingSegments, Goto
    <3> QED BY Zenon, <1>5, <2>1, <2>2, <3>1, CallerGoesOwn
  <2>4. CASE t # NoReq
    <3>1. Same
      <4>1. [tx[t] EXCEPT !.phase = "sending", !.retries = 0, !.timer = Off].result
              = tx[t].result
        BY <1>1, <2>4, ResultKept
      <4>2. tx' = [tx EXCEPT ![t] = [tx[t] EXCEPT !.phase = "sending", !.retries = 0,
                                       !.timer = Off]]
        BY Zenon, <1>8, <2>4 DEF enterSendingSegments
      <4> QED BY Zenon, <1>1, <2>4, <4>1, <4>2
    <3>2. /\ pc' = [pc EXCEPT ![r] = "sending"]
          /\ sendActive' = [sendActive EXCEPT ![id[r]] = r]
          /\ \A q \in Requests : q # r => snd'[q] = snd[q]
      BY Zenon, <1>8, <2>4 DEF enterSendingSegments, Goto, OwnTypes
    <3>3. SenderIsOwn' /\ SenderIsHeld'
      BY Zenon, <1>5, <2>1, <2>4, <3>2, SenderEnters
    <3> QED BY Zenon, <1>5, <2>1, <2>2, <3>1, <3>2, <3>3, CallerGoesOwn
  <2> QED BY Zenon, <2>3, <2>4
<1>9. CASE SendWindow(r)
  <2>1. Same
    BY Zenon, <1>1, <1>9, ResultKept DEF SendWindow
  <2>2. /\ pc[r] = "sending" /\ wire' = [wire EXCEPT ![r] = AnswerLife]
        /\ UNCHANGED sendActive
        /\ \/ /\ pc' = [pc EXCEPT ![r] = "sendWait"] /\ UNCHANGED fin
              /\ snd' = [snd EXCEPT ![r].timer = SegTimeout]
           \/ /\ EndWith(r, wrapOutcomeUnknown(r, "sendFailed"), ApduTimeout)
              /\ UNCHANGED snd
    BY Zenon, <1>9 DEF SendWindow, Goto
  <2>3. Registered(r) /\ Held(r) /\ pc[r] \in LivePCs /\ Owns(r, id[r])
    BY Zenon, <1>2, <1>3, <2>2 DEF Busy, Registered, LivePCs
  <2>4. CASE /\ pc' = [pc EXCEPT ![r] = "sendWait"] /\ UNCHANGED fin
             /\ snd' = [snd EXCEPT ![r].timer = SegTimeout]
    <3>1. \A q \in Requests : q # r => snd'[q] = snd[q]
      BY Zenon, <2>4 DEF OwnTypes
    <3> QED BY Zenon, <1>5, <2>1, <2>2, <2>3, <2>4, <3>1, CallerGoesOwn
  <2>5. CASE /\ EndWith(r, wrapOutcomeUnknown(r, "sendFailed"), ApduTimeout)
             /\ UNCHANGED snd
    <3>1. ~Answer(wrapOutcomeUnknown(r, "sendFailed"))
      BY Zenon, <1>4 DEF LocalKinds
    <3> QED BY Zenon, <1>1, <1>5, <2>1, <2>2, <2>3, <2>5, <3>1, CallerEndsOwn
  <2> QED BY Zenon, <2>2, <2>4, <2>5
<1>10. CASE AckProgress(r)
  <2>1. /\ pc[r] = "sendWait" /\ snd[r].ack /\ UNCHANGED <<tx, sendActive, fin, wire>>
        /\ \E l \in {"acked", "sending"} : pc' = [pc EXCEPT ![r] = l]
        /\ \A q \in Requests : q # r => snd'[q] = snd[q]
    BY Zenon, <1>10 DEF AckProgress, Goto, netVars, OwnTypes
  <2>2. Held(r)
    BY Zenon, <1>2, <2>1 DEF Busy
  <2> QED BY Zenon, <1>5, <2>1, <2>2, CallerGoesOwn
<1>11. CASE SendGivesUp(r) \/ Cancel(r)
  <2>1. /\ pc[r] \in LivePCs /\ UNCHANGED <<tx, snd, sendActive, wire>>
    BY ZenonT(30), <1>11 DEF SendGivesUp, Cancel, segVars, netVars, LivePCs
  <2>2. \E res : EndWith(r, res, ApduTimeout) /\ ~Answer(res)
    BY ZenonT(30), <1>4, <1>11 DEF SendGivesUp, Cancel, LocalKinds
  <2> QED BY Zenon, <1>1, <1>5, <2>1, <2>2, CallerEndsOwn
<1>12. CASE CloseSeen(r)
  <2>1. /\ pc[r] = "wait" /\ Closed /\ EndWith(r, maybeUnknown(r, "closed"), 0)
        /\ UNCHANGED <<tx, snd, sendActive, wire>> /\ ~Answer(maybeUnknown(r, "closed"))
    BY Zenon, <1>4, <1>12 DEF CloseSeen, segVars, netVars, LocalKinds
  <2>2. Held(r) /\ pc[r] \in LivePCs
    BY Zenon, <1>2, <2>1 DEF Busy, LivePCs
  <2> QED BY Zenon, <1>5, <2>1, <2>2, CallerEndsOwn
<1>13. CASE enterAwaitingResponse(r)
  <2>1. /\ pc[r] = "acked" /\ UNCHANGED <<fin, wire, snd>>
        /\ \E l \in {"lost", "wait"} : pc' = [pc EXCEPT ![r] = l]
        /\ \A i \in IDs : sendActive'[i] = sendActive[i] \/ sendActive'[i] = NoReq
    BY Zenon, <1>13 DEF enterAwaitingResponse, Goto, netVars, OwnTypes
  <2>2. Held(r)
    BY Zenon, <1>2, <2>1 DEF Busy
  <2>3. Same
    <3>1. CASE t # NoReq
      <4>1. [tx[t] EXCEPT !.phase = "initial", !.timer = ApduTimeout].result
              = tx[t].result
        BY <1>1, <3>1, ResultKept
      <4>2. tx' = [tx EXCEPT ![t] = [tx[t] EXCEPT !.phase = "initial",
                                       !.timer = ApduTimeout]]
        BY Zenon, <1>13, <3>1 DEF enterAwaitingResponse
      <4> QED BY Zenon, <1>1, <3>1, <4>1, <4>2
    <3> QED BY Zenon, <1>13, <3>1 DEF enterAwaitingResponse
  <2> QED BY Zenon, <1>5, <2>1, <2>2, <2>3, CallerGoesOwn
<1>14. CASE TimerFires(r) \/ Retransmit(r)
  <2>1. Same
    <3>1. \E d : tx' = [tx EXCEPT ![r].timer = d]
      BY Zenon, <1>14 DEF TimerFires, Retransmit
    <3> QED BY <1>1, <3>1, ResultKept
  <2>2. /\ pc[r] \in {"wait", "resend"} /\ UNCHANGED <<fin, snd, sendActive>>
        /\ \E l \in {"expired", "wait"} : pc' = [pc EXCEPT ![r] = l]
        /\ wire' = wire \/ wire' = [wire EXCEPT ![r] = AnswerLife]
    BY Zenon, <1>14 DEF TimerFires, Retransmit, Goto, segVars, netVars
  <2>3. Held(r) /\ Registered(r) /\ Owns(r, id[r]) /\ pc[r] # "deferred"
    BY Zenon, <1>2, <1>3, <2>2 DEF Busy, Registered
  <2> QED BY Zenon, <1>5, <2>1, <2>2, <2>3, CallerGoesOwn
<1>15. CASE onTimeout(r)
  <2>1. Same
    <3>1. t # NoReq => [tx[t] EXCEPT !.retries = @ - 1].result = tx[t].result
      BY Zenon, <1>1, ResultKept
    <3>2. \/ UNCHANGED tx
          \/ t # NoReq /\ tx' = [tx EXCEPT ![t].retries = @ - 1]
      BY Zenon, <1>15 DEF onTimeout
    <3> QED BY Zenon, <1>1, <3>1, <3>2
  <2>2. /\ pc[r] = "expired" /\ UNCHANGED <<snd, sendActive, wire>>
        /\ \/ EndWith(r, maybeUnknown(r, "timeout"), ApduTimeout)
           \/ UNCHANGED fin /\ \E l \in {"wait", "resend", "lost"} : pc' = [pc EXCEPT ![r] = l]
    BY Zenon, <1>15 DEF onTimeout, Goto, segVars, netVars
  <2>3. Held(r) /\ pc[r] \in LivePCs /\ ~Answer(maybeUnknown(r, "timeout"))
    BY Zenon, <1>2, <1>4, <2>2 DEF Busy, LivePCs, LocalKinds
  <2>4. CASE EndWith(r, maybeUnknown(r, "timeout"), ApduTimeout)
    BY Zenon, <1>1, <1>5, <2>1, <2>2, <2>3, <2>4, CallerEndsOwn
  <2>5. ASSUME UNCHANGED fin, NEW l \in {"wait", "resend", "lost"}, pc' = [pc EXCEPT ![r] = l]
        PROVE  OwnInv'
    BY Zenon, <1>5, <2>1, <2>2, <2>3, <2>5, CallerGoesOwn
  <2> QED BY Zenon, <2>2, <2>4, <2>5
<1> QED BY Zenon, <1>6, <1>7, <1>8, <1>9, <1>10, <1>11, <1>12, <1>13, <1>14, <1>15

\* TakeResult and Deferred: the caller returns.
LEMMA ReturnOwn ==
  ASSUME TypeInv, OwnTypes, OnceInv, OwnInv, AnswerLife <= ApduTimeout,
         NEW r \in Requests, TakeResult(r) \/ Deferred(r)
  PROVE  OwnInv'
<1>1. /\ pc[r] \in {"wait", "lost", "deferred"}
      /\ UNCHANGED <<id, inUse, reserved, quarantine, bare, fin, rx, closer, wire>>
      /\ \A q \in Requests : q # r => /\ tx'[q] = tx[q] /\ outcome'[q] = outcome[q]
                                      /\ snd'[q] = snd[q] /\ pc'[q] = pc[q]
      /\ \A i \in IDs : sendActive'[i] = sendActive[i] \/ sendActive'[i] = NoReq
  BY ZenonT(30) DEF TakeResult, Deferred, Return, Goto, mgrVars, segVars, netVars, TypeInv, OwnTypes
<1>2. /\ pc'[r] \in {"deferred", "done"}
      /\ \/ outcome'[r] = tx[r].result /\ pc'[r] = "deferred"
         \/ outcome'[r] = NoResult
      /\ ~Answer(tx'[r].result)
  <2>1. ~Answer(NoResult)
    BY DEF Answer, NoResult
  <2>2. CASE TakeResult(r)
    <3>1. tx'[r].result = NoResult
      BY Zenon, <2>2 DEF TakeResult, TypeInv, TxSet
    <3> QED BY Zenon, <2>1, <2>2, <3>1 DEF TakeResult, Return, TypeInv, OwnTypes
  <2>3. CASE Deferred(r)
    <3>1. tx'[r].result = NoResult
      BY Zenon, <2>3 DEF Deferred, TypeInv, NoTx
    <3> QED BY Zenon, <2>1, <2>3, <3>1 DEF Deferred, Goto, TypeInv, OwnTypes
  <2> QED BY Zenon, <2>2, <2>3
<1>3. ~Answer(NoResult)
  BY DEF Answer, NoResult
<1>4. \A q \in Requests : Registered(q) => Registered(q)'
  BY Zenon, <1>1, <1>2 DEF Registered
<1>5. ~Locks(r)
  BY Zenon, <1>1 DEF Locks, OnceInv, Finishers
<1>6. \A q \in Requests : Busy(q)' => Busy(q)
  BY Zenon, <1>1, <1>2, <1>5 DEF Busy, Locks
<1>7. \A q \in Requests : /\ ~Answer(fin'[Caller(q)].res)
                          /\ Answer(outcome'[q]) =>
                               /\ outcome'[q] = outcome[q] \/ Mine(outcome'[q], q)
                               /\ pc'[q] = "deferred"
  BY Zenon, <1>1, <1>2, <1>3 DEF OwnInv, ResultIsOwn
<1>8. SenderIsOwn' /\ SenderIsHeld'
  <2>1. \A q \in Requests : pc'[q] = "registered" => pc[q] = "registered"
    BY Zenon, <1>1, <1>2
  <2> QED BY Zenon, <1>1, <1>4, <2>1, SendersStand DEF OwnInv, Closed
<1> QED BY Zenon, <1>1, <1>2, <1>4, <1>6, <1>7, <1>8, OwnStands DEF Closed

\* CallerPublishes and OtherPublishes.
LEMMA PublishOwn ==
  ASSUME TypeInv, OwnTypes, OnceInv, OwnInv, AnswerLife <= ApduTimeout,
         NEW a \in Agents, Publish(a),
         \/ \E r \in Requests : a = Caller(r) /\ CallerPublishes(r)
         \/ OtherPublishes(a)
  PROVE  OwnInv'
<1> DEFINE t == fin[a].tx
<1>1. /\ t \in Owner /\ fin[a].step = "publish" /\ fin[a].id \in IDs
      /\ UNCHANGED <<id, inUse, reserved, quarantine, bare, snd, rx, closer, wire>>
      /\ fin' = [fin EXCEPT ![a] = NotFinishing]
      /\ sendActive' = [sendActive EXCEPT ![fin[a].id] = NoReq]
  BY Zenon DEF Publish, FinSet, TypeInv, mgrVars, netVars
<1>2. /\ fin'[a] = NotFinishing /\ NotFinishing.step = "none" /\ ~Answer(NotFinishing.res)
      /\ \A b \in Agents : b # a => fin'[b] = fin[b]
      /\ sendActive'[fin[a].id] = NoReq
      /\ \A i \in IDs : sendActive'[i] = sendActive[i] \/ sendActive'[i] = NoReq
  BY <1>1 DEF NotFinishing, NoResult, Answer, TypeInv, OwnTypes
<1>3. /\ \A q \in Requests : pc'[q] # pc[q] => pc[q] = "finishing" /\ pc'[q] \in {"lost", "deferred"}
      /\ \A q \in Requests : outcome'[q] # outcome[q] => outcome'[q] = fin[Caller(q)].res
  <2>1. CASE OtherPublishes(a)
    BY Zenon, <2>1 DEF OtherPublishes
  <2>2. ASSUME NEW r \in Requests, a = Caller(r), CallerPublishes(r)
        PROVE  /\ \A q \in Requests : pc'[q] # pc[q] => pc[q] = "finishing" /\ pc'[q] \in {"lost", "deferred"}
               /\ \A q \in Requests : outcome'[q] # outcome[q] => outcome'[q] = fin[Caller(q)].res
    <3>1. pc[r] = "finishing"
      BY Zenon, <1>1, <2>2 DEF OnceInv, Finishers
    <3>2. /\ UNCHANGED outcome \/ outcome' = [outcome EXCEPT ![r] = fin[Caller(r)].res]
          /\ \E l \in {"lost", "deferred"} : pc' = [pc EXCEPT ![r] = l]
      BY Zenon, <2>2 DEF CallerPublishes, Goto, Return
    <3> QED BY Zenon, <3>1, <3>2 DEF TypeInv, OwnTypes
  <2> QED BY Zenon, <2>1, <2>2
<1>4. \A q \in Requests : Registered(q) => Registered(q)'
  BY Zenon, <1>3 DEF Registered
<1>5. \A q \in Requests : fin'[Caller(q)] = fin[Caller(q)] \/ fin'[Caller(q)] = NotFinishing
  BY Zenon, <1>2, AgentFacts
<1>6. \A q \in Requests : Busy(q)' => Busy(q)
  BY Zenon, <1>1, <1>2, <1>3, <1>5 DEF Busy, Locks
<1>7. \A q \in Requests : ~Answer(fin[Caller(q)].res) /\ ~Answer(fin'[Caller(q)].res)
  BY Zenon, <1>2, <1>5 DEF OwnInv, ResultIsOwn
<1>8. \A q \in Requests : Answer(outcome'[q]) => outcome'[q] = outcome[q] /\ pc'[q] = "deferred"
  BY Zenon, <1>3, <1>7 DEF OwnInv, ResultIsOwn
<1>9. \A q \in Requests : Answer(tx'[q].result) =>
           tx'[q].result = tx[q].result \/ Mine(tx'[q].result, q)
  <2>1. \A q \in Requests : q # t => tx'[q] = tx[q]
    BY Zenon, <1>1 DEF Publish, Owner, TypeInv
  <2>2. ASSUME t \in Requests
        PROVE  tx'[t].result = fin[a].res \/ tx'[t].result = tx[t].result
    <3>1. tx' = [tx EXCEPT ![t] = Published(tx[t], fin[a].res)] /\ tx[t] \in TxSet
      BY Zenon, <2>2, RequestsAssumption DEF Publish, TypeInv
    <3> QED BY Zenon, <2>2, <3>1, PublishedFacts DEF TypeInv
  <2>3. ASSUME t \in Requests, Answer(fin[a].res) PROVE Mine(fin[a].res, t)
    BY Zenon, <1>1, <2>3 DEF OwnInv, ResultIsOwn, Takes
  <2> HIDE DEF t
  <2> QED BY Zenon, <2>1, <2>2, <2>3
<1>10. /\ \A b \in Agents : fin'[b].step = "publish" => fin'[b] = fin[b]
       /\ \A b \in Agents : fin'[b].step = "lock" /\ Answer(fin'[b].res) => fin'[b] = fin[b]
       /\ \A b \in Agents : fin'[b].step = "lock" => fin'[b] = fin[b]
       /\ \A b \in Agents : fin[b].step = "publish" =>
            fin'[b] = fin[b] \/ sendActive'[fin[b].id] = NoReq
  BY Zenon, <1>2
<1>11. SenderIsOwn' /\ SenderIsHeld'
  <2>1. \A q \in Requests : pc'[q] = "registered" => pc[q] = "registered"
    BY Zenon, <1>3
  <2>2. \A s \in Segmented : Locks(s)' => fin'[Caller(s)] = fin[Caller(s)]
    BY Zenon, <1>2, <1>5, RequestsAssumption DEF Locks
  <2> QED BY Zenon, <1>1, <1>2, <1>4, <1>10, <2>1, <2>2, SendersStand DEF OwnInv, Closed
<1> HIDE DEF t
<1> QED BY Zenon, <1>1, <1>4, <1>6, <1>7, <1>8, <1>9, <1>10, <1>11, OwnStands DEF Closed

\* The conjuncts of ResultIsOwn when results and callers stand still.
LEMMA ResultsStand ==
  ASSUME OwnInv, UNCHANGED <<tx, outcome, pc, fin>>,
         \A r \in Requests : \A res : Mine(res, r) => Mine(res, r)'
  PROVE  ResultIsOwn'
<1>1. \A a \in Agents : \A t \in Requests : Takes(a, t)' <=> Takes(a, t)
  BY Zenon DEF Takes
<1> QED BY Zenon, <1>1 DEF OwnInv, ResultIsOwn

\* tryAllocLocked.
LEMMA AllocateOwn ==
  ASSUME TypeInv, OwnTypes, OnceInv, OwnInv, NEW r \in Requests, Allocate(r)
  PROVE  OwnInv'
<1>1. PICK n : /\ reserved' = reserved \cup {n} /\ id' = [id EXCEPT ![r] = n]
               /\ n \in IDs /\ Free(n)
  <2>1. PICK k \in 0 .. NumIDs - 1 :
          /\ Free(Scan(k))
          /\ reserved' = reserved \cup {Scan(k)}
          /\ id' = [id EXCEPT ![r] = Scan(k)]
    BY Zenon DEF Allocate, tryAllocLocked
  <2>2. k \in Nat
    OBVIOUS
  <2>3. Scan(k) \in IDs
    BY Zenon, <2>2, ScanInIDs DEF TypeInv
  <2> QED BY Zenon, <2>1, <2>3
<1>2. /\ pc[r] \in {"alloc", "allocWait"} /\ pc' = [pc EXCEPT ![r] = "reserved"]
      /\ UNCHANGED <<outcome, tx, inUse, quarantine, bare, fin, rx, closer, wire, snd, sendActive>>
      /\ inUse[n] = NoReq /\ n \notin reserved /\ quarantine[n] = 0
  BY Zenon, <1>1 DEF Allocate, tryAllocLocked, Goto, Free, segVars, netVars
<1>3. /\ ~Registered(r) /\ ~Registered(r)'
      /\ \A q \in Requests : q # r => id'[q] = id[q] /\ pc'[q] = pc[q]
      /\ pc'[r] = "reserved"
  BY SMTT(30), <1>1, <1>2 DEF Registered, TypeInv
<1>4. ~Busy(r)' /\ ~Locks(r)
  BY Zenon, <1>2, <1>3 DEF Busy, Locks, OnceInv, Finishers
<1>5. \A q \in Requests : q # r =>
        /\ Registered(q)' <=> Registered(q)
        /\ Busy(q)' <=> Busy(q)
        /\ Held(q)' <=> Held(q)
        /\ Kept(q)' <=> Kept(q)
        /\ \A res : Mine(res, q)' <=> Mine(res, q)
  BY Zenon, <1>2, <1>3 DEF Registered, Busy, Locks, Held, Kept, Mine, Closed
<1>6. \A q : \A i : Owns(q, i) => Owns(q, i)'
  BY Zenon, <1>3, <1>5 DEF Owns
<1>7. FreeIsClear' /\ HoldIsWhole'
  BY Zenon, <1>1, <1>2 DEF OwnInv, FreeIsClear, HoldIsWhole
<1>8. BusyIsHeld'
  BY Zenon, <1>4, <1>5 DEF OwnInv, BusyIsHeld
<1>9. SenderIsOwn'
  <2> SUFFICES ASSUME NEW i \in IDs, NEW s \in Requests, sendActive[i] = s
               PROVE  /\ id'[s] = i /\ Registered(s)' /\ s \in Segmented /\ pc'[s] # "registered"
                      /\ Locks(s)' => fin'[Caller(s)].hold # 0 \/ Closed'
    BY Zenon, <1>2 DEF SenderIsOwn
  <2>1. /\ id[s] = i /\ Registered(s) /\ s \in Segmented /\ pc[s] # "registered"
        /\ Locks(s) => fin[Caller(s)].hold # 0 \/ Closed
    BY Zenon DEF OwnInv, SenderIsOwn
  <2> QED BY Zenon, <1>2, <1>3, <1>5, <2>1 DEF Locks, Closed
<1>10. SenderIsHeld'
  BY Zenon, <1>2 DEF OwnInv, SenderIsHeld, Cleaning, Closed
<1>11. LateIsHeld'
  BY Zenon, <1>2, <1>3, <1>5 DEF OwnInv, LateIsHeld
<1>12. FromIsOwn'
  BY Zenon, <1>2, <1>6 DEF OwnInv, FromIsOwn, Answer
<1>13. ResultIsOwn'
  <2>1. \A a \in Agents : \A t \in Requests : Takes(a, t)' => Takes(a, t) /\ t # r
    BY Zenon, <1>2, <1>3 DEF OnceInv, TakenIsGone, Takes
  <2>2. ~Answer(tx[r].result) /\ ~Answer(outcome[r])
    <3>1. ~Answer(NoResult)
      BY DEF Answer, NoResult
    <3>2. tx[r].result = NoResult
      BY Zenon, <1>3 DEF OnceInv, ResultIsLast
    <3> QED BY Zenon, <1>2, <3>1, <3>2 DEF OwnInv, ResultIsOwn
  <2>3. \A a \in Agents : \A t \in Requests :
          Takes(a, t)' /\ Answer(fin[a].res) => Mine(fin[a].res, t)'
    BY Zenon, <1>2, <1>5, <2>1 DEF OwnInv, ResultIsOwn
  <2>4. \A q \in Requests : q # r =>
          /\ Answer(tx[q].result) => Mine(tx[q].result, q)'
          /\ Answer(outcome[q]) => Mine(outcome[q], q)' /\ pc'[q] = "deferred"
    BY Zenon, <1>2, <1>3, <1>5 DEF OwnInv, ResultIsOwn
  <2>5. \A q \in Requests : ~Answer(fin[Caller(q)].res)
    BY Zenon DEF OwnInv, ResultIsOwn
  <2> QED BY Zenon, <1>2, <2>2, <2>3, <2>4, <2>5 DEF ResultIsOwn, Mine
<1> QED BY Zenon, <1>7, <1>8, <1>9, <1>10, <1>11, <1>12, <1>13 DEF OwnInv

\* register: the ID is out of quarantine, nothing of an earlier owner is left.
LEMMA RegisterOwn ==
  ASSUME TypeInv, OwnTypes, OnceInv, OwnInv, NEW r \in Requests, register(r)
  PROVE  OwnInv'
<1> DEFINE i == id[r]
<1>1. /\ pc[r] = "reserved" /\ pc' = [pc EXCEPT ![r] = "registered"]
      /\ reserved' = reserved \ {i}
      /\ inUse' = [inUse EXCEPT ![i] = r]
      /\ tx'[r].result = NoResult
      /\ \A q \in Requests : q # r => tx'[q] = tx[q]
      /\ UNCHANGED <<id, outcome, quarantine, bare, snd, sendActive, fin, rx, closer, wire>>
  BY Zenon DEF register, Goto, TypeInv, segVars, netVars
<1>2. i \in IDs /\ i \in reserved /\ inUse[i] = NoReq
  BY Zenon, <1>1 DEF OnceInv, IDsExclusive, TypeInv
<1>3. quarantine[i] = 0 /\ ApduTimeout # 0
  BY <1>2, BoundsAssumption DEF OwnInv, FreeIsClear
<1>4. /\ inUse'[i] = r /\ pc'[r] = "registered" /\ ~Registered(r) /\ Registered(r)'
      /\ \A j \in IDs : j # i => inUse'[j] = inUse[j]
      /\ \A q \in Requests : q # r => pc'[q] = pc[q]
      /\ \A q \in Requests : id[q] \in IDs
  BY Zenon, <1>1, <1>2 DEF TypeInv, Registered
<1>5. \A q \in Requests : q # r =>
        /\ Registered(q)' <=> Registered(q)
        /\ Busy(q)' <=> Busy(q)
  BY Zenon, <1>1, <1>4 DEF Registered, Busy, Locks
<1>6. \A q \in Requests :
        /\ inUse[id[q]] = q => inUse'[id[q]] = q
        /\ Held(q) => Held(q)'
        /\ Kept(q) => Kept(q)'
        /\ \A res : Mine(res, q)' <=> Mine(res, q)
  BY Zenon, <1>1, <1>2, <1>4, RequestsAssumption DEF Held, Kept, Mine, Closed
<1>7. \A q : \A j : Owns(q, j) => Owns(q, j)'
  BY Zenon, <1>1, <1>4, <1>5, <1>6 DEF Owns
<1>8. FreeIsClear' /\ HoldIsWhole'
  BY Zenon, <1>1, <1>3, <1>4 DEF OwnInv, FreeIsClear, HoldIsWhole
<1>9. BusyIsHeld'
  <2>1. Held(r)'
    BY Zenon, <1>1, <1>4 DEF Held
  <2> QED BY Zenon, <1>5, <1>6, <2>1 DEF OwnInv, BusyIsHeld
<1>10. SenderIsOwn'
  <2> SUFFICES ASSUME NEW j \in IDs, NEW s \in Requests, sendActive[j] = s
               PROVE  /\ id'[s] = j /\ Registered(s)' /\ s \in Segmented /\ pc'[s] # "registered"
                      /\ Locks(s)' => fin'[Caller(s)].hold # 0 \/ Closed'
    BY Zenon, <1>1 DEF SenderIsOwn
  <2>1. /\ id[s] = j /\ Registered(s) /\ s \in Segmented /\ pc[s] # "registered"
        /\ Locks(s) => fin[Caller(s)].hold # 0 \/ Closed
    BY Zenon DEF OwnInv, SenderIsOwn
  <2> QED BY Zenon, <1>1, <1>4, <1>5, <2>1 DEF Locks, Closed
<1>11. SenderIsHeld'
  <2>1. \A j \in IDs : sendActive[j] # NoReq /\ j = i => Closed /\ i \in bare
    BY Zenon, <1>2, <1>3 DEF OwnInv, SenderIsHeld
  <2>2. \A j : Cleaning(j)' <=> Cleaning(j)
    BY Zenon, <1>1 DEF Cleaning
  <2>3. Closed' <=> Closed
    BY Zenon, <1>1 DEF Closed
  <2> HIDE DEF i
  <2> QED BY Zenon, <1>1, <1>4, <2>1, <2>2, <2>3 DEF OwnInv, SenderIsHeld
<1>12. LateIsHeld'
  <2>1. wire[r] = 0
    BY Zenon, <1>4 DEF OwnInv, LateIsHeld
  <2> QED BY Zenon, <1>1, <1>4, <1>5, <1>6, <2>1 DEF OwnInv, LateIsHeld
<1>13. FromIsOwn'
  BY Zenon, <1>1, <1>7 DEF OwnInv, FromIsOwn, Answer
<1>14. ResultIsOwn'
  <2>1. ~Answer(NoResult)
    BY DEF Answer, NoResult
  <2>2. \A a \in Agents : \A t \in Requests : Takes(a, t)' <=> Takes(a, t)
    BY Zenon, <1>1 DEF Takes
  <2>3. \A q \in Requests : Answer(outcome[q]) => pc'[q] = "deferred"
    BY Zenon, <1>1, <1>4 DEF OwnInv, ResultIsOwn
  <2>4. \A q \in Requests : Answer(tx'[q].result) => Mine(tx'[q].result, q)
    BY Zenon, <1>1, <2>1 DEF OwnInv, ResultIsOwn
  <2> QED BY Zenon, <1>1, <1>6, <2>2, <2>3, <2>4 DEF OwnInv, ResultIsOwn, Mine
<1> QED BY Zenon, <1>8, <1>9, <1>10, <1>11, <1>12, <1>13, <1>14 DEF OwnInv

\* complete: the transaction leaves, the quarantine begins.
LEMMA CompleteOwn ==
  ASSUME TypeInv, OwnTypes, OnceInv, OwnInv, AnswerLife <= ApduTimeout,
         NEW a \in Agents, complete(a)
  PROVE  OwnInv'
<1> DEFINE i == fin[a].id
           t == inUse[i]
           h == fin[a].hold
<1>1. /\ i \in IDs /\ t \in Owner /\ (h = 0 \/ h = ApduTimeout)
      /\ fin[a] \in FinSet
  BY Zenon DEF FinSet, TypeInv
<1>2. /\ fin[a].step = "lock"
      /\ fin' = [fin EXCEPT ![a] = [@ EXCEPT !.step = "publish", !.tx = t]]
      /\ inUse' = [inUse EXCEPT ![i] = NoReq]
      /\ UNCHANGED <<pc, id, outcome, tx, reserved, closer, rx, wire, snd, sendActive>>
  BY Zenon DEF complete, callerVars, segVars, netVars
<1>3. /\ fin'[a].step = "publish" /\ fin'[a].tx = t
      /\ fin'[a].id = i /\ fin'[a].res = fin[a].res
      /\ \A b \in Agents : b # a => fin'[b] = fin[b]
  BY Zenon, <1>1, <1>2 DEF FinSet, TypeInv
<1>4. ApduTimeout > 0 /\ ApduTimeout # 0 /\ ~(0 > 0)
  BY BoundsAssumption
<1>5. /\ inUse'[i] = NoReq /\ \A j \in IDs : j # i => inUse'[j] = inUse[j]
      /\ \A j \in IDs : j # i => quarantine'[j] = quarantine[j]
      /\ t = NoReq => quarantine'[i] = quarantine[i] /\ bare' = bare
      /\ t # NoReq => quarantine[i] = 0
      /\ t # NoReq /\ h # 0 => quarantine'[i] = ApduTimeout /\ bare' = bare
      /\ t # NoReq /\ h = 0 => i \in bare' /\ quarantine'[i] = 0
      /\ bare \subseteq bare' /\ bare' \subseteq bare \cup {i}
  <2>1. t # NoReq => quarantine[i] = 0
    BY Zenon, <1>1 DEF OwnInv, FreeIsClear
  <2>2. inUse'[i] = NoReq /\ \A j \in IDs : j # i => inUse'[j] = inUse[j]
    BY Zenon, <1>1, <1>2 DEF TypeInv
  <2>3. /\ quarantine' = IF t # NoReq /\ h > 0 THEN [quarantine EXCEPT ![i] = h] ELSE quarantine
        /\ bare' = IF t # NoReq /\ h = 0 THEN bare \cup {i} ELSE bare
    BY Zenon DEF complete
  <2> HIDE DEF i, t, h
  <2> QED BY Zenon, <1>1, <1>4, <2>1, <2>2, <2>3 DEF OwnTypes
<1> HIDE DEF i, t, h
<1>6. /\ \A q \in Requests : id[q] \in IDs
      /\ Closed' <=> Closed
      /\ \A q \in Requests : Registered(q)' <=> Registered(q)
  BY Zenon, <1>2 DEF TypeInv, Closed, Registered
<1>7. t # NoReq => t \in Requests /\ id[t] = i
  BY Zenon, <1>1 DEF OnceInv, InUseIsOwn, Owner, t
<1>8. \A q \in Requests : inUse[id[q]] = q /\ id[q] = i => t = q
  BY Zenon DEF t
<1>9. \A q \in Requests : /\ Kept(q) => Kept(q)'
                          /\ \A res : Mine(res, q) => Mine(res, q)'
  <2>1. ASSUME NEW q \in Requests, Kept(q) PROVE Kept(q)'
    <3>1. CASE id[q] # i
      BY Zenon, <1>2, <1>5, <1>6, <2>1, <3>1 DEF Kept
    <3>2. CASE id[q] = i /\ t = NoReq
      BY Zenon, <1>2, <1>5, <1>8, <2>1, <3>2, RequestsAssumption DEF Kept
    <3>3. CASE id[q] = i /\ t # NoReq
      BY Zenon, <1>1, <1>2, <1>5, <3>3 DEF Kept
    <3> QED BY Zenon, <3>1, <3>2, <3>3
  <2> QED BY Zenon, <1>2, <1>5, <2>1 DEF Mine
<1>10. \A q : \A j : Owns(q, j) => Owns(q, j)'
  BY Zenon, <1>2, <1>6, <1>9 DEF Owns
<1>11. ASSUME h = 0, t # NoReq
       PROVE  Closed \/ (a = Caller(t) /\ pc[t] = "finishing" /\ Locks(t))
  <2>1. PICK r \in Requests : a = Caller(r)
    BY Zenon, <1>2, <1>11 DEF OwnInv, HoldIsWhole, h
  <2>2. pc[r] = "finishing" /\ id[r] = i /\ Locks(r)
    BY Zenon, <1>2, <2>1 DEF OnceInv, Finishers, i, Locks
  <2>3. Held(r)
    BY Zenon, <1>11, <2>1, <2>2 DEF OwnInv, BusyIsHeld, Busy, h
  <2>4. quarantine[i] # ApduTimeout
    BY Zenon, <1>4, <1>5, <1>11
  <2> QED BY Zenon, <1>8, <2>1, <2>2, <2>3, <2>4 DEF Held
<1>12. /\ \A b \in Agents : fin'[b].step = "lock" => b # a /\ fin'[b] = fin[b]
       /\ \A b \in Agents : fin[b].step = "publish" => fin'[b] = fin[b]
       /\ \A q \in Requests : Locks(q)' => Locks(q) /\ Caller(q) # a
                                           /\ fin'[Caller(q)] = fin[Caller(q)]
       /\ \A q \in Requests : Busy(q)' => Busy(q)
  <2>1. /\ \A b \in Agents : fin'[b].step = "lock" => b # a /\ fin'[b] = fin[b]
        /\ \A b \in Agents : fin[b].step = "publish" => fin'[b] = fin[b]
    BY Zenon, <1>2, <1>3
  <2>2. \A q \in Requests : Locks(q)' => Locks(q) /\ Caller(q) # a
                                          /\ fin'[Caller(q)] = fin[Caller(q)]
    BY Zenon, <2>1, AgentFacts DEF Locks
  <2> QED BY Zenon, <1>2, <2>1, <2>2 DEF Busy
<1>13. FreeIsClear' /\ HoldIsWhole'
  <2>1. i \in reserved => t = NoReq
    BY Zenon DEF OnceInv, IDsExclusive, t
  <2>2. \A j \in IDs : inUse'[j] # NoReq \/ j \in reserved' => quarantine'[j] = 0
    BY Zenon, <1>2, <1>5, <2>1 DEF OwnInv, FreeIsClear
  <2> QED BY Zenon, <1>12, <2>2 DEF OwnInv, FreeIsClear, HoldIsWhole
<1>14. BusyIsHeld'
  <2> SUFFICES ASSUME NEW q \in Requests, Busy(q)' PROVE Held(q)'
    BY Zenon DEF BusyIsHeld
  <2>1. Held(q) /\ id'[q] = id[q] /\ id[q] \in IDs
    BY Zenon, <1>2, <1>6, <1>12 DEF OwnInv, BusyIsHeld
  <2>2. CASE id[q] # i
    BY Zenon, <1>5, <1>6, <2>1, <2>2 DEF Held
  <2>3. CASE id[q] = i /\ t = NoReq
    BY Zenon, <1>5, <1>6, <1>8, <2>1, <2>3, RequestsAssumption DEF Held
  <2>4. CASE id[q] = i /\ t # NoReq /\ h # 0
    BY Zenon, <1>5, <2>1, <2>4 DEF Held
  <2>5. CASE id[q] = i /\ t # NoReq /\ h = 0
    <3>1. CASE Closed
      BY Zenon, <1>5, <1>6, <2>1, <2>5, <3>1 DEF Held
    <3>2. CASE ~Closed
      <4>1. q = t
        BY Zenon, <1>4, <1>5, <1>8, <2>1, <2>5, <3>2 DEF Held
      <4>2. a = Caller(q) /\ pc[q] = "finishing"
        BY Zenon, <1>11, <2>5, <3>2, <4>1
      <4>3. ~Locks(q)'
        BY Zenon, <1>12, <4>2
      <4> QED BY Zenon, <1>2, <4>2, <4>3 DEF Busy
    <3> QED BY Zenon, <3>1, <3>2
  <2> QED BY Zenon, <2>2, <2>3, <2>4, <2>5
<1>15. SenderIsOwn'
  <2> SUFFICES ASSUME NEW j \in IDs, NEW s \in Requests, sendActive[j] = s
               PROVE  /\ id'[s] = j /\ Registered(s)' /\ s \in Segmented /\ pc'[s] # "registered"
                      /\ Locks(s)' => fin'[Caller(s)].hold # 0 \/ Closed'
    BY Zenon, <1>2 DEF SenderIsOwn
  <2>1. /\ id[s] = j /\ Registered(s) /\ s \in Segmented /\ pc[s] # "registered"
        /\ Locks(s) => fin[Caller(s)].hold # 0 \/ Closed
    BY Zenon DEF OwnInv, SenderIsOwn
  <2> QED BY Zenon, <1>2, <1>6, <1>12, <2>1
<1>16. SenderIsHeld'
  <2> SUFFICES ASSUME NEW j \in IDs, sendActive[j] # NoReq
               PROVE  \/ inUse'[j] = sendActive[j]
                      \/ Closed' /\ j \in bare'
                      \/ quarantine'[j] = ApduTimeout /\ Cleaning(j)'
    BY Zenon, <1>2 DEF SenderIsHeld
  <2>1. \/ inUse[j] = sendActive[j]
        \/ Closed /\ j \in bare
        \/ quarantine[j] = ApduTimeout /\ Cleaning(j)
    BY Zenon DEF OwnInv, SenderIsHeld
  <2>2. Cleaning(j) => Cleaning(j)'
    BY Zenon, <1>12 DEF Cleaning
  <2>3. CASE j # i
    BY Zenon, <1>5, <1>6, <2>1, <2>2, <2>3
  <2>4. CASE j = i /\ t = NoReq
    BY Zenon, <1>5, <1>6, <2>1, <2>2, <2>4 DEF t
  <2>5. CASE j = i /\ t # NoReq /\ h # 0
    <3>1. Cleaning(j)'
      BY Zenon, <1>3, <2>5 DEF Cleaning
    <3> QED BY Zenon, <1>5, <2>5, <3>1
  <2>6. CASE j = i /\ t # NoReq /\ h = 0
    <3>1. CASE ~Closed
      <4>1. sendActive[j] = t /\ a = Caller(t) /\ Locks(t)
        BY Zenon, <1>4, <1>5, <1>11, <2>1, <2>6, <3>1 DEF t
      <4>2. fin[Caller(t)].hold # 0
        BY Zenon, <1>7, <2>6, <3>1, <4>1 DEF OwnInv, SenderIsOwn
      <4> QED BY Zenon, <2>6, <4>1, <4>2 DEF h
    <3> QED BY Zenon, <1>5, <1>6, <2>6, <3>1
  <2> QED BY Zenon, <2>3, <2>4, <2>5, <2>6
<1>17. LateIsHeld'
  <2> SUFFICES ASSUME NEW q \in Requests, Registered(q)
               PROVE  \/ inUse'[id[q]] = q \/ id[q] \in bare'
                      \/ wire[q] <= quarantine'[id[q]]
    BY Zenon, <1>2, <1>6 DEF OwnInv, LateIsHeld
  <2>1. \/ inUse[id[q]] = q \/ id[q] \in bare
        \/ wire[q] <= quarantine[id[q]]
    BY Zenon DEF OwnInv, LateIsHeld
  <2>2. CASE id[q] # i
    BY Zenon, <1>5, <1>6, <2>1, <2>2
  <2>3. CASE id[q] = i /\ t = NoReq
    BY Zenon, <1>5, <1>8, <2>1, <2>3, RequestsAssumption
  <2>4. CASE id[q] = i /\ t # NoReq
    <3>1. wire[q] <= ApduTimeout
      BY BoundsAssumption DEF OwnTypes
    <3> QED BY Zenon, <1>1, <1>5, <2>4, <3>1
  <2> QED BY Zenon, <2>2, <2>3, <2>4
<1>18. FromIsOwn'
  BY Zenon, <1>2, <1>10, <1>12 DEF OwnInv, FromIsOwn, Answer
<1>19. ResultIsOwn'
  <2>1. ASSUME NEW b \in Agents, NEW q \in Requests, Takes(b, q)', Answer(fin[b].res)'
        PROVE  Mine(fin[b].res, q)'
    <3>1. CASE b # a
      <4>1. fin'[b] = fin[b] /\ Takes(b, q)
        BY Zenon, <1>3, <2>1, <3>1 DEF Takes
      <4>2. Mine(fin[b].res, q)
        BY Zenon, <2>1, <4>1 DEF OwnInv, ResultIsOwn
      <4> QED BY Zenon, <1>9, <4>1, <4>2
    <3>2. CASE b = a
      <4>1. q = t /\ Answer(fin[a].res) /\ fin'[b].res = fin[a].res
        BY Zenon, <1>3, <2>1, <3>2 DEF Takes
      <4>2. Owns(fin[a].res.from, i)
        BY Zenon, <1>2, <4>1 DEF OwnInv, FromIsOwn, i
      <4>3. t # NoReq /\ quarantine[i] # ApduTimeout
        BY Zenon, <1>4, <1>5, <4>1, RequestsAssumption
      <4>4. fin[a].res.from = q \/ i \in bare
        BY Zenon, <4>1, <4>2, <4>3 DEF Owns, Kept, t
      <4> QED BY Zenon, <1>2, <1>5, <1>7, <4>1, <4>3, <4>4 DEF Mine
    <3> QED BY Zenon, <3>1, <3>2
  <2>2. \A q \in Requests : ~Answer(fin'[Caller(q)].res)
    BY Zenon, <1>3, AgentFacts DEF OwnInv, ResultIsOwn
  <2>3. \A q \in Requests :
          /\ Answer(tx[q].result) => Mine(tx[q].result, q)
          /\ Answer(outcome[q]) => Mine(outcome[q], q) /\ pc[q] = "deferred"
    BY Zenon DEF OwnInv, ResultIsOwn
  <2>4. \A q \in Requests :
          /\ Answer(tx'[q].result) => Mine(tx[q].result, q)'
          /\ Answer(outcome'[q]) => Mine(outcome[q], q)' /\ pc'[q] = "deferred"
    BY Zenon, <1>2, <1>9, <2>3
  <2> QED BY Zenon, <2>1, <2>2, <2>4 DEF ResultIsOwn, Answer
<1> QED BY Zenon, <1>13, <1>14, <1>15, <1>16, <1>17, <1>18, <1>19 DEF OwnInv

\* abortAll releases every ID without quarantine, on a closed client.
LEMMA AbortAllOwn ==
  ASSUME TypeInv, OwnTypes, OnceInv, OwnInv, abortAll
  PROVE  OwnInv'
<1>1. /\ closer.step = "closed" /\ closer'.step = "publishing"
      /\ bare' = bare \cup {i \in IDs : inUse[i] # NoReq}
      /\ inUse' = [i \in IDs |-> NoReq]
      /\ UNCHANGED <<pc, id, outcome, tx, reserved, quarantine, snd, sendActive, fin, rx, wire>>
  BY Zenon DEF abortAll, callerVars, segVars, netVars
<1>2. Closed /\ Closed' /\ \A q \in Requests : id[q] \in IDs
  BY Zenon, <1>1 DEF Closed, TypeInv
<1>3. \A q \in Requests : /\ inUse[id[q]] = q => id[q] \in bare'
                          /\ id[q] \in bare => id[q] \in bare'
  BY Zenon, <1>1, <1>2, RequestsAssumption
<1>4. \A q \in Requests : /\ Registered(q)' <=> Registered(q)
                          /\ Busy(q)' <=> Busy(q)
                          /\ Held(q) => Held(q)'
                          /\ Kept(q) => Kept(q)'
                          /\ \A res : Mine(res, q) => Mine(res, q)'
  BY Zenon, <1>1, <1>2, <1>3 DEF Registered, Busy, Locks, Held, Kept, Mine
<1>5. \A q : \A i : Owns(q, i) => Owns(q, i)'
  BY Zenon, <1>1, <1>4 DEF Owns
<1>6. FreeIsClear' /\ HoldIsWhole'
  BY Zenon, <1>1 DEF OwnInv, FreeIsClear, HoldIsWhole
<1>7. BusyIsHeld'
  BY Zenon, <1>4 DEF OwnInv, BusyIsHeld
<1>8. SenderIsOwn'
  BY Zenon, <1>1, <1>2 DEF OwnInv, SenderIsOwn, Registered, Locks
<1>9. SenderIsHeld'
  <2>1. \A i : Cleaning(i)' <=> Cleaning(i)
    BY Zenon, <1>1 DEF Cleaning
  <2> QED BY Zenon, <1>1, <1>2, <2>1 DEF OwnInv, SenderIsHeld
<1>10. LateIsHeld'
  BY Zenon, <1>1, <1>3, <1>4 DEF OwnInv, LateIsHeld
<1>11. FromIsOwn'
  BY Zenon, <1>1, <1>5 DEF OwnInv, FromIsOwn, Answer
<1>12. ResultIsOwn'
  BY Zenon, <1>1, <1>4, ResultsStand
<1> QED BY Zenon, <1>6, <1>7, <1>8, <1>9, <1>10, <1>11, <1>12 DEF OwnInv

\* Tick: time passes only when the callers that still wait own their IDs.
LEMMA TickOwn ==
  ASSUME TypeInv, OwnTypes, OnceInv, ClosesOnce, OwnInv, Tick
  PROVE  OwnInv'
<1>1. /\ UNCHANGED <<pc, id, outcome, inUse, reserved, sendActive, fin, rx, closer, bare>>
      /\ \A i \in IDs : quarantine'[i] = Less(quarantine[i])
      /\ \A q \in Requests : wire'[q] = Less(wire[q])
      /\ \A q \in Requests : \E d : tx'[q] = [tx[q] EXCEPT !.timer = d]
      /\ \A q \in Requests : \E d : snd'[q] = [snd[q] EXCEPT !.timer = d]
      /\ Quiet
  BY Zenon DEF Tick, callerVars
<1>2. /\ \A a \in Agents : fin[a].step = "none"
      /\ rx = RxIdle /\ (~Closed => closer.pending = {})
  <2>1. NotFinishing.step = "none"
    BY Zenon DEF NotFinishing
  <2> QED BY Zenon, <1>1, <2>1 DEF Quiet, ClosesOnce, Closed
<1>3. \A q \in Requests : tx'[q].result = tx[q].result /\ snd'[q].ack = snd[q].ack
  <2>1. \A u \in TxSet : \A d : [u EXCEPT !.timer = d].result = u.result
    BY Zenon, ResultKept
  <2>2. \A u \in [ack : BOOLEAN, timer : Timer(SegTimeout), rounds : Int] :
          \A d : [u EXCEPT !.timer = d].ack = u.ack
    BY Zenon
  <2>3. \A q \in Requests : /\ tx[q] \in TxSet
                            /\ snd[q] \in [ack : BOOLEAN, timer : Timer(SegTimeout), rounds : Int]
    BY Zenon DEF TypeInv, OwnTypes
  <2>4. ASSUME NEW q \in Requests PROVE tx'[q].result = tx[q].result
    <3>1. PICK d : tx'[q] = [tx[q] EXCEPT !.timer = d]
      BY Zenon, <1>1
    <3>2. [tx[q] EXCEPT !.timer = d].result = tx[q].result
      BY Zenon, <2>1, <2>3
    <3> QED BY Zenon, <3>1, <3>2
  <2>5. ASSUME NEW q \in Requests PROVE snd'[q].ack = snd[q].ack
    <3>1. PICK d : snd'[q] = [snd[q] EXCEPT !.timer = d]
      BY Zenon, <1>1
    <3>2. [snd[q] EXCEPT !.timer = d].ack = snd[q].ack
      BY Zenon, <2>2, <2>3
    <3> QED BY Zenon, <3>1, <3>2
  <2> QED BY Zenon, <2>4, <2>5
<1>4. ASSUME NEW q \in Requests, Busy(q)' PROVE inUse[id[q]] = q
  <2>1. ~Locks(q)
    BY Zenon, <1>2, AgentFacts DEF Locks
  <2>2. CallerQuiet(q) /\ (snd'[q].ack => snd[q].ack)
    BY Zenon, <1>1, <1>3 DEF Quiet
  <2>3. pc[q] = "wait" /\ tx[q].result = NoResult /\ ~Closed
    BY Zenon, <1>1, <1>4, <2>1, <2>2 DEF Busy, Locks, CallerQuiet
  <2>4. Alive(q) /\ ~Owed(q)
    BY Zenon, <1>2, <2>3 DEF OnceInv, Accounted, LivePCs, Owed
  <2> QED BY Zenon, <2>3, <2>4 DEF Alive
<1>5. /\ Less(0) = 0
      /\ \A m, n \in Nat : m <= n => Less(m) <= Less(n)
  BY DEF Less
<1>6. FreeIsClear' /\ HoldIsWhole'
  BY Zenon, <1>1, <1>5 DEF OwnInv, FreeIsClear, HoldIsWhole
<1>7. BusyIsHeld'
  BY Zenon, <1>1, <1>4 DEF BusyIsHeld, Held
<1>8. SenderIsOwn'
  BY Zenon, <1>1 DEF OwnInv, SenderIsOwn, Registered, Locks, Closed
<1>9. SenderIsHeld'
  <2>1. \A i : ~Cleaning(i)
    BY Zenon, <1>2 DEF Cleaning
  <2> QED BY Zenon, <1>1, <2>1 DEF OwnInv, SenderIsHeld, Closed
<1>10. LateIsHeld'
  <2>1. \A q \in Requests : wire[q] \in Nat /\ quarantine[id[q]] \in Nat /\ id[q] \in IDs
    BY DEF OwnTypes, TypeInv
  <2> SUFFICES ASSUME NEW q \in Requests
               PROVE  /\ ~Registered(q) => wire'[q] = 0
                      /\ Registered(q) => \/ inUse[id[q]] = q \/ id[q] \in bare
                                          \/ wire'[q] <= quarantine'[id[q]]
    BY Zenon, <1>1 DEF LateIsHeld, Registered
  <2>2. /\ ~Registered(q) => wire[q] = 0
        /\ Registered(q) => \/ inUse[id[q]] = q \/ id[q] \in bare
                            \/ wire[q] <= quarantine[id[q]]
    BY Zenon DEF OwnInv, LateIsHeld
  <2>3. wire[q] <= quarantine[id[q]] => wire'[q] <= quarantine'[id[q]]
    BY <1>1, <1>5, <2>1
  <2>4. wire[q] = 0 => wire'[q] = 0
    BY Zenon, <1>1, <1>5
  <2> QED BY Zenon, <2>2, <2>3, <2>4
<1>11. FromIsOwn'
  BY Zenon, <1>1, <1>2 DEF FromIsOwn
<1>12. ResultIsOwn'
  <2>1. \A a \in Agents : \A t \in Requests : ~Takes(a, t)'
    BY Zenon, <1>1, <1>2 DEF Takes
  <2>2. \A q \in Requests : \A res : Mine(res, q)' <=> Mine(res, q)
    BY Zenon, <1>1 DEF Mine
  <2> QED BY Zenon, <1>1, <1>3, <2>1, <2>2 DEF OwnInv, ResultIsOwn
<1> QED BY Zenon, <1>6, <1>7, <1>8, <1>9, <1>10, <1>11, <1>12 DEF OwnInv

\* Every step preserves the invariant.
LEMMA StepOwn ==
  ASSUME TypeInv, OwnTypes, OnceInv, ClosesOnce, OwnInv, AnswerLife <= ApduTimeout,
         [Next]_vars
  PROVE  OwnInv'
<1>1. ASSUME NEW r \in Requests,
             Start(r) \/ Refuse(r) \/ AllocateGivesUp(r) \/ AllocateFails(r)
      PROVE  OwnInv'
  <2>1. /\ pc[r] \in {"idle", "alloc", "allocWait"}
        /\ \E l \in {"alloc", "allocWait", "done"} : pc' = [pc EXCEPT ![r] = l]
        /\ UNCHANGED <<id, outcome, tx, inUse, reserved, quarantine, bare, fin, rx, closer,
                       snd, sendActive, wire>>
    BY Zenon, <1>1 DEF Start, Refuse, AllocateGivesUp, AllocateFails, Goto, mgrVars, segVars, netVars
  <2>2. ~Registered(r) /\ ~Locks(r)
    BY Zenon, <2>1 DEF Registered, Locks, OnceInv, Finishers
  <2>3. ~Busy(r)'
    BY Zenon, <2>1, <2>2 DEF Busy, Locks, TypeInv
  <2> QED BY Zenon, <2>1, <2>2, <2>3, CallerGoesOwn
<1>2. ASSUME NEW r \in Requests, CallerPublishes(r) PROVE OwnInv'
  <2>1. Caller(r) \in Agents /\ Publish(Caller(r))
    BY Zenon, <1>2, AgentFacts DEF CallerPublishes
  <2> QED BY Zenon, <1>2, <2>1, PublishOwn
<1>3. ASSUME NEW r \in Requests, CallerStep(r) PROVE OwnInv'
  BY Zenon, <1>1, <1>2, <1>3, AllocateOwn, RegisterOwn, CallerOwn, ReturnOwn DEF CallerStep
<1>4. ASSUME NEW a \in Agents, OtherPublishes(a) PROVE OwnInv'
  BY Zenon, <1>4, PublishOwn DEF OtherPublishes
<1>5. ASSUME NEW i \in IDs, watchTimeout(i) PROVE OwnInv'
  <2> DEFINE a == Watcher(seg[i].tx)
  <2>1. /\ fin[a].step = "none" /\ \A r : a # Caller(r)
    BY <1>5, AgentFacts DEF watchTimeout, NotFinishing
  <2>2. ~Answer(Plain("segTimeout")) /\ ApduTimeout # 0
    BY LocalIsNoAnswer, BoundsAssumption DEF LocalKinds
  <2>3. /\ fin' = [fin EXCEPT ![a] = Finish(i, Plain("segTimeout"), ApduTimeout)]
        /\ UNCHANGED <<pc, id, outcome, tx, inUse, reserved, quarantine, bare, closer, rx,
                       snd, sendActive, wire>>
    BY Zenon, <1>5 DEF watchTimeout, callerVars, mgrVars, netVars
  <2> HIDE DEF a
  <2> QED BY Zenon, <2>1, <2>2, <2>3, AgentEntersOwn
<1>6. ASSUME NEW r \in Requests, AbortPublish(r) PROVE OwnInv'
  <2>1. /\ UNCHANGED <<pc, id, outcome, inUse, reserved, quarantine, bare, rx, fin,
                       snd, sendActive, wire>>
        /\ closer'.step = closer.step
        /\ tx' = [tx EXCEPT ![r] = Published(tx[r], maybeUnknown(r, "closed"))]
    BY Zenon, <1>6 DEF AbortPublish, callerVars, mgrVars, segVars, netVars, TypeInv
  <2>2. ~Answer(maybeUnknown(r, "closed")) /\ (Closed' <=> Closed)
    BY Zenon, <2>1, LocalIsNoAnswer DEF LocalKinds, Closed
  <2>3. \A q \in Requests : tx'[q].result = tx[q].result \/ ~Answer(tx'[q].result)
    <3>1. tx[r] \in TxSet /\ tx'[r] = Published(tx[r], maybeUnknown(r, "closed"))
          /\ \A q \in Requests : q # r => tx'[q] = tx[q]
      BY Zenon, <2>1 DEF TypeInv
    <3>2. tx'[r].result = tx[r].result \/ tx'[r].result = maybeUnknown(r, "closed")
      BY Zenon, <3>1, PublishedFacts
    <3> QED BY Zenon, <2>2, <3>1, <3>2
  <2> QED BY Zenon, <2>1, <2>2, <2>3, NothingOwn
<1>7. CASE CloseTransport \/ Close
  <2>1. /\ UNCHANGED <<pc, id, outcome, tx, inUse, reserved, quarantine, bare, rx, fin, snd, wire>>
        /\ \A i \in IDs : sendActive'[i] = sendActive[i] \/ sendActive'[i] = NoReq
        /\ closer'.step # "open"
    BY Zenon, <1>7 DEF CloseTransport, Close, callerVars, mgrVars, segVars, netVars, TypeInv
  <2> QED BY Zenon, <2>1, NothingOwn DEF Closed
<1>8. CASE UNCHANGED vars
  BY Zenon, <1>8, NothingOwn DEF vars, callerVars, mgrVars, segVars, netVars, Closed
<1>9. CASE InternalStep
  BY Zenon, <1>4, <1>5, <1>6, <1>7, <1>9, CompleteOwn, AbortAllOwn DEF InternalStep, CloseStep
<1> QED
  BY Zenon, <1>1, <1>3, <1>7, <1>8, <1>9, CallerOwn, PeerOwn, RxOwn, TickOwn DEF Next, Terminated

\* Initially nothing is in use and nothing is on its way.
LEMMA InitOwn == Init => OwnInv
<1> SUFFICES ASSUME Init PROVE OwnInv
  BY Zenon
<1>1. /\ \A r \in Requests : /\ pc[r] = "idle" /\ outcome[r] = NoResult /\ wire[r] = 0
                             /\ tx[r] = NoTx /\ NoTx.result = NoResult
      /\ \A i \in IDs : inUse[i] = NoReq /\ quarantine[i] = 0 /\ sendActive[i] = NoReq
      /\ reserved = {} /\ rx = RxIdle
      /\ \A a \in Agents : fin[a].step = "none" /\ fin[a].res = NoResult
  BY Zenon DEF Init, NotFinishing, NoTx
<1>2. ~Answer(NoResult)
  BY DEF Answer, NoResult
<1>3. \A r \in Requests : Caller(r) \in Agents /\ ~Registered(r) /\ ~Busy(r)
  BY Zenon, <1>1, AgentFacts DEF Registered, Busy, Locks
<1>4. FreeIsClear /\ HoldIsWhole /\ BusyIsHeld
  BY Zenon, <1>1, <1>3 DEF FreeIsClear, HoldIsWhole, BusyIsHeld
<1>5. SenderIsOwn /\ SenderIsHeld /\ LateIsHeld
  BY Zenon, <1>1, <1>3, RequestsAssumption DEF SenderIsOwn, SenderIsHeld, LateIsHeld
<1>6. FromIsOwn /\ ResultIsOwn
  BY Zenon, <1>1, <1>2, <1>3 DEF FromIsOwn, ResultIsOwn, Takes
<1> QED BY Zenon, <1>4, <1>5, <1>6 DEF OwnInv

\* AnswerIsOwn, when no message outlives the APDU timeout: an answer ends the
\* request it answers and never a later one with the same invoke ID, unless the
\* ID was released without quarantine (txManager.complete, tryAllocLocked).
THEOREM AnswersAreOwn == AnswerLife <= ApduTimeout /\ Spec => []AnswerIsOwn
<1> SUFFICES ASSUME AnswerLife <= ApduTimeout PROVE Spec => []AnswerIsOwn
  OBVIOUS
<1> DEFINE I == TypeInv /\ OnceInv /\ ClosesOnce
           J == OwnTypes /\ OwnInv
<1>1. Init => J
  BY Zenon, InitOwn, OwnTypesKept
<1>2. I /\ J /\ [Next]_vars => J'
  BY Zenon, StepOwn, OwnTypesKept
<1>3. J => AnswerIsOwn
  BY Zenon DEF OwnInv, ResultIsOwn, AnswerIsOwn, Answer, Mine
<1>4. Spec => []I
  BY Zenon, Invariance
<1> QED BY <1>1, <1>2, <1>3, <1>4, PTL DEF Spec

(***************************************************************************)
(* That a request is not sent more often than its policy allows, and that  *)
(* a write without an answer ends outcome-unknown.  The transmissions made *)
(* and the retries left are counted together (Counted).  The manager finds *)
(* a transaction by invoke ID, so a caller of an open client must not spend *)
(* the retries of, or publish its own outcome to, a later owner of its ID: *)
(* a caller that waits for a SegmentACK, or is in finishTx, has its        *)
(* transaction in use or its ID still in quarantine (OpenIsHeld), the      *)
(* former only if the segment timer runs out before the quarantine does.   *)
(***************************************************************************)

\* A caller on an open client never outlives the quarantine of its invoke ID.
OpenIsHeld ==
  ~Closed => \A r \in Requests :
    /\ pc[r] = "sendWait" => /\ snd[r].timer >= 0
                             /\ inUse[id[r]] = r \/ quarantine[id[r]] > snd[r].timer
    /\ Locks(r) => inUse[id[r]] = r \/ quarantine[id[r]] > 0

\* A transmission is still to come.
Owing(r) == IF pc[r] \in {"registered", "resend"} THEN 1 ELSE 0

\* Transmissions of r, made, due and still allowed.
Counted ==
  \A r \in Requests :
    /\ ~Registered(r) \/ pc[r] = "registered" => sends[r] = 0
    /\ r \notin Repeatable => pc[r] # "resend" /\ sends[r] <= 1
    /\ r \in Repeatable /\ ~Closed =>
         sends[r] + tx[r].retries + Owing(r) <= 1 + RetryCount

Unanswered == {"timeout", "cancelled", "sendFailed", "sendStalled"}

\* The result of a write with no answer says that the outcome is unknown.
Told(res, r) ==
  r \in Writes /\ res.kind \in Unanswered => res.unknown \/ Closed

\* A caller that waits has attempted a transmission.
SentFirst ==
  \A r \in Requests :
    pc[r] \in {"sendWait", "acked", "wait", "expired", "resend"} => tx[r].sent

\* Outcomes on their way, in the channel and returned.
OutcomeIsTold ==
  /\ \A r \in Requests :
       /\ Told(fin[Caller(r)].res, r)
       /\ Told(tx[r].result, r)
       /\ Told(outcome[r], r)
  /\ \A a \in Agents : \A t \in Requests : Takes(a, t) => Told(fin[a].res, t)
  /\ \A a \in Agents :
       (\A r \in Requests : a # Caller(r)) => fin[a].res.kind \notin Unanswered

SentInv ==
  /\ sends \in [Requests -> Nat]
  /\ OpenIsHeld
  /\ Counted
  /\ SentFirst
  /\ OutcomeIsTold

\* A step of r's caller.
OwnStep(r) ==
  \/ Start(r) \/ Refuse(r) \/ AllocateGivesUp(r) \/ SendGivesUp(r) \/ Cancel(r)
  \/ CallerStep(r)

\* Which steps count transmissions.
LEMMA SendsFrame ==
  ASSUME [Next]_vars
  PROVE  \/ UNCHANGED sends
         \/ \E q \in Requests : Send(q) \/ Retransmit(q) \/ Deferred(q)
<1> USE DEF vars, netVars
<1>1. ASSUME NEW q \in Requests,
             Start(q) \/ Refuse(q) \/ AllocateGivesUp(q) \/ SendGivesUp(q) \/ Cancel(q)
      PROVE  UNCHANGED sends
  BY ZenonT(30), <1>1 DEF Start, Refuse, AllocateGivesUp, SendGivesUp, Cancel
<1>2. ASSUME NEW q \in Requests, CallerStep(q), ~Send(q), ~Retransmit(q), ~Deferred(q)
      PROVE  UNCHANGED sends
  BY ZenonT(30), <1>2 DEF CallerStep, Allocate, AllocateFails, register, SegmentsTooLarge,
     enterSendingSegments, SendWindow, AckProgress, enterAwaitingResponse, CloseSeen,
     TimerFires, onTimeout, TakeResult, CallerPublishes, Publish
<1>3. ASSUME NEW q \in Requests, PeerStep(q) PROVE UNCHANGED sends
  BY ZenonT(30), <1>3 DEF PeerStep, RxAnswer, RxSegment, RxSegmentACK
<1>4. ASSUME RxStep \/ Tick \/ Terminated \/ UNCHANGED vars \/ Close PROVE UNCHANGED sends
  BY ZenonT(30), <1>4 DEF RxStep, AcceptFirst, AcceptNoFirst, AcceptOutOfOrder,
     AcceptOverLimit, AcceptMore, AcceptLast, Tick, Terminated, Close
<1>5. ASSUME InternalStep PROVE UNCHANGED sends
  BY ZenonT(30), <1>5 DEF InternalStep, complete, OtherPublishes, Publish, watchTimeout,
     CloseStep, abortAll, AbortPublish, CloseTransport
<1> QED BY ZenonT(30), <1>1, <1>2, <1>3, <1>4, <1>5 DEF Next

\* Which steps move a caller, its invoke ID, its count of transmissions and
\* the manager's table.
LEMMA CallerFrames ==
  ASSUME TypeInv, sends \in [Requests -> Nat], [Next]_vars, NEW r \in Requests
  PROVE  /\ pc'[r] = pc[r] \/ OwnStep(r)
         /\ sends'[r] = sends[r] \/ Send(r) \/ Retransmit(r) \/ Deferred(r)
         /\ id'[r] = id[r] \/ Allocate(r)
         /\ \/ UNCHANGED inUse \/ abortAll
            \/ \E q \in Requests : register(q)
            \/ \E a \in Agents : complete(a)
         /\ Closed => Closed'
<1> USE DEF vars, callerVars, mgrVars, segVars, netVars
<1>1. ASSUME NEW q \in Requests,
             Start(q) \/ Refuse(q) \/ AllocateGivesUp(q) \/ SendGivesUp(q) \/ Cancel(q)
      PROVE  /\ \E l : pc' = [pc EXCEPT ![q] = l]
             /\ UNCHANGED <<id, inUse, sends, closer>>
  BY ZenonT(30), <1>1 DEF Start, Refuse, AllocateGivesUp, SendGivesUp, Cancel, Goto, EndWith
<1>2. ASSUME NEW q \in Requests,
             AllocateFails(q) \/ SegmentsTooLarge(q) \/ enterSendingSegments(q)
             \/ SendWindow(q) \/ AckProgress(q) \/ enterAwaitingResponse(q)
      PROVE  /\ \E l : pc' = [pc EXCEPT ![q] = l]
             /\ UNCHANGED <<id, inUse, sends, closer>>
  BY ZenonT(30), <1>2 DEF AllocateFails, SegmentsTooLarge, enterSendingSegments, SendWindow,
     AckProgress, enterAwaitingResponse, Goto, EndWith
<1>3. ASSUME NEW q \in Requests, CloseSeen(q) \/ TimerFires(q) \/ onTimeout(q) \/ TakeResult(q)
      PROVE  /\ \E l : pc' = [pc EXCEPT ![q] = l]
             /\ UNCHANGED <<id, inUse, sends, closer>>
  BY ZenonT(30), <1>3 DEF CloseSeen, TimerFires, onTimeout, TakeResult, Return, Goto, EndWith
<1>4. ASSUME NEW q \in Requests, CallerPublishes(q)
      PROVE  /\ \E l : pc' = [pc EXCEPT ![q] = l]
             /\ UNCHANGED <<id, inUse, sends, closer>>
  BY ZenonT(30), <1>4 DEF CallerPublishes, Publish, Return, Goto
<1>5. ASSUME NEW q \in Requests, Allocate(q)
      PROVE  /\ \E l : pc' = [pc EXCEPT ![q] = l]
             /\ \E i : id' = [id EXCEPT ![q] = i]
             /\ UNCHANGED <<inUse, sends, closer>>
  BY ZenonT(30), <1>5 DEF Allocate, tryAllocLocked, Goto
<1>6. ASSUME NEW q \in Requests, register(q)
      PROVE  /\ \E l : pc' = [pc EXCEPT ![q] = l]
             /\ UNCHANGED <<id, sends, closer>>
  BY ZenonT(30), <1>6 DEF register, Goto
<1>7. ASSUME NEW q \in Requests, Send(q) \/ Retransmit(q) \/ Deferred(q)
      PROVE  /\ \E l : pc' = [pc EXCEPT ![q] = l]
             /\ \E n : sends' = [sends EXCEPT ![q] = n]
             /\ UNCHANGED <<id, inUse, closer>>
  BY ZenonT(30), <1>7 DEF Send, Retransmit, Deferred, Goto, EndWith
<1>8. ASSUME \/ \E q \in Requests : PeerStep(q)
             \/ RxStep \/ Tick \/ Terminated \/ UNCHANGED vars
      PROVE  UNCHANGED <<pc, id, inUse, sends, closer>>
  BY ZenonT(30), <1>8 DEF PeerStep, RxAnswer, RxSegment, RxSegmentACK, RxStep, AcceptFirst,
     AcceptNoFirst, AcceptOutOfOrder, AcceptOverLimit, AcceptMore, AcceptLast, Tick, Terminated
<1>9. ASSUME InternalStep \/ Close
      PROVE  /\ UNCHANGED <<pc, id, sends>>
             /\ UNCHANGED inUse \/ abortAll \/ \E a \in Agents : complete(a)
             /\ Closed => Closed'
  <2>1. ASSUME CloseStep \/ Close PROVE closer'.step # "open"
    BY <2>1 DEF CloseStep, Close, abortAll, AbortPublish, CloseTransport, TypeInv
  <2>2. ASSUME CloseStep \/ Close
        PROVE  UNCHANGED <<pc, id, sends>> /\ (UNCHANGED inUse \/ abortAll)
    BY ZenonT(30), <2>2 DEF CloseStep, Close, abortAll, AbortPublish, CloseTransport
  <2>3. ASSUME \/ \E a \in Agents : complete(a) \/ OtherPublishes(a)
               \/ \E i \in IDs : watchTimeout(i)
        PROVE  /\ UNCHANGED <<pc, id, sends, closer>>
               /\ UNCHANGED inUse \/ \E a \in Agents : complete(a)
    BY ZenonT(30), <2>3 DEF complete, OtherPublishes, Publish, watchTimeout
  <2> QED BY ZenonT(30), <1>9, <2>1, <2>2, <2>3 DEF InternalStep, Closed
<1>10. ASSUME NEW q \in Requests, OwnStep(q)
       PROVE  /\ \E l : pc' = [pc EXCEPT ![q] = l]
              /\ \/ UNCHANGED sends
                 \/ /\ \E n : sends' = [sends EXCEPT ![q] = n]
                    /\ Send(q) \/ Retransmit(q) \/ Deferred(q)
              /\ UNCHANGED id \/ (Allocate(q) /\ \E i : id' = [id EXCEPT ![q] = i])
              /\ UNCHANGED inUse \/ register(q)
              /\ UNCHANGED closer
  <2> DEFINE A == \/ Start(q) \/ Refuse(q) \/ AllocateGivesUp(q) \/ SendGivesUp(q) \/ Cancel(q)
             B == \/ AllocateFails(q) \/ SegmentsTooLarge(q) \/ enterSendingSegments(q)
                  \/ SendWindow(q) \/ AckProgress(q) \/ enterAwaitingResponse(q)
             C == CloseSeen(q) \/ TimerFires(q) \/ onTimeout(q) \/ TakeResult(q)
             S == Send(q) \/ Retransmit(q) \/ Deferred(q)
  <2>1. A \/ B \/ C \/ CallerPublishes(q) \/ Allocate(q) \/ register(q) \/ S
    BY Zenon, <1>10 DEF OwnStep, CallerStep
  <2>2. CASE A
    BY Zenon, <1>1, <2>2
  <2>3. CASE B
    BY Zenon, <1>2, <2>3
  <2>4. CASE C
    BY Zenon, <1>3, <2>4
  <2>5. CASE S
    BY Zenon, <1>7, <2>5
  <2> QED BY Zenon, <1>4, <1>5, <1>6, <2>1, <2>2, <2>3, <2>4, <2>5
<1>11. CASE \E q \in Requests : OwnStep(q)
  <2> PICK q \in Requests : OwnStep(q)
    BY Zenon, <1>11
  <2>1. CASE q = r
    BY ZenonT(30), <1>10, <2>1 DEF Closed
  <2>2. CASE q # r
    BY ZenonT(30), <1>10, <2>2 DEF TypeInv, Closed
  <2> QED BY Zenon, <2>1, <2>2
<1>12. \/ \E q \in Requests : OwnStep(q) \/ PeerStep(q)
       \/ RxStep \/ InternalStep \/ Close \/ Tick \/ Terminated \/ UNCHANGED vars
  BY ZenonT(30) DEF Next, OwnStep
<1> QED BY ZenonT(30), <1>8, <1>9, <1>11, <1>12 DEF Closed

\* What a step does to a transaction: sent stays, the retries do not grow, and
\* a result comes from publish or abortAll, except where register and the
\* deferred cleanup start and end it.
LEMMA TxFrames ==
  ASSUME TypeInv, [Next]_vars, NEW q \in Requests
  PROVE  /\ tx[q].sent => tx'[q].sent \/ register(q) \/ Deferred(q)
         /\ tx'[q].retries <= tx[q].retries \/ register(q)
         /\ \/ tx'[q].result \in {tx[q].result, NoResult, maybeUnknown(q, "closed")}
            \/ \E a \in Agents : Publish(a) /\ fin[a].tx = q /\ tx'[q].result = fin[a].res
<1> DEFINE Keeps(u, v) == /\ u.sent => v.sent
                          /\ v.retries <= u.retries
           Calm(u, v) == Keeps(u, v) /\ v.result \in {u.result, NoResult}
           One == \E t \in Requests : \E v : tx' = [tx EXCEPT ![t] = v] /\ Calm(tx[t], v)
<1>1. \A u \in TxSet :
        /\ Calm(u, u)
        /\ Calm(u, [u EXCEPT !.sent = TRUE])
        /\ \A d : Calm(u, [u EXCEPT !.timer = d])
        /\ \A ph : Calm(u, [u EXCEPT !.phase = ph, !.retries = 0, !.timer = Off])
        /\ \A ph, d : Calm(u, [u EXCEPT !.phase = ph, !.timer = d])
        /\ Calm(u, [u EXCEPT !.retries = @ - 1])
        /\ Calm(u, [u EXCEPT !.result = NoResult])
  BY BoundsAssumption DEF TxSet
<1>2. \A u \in TxSet : \A res :
        /\ Keeps(u, Published(u, res))
        /\ Published(u, res).result \in {u.result, res}
  BY BoundsAssumption DEF TxSet, Published
<1>3. tx \in [Requests -> TxSet] /\ tx[q] \in TxSet
  BY Zenon DEF TypeInv
<1> HIDE DEF Keeps
<1>4. ASSUME One PROVE Calm(tx[q], tx'[q])
  BY Zenon, <1>1, <1>3, <1>4
<1>5. ASSUME UNCHANGED tx PROVE Calm(tx[q], tx'[q])
  BY Zenon, <1>1, <1>3, <1>5
<1> HIDE DEF Calm
<1>6. ASSUME NEW r \in Requests,
             Start(r) \/ Refuse(r) \/ AllocateGivesUp(r) \/ SendGivesUp(r) \/ Cancel(r)
             \/ Allocate(r) \/ AllocateFails(r) \/ SegmentsTooLarge(r) \/ AckProgress(r)
             \/ CloseSeen(r)
      PROVE  UNCHANGED tx
  BY ZenonT(30), <1>6 DEF Start, Refuse, AllocateGivesUp, SendGivesUp, Cancel, Allocate,
     AllocateFails, SegmentsTooLarge, AckProgress, CloseSeen
<1>7. ASSUME NEW r \in Requests, Send(r) \/ SendWindow(r) \/ TimerFires(r) \/ Retransmit(r)
      PROVE  One
  <2>1. tx[r] \in TxSet
    BY Zenon, <1>3
  <2>2. \/ tx' = [tx EXCEPT ![r] = [tx[r] EXCEPT !.sent = TRUE]]
        \/ \E d : tx' = [tx EXCEPT ![r] = [tx[r] EXCEPT !.timer = d]]
    BY ZenonT(30), <1>3, <1>7 DEF Send, SendWindow, TimerFires, Retransmit
  <2>3. /\ Calm(tx[r], [tx[r] EXCEPT !.sent = TRUE])
        /\ \A d : Calm(tx[r], [tx[r] EXCEPT !.timer = d])
    BY Zenon, <1>1, <2>1
  <2> QED BY Zenon, <2>2, <2>3
<1>8. ASSUME NEW r \in Requests, enterSendingSegments(r) \/ enterAwaitingResponse(r)
      PROVE  One \/ UNCHANGED tx
  <2> DEFINE t == inUse[id[r]]
  <2>1. t = NoReq \/ (t \in Requests /\ tx[t] \in TxSet)
    BY Zenon, <1>3, OwnerFacts DEF TypeInv
  <2> HIDE DEF t
  <2>2. \/ UNCHANGED tx
        \/ t # NoReq /\ tx' = [tx EXCEPT ![t] = [tx[t] EXCEPT !.phase = "sending", !.retries = 0,
                                                             !.timer = Off]]
        \/ t # NoReq /\ tx' = [tx EXCEPT ![t] = [tx[t] EXCEPT !.phase = "initial",
                                                             !.timer = ApduTimeout]]
    BY ZenonT(30), <1>8, <2>1 DEF enterSendingSegments, enterAwaitingResponse, t
  <2>3. t # NoReq =>
        /\ Calm(tx[t], [tx[t] EXCEPT !.phase = "sending", !.retries = 0, !.timer = Off])
        /\ Calm(tx[t], [tx[t] EXCEPT !.phase = "initial", !.timer = ApduTimeout])
    BY Zenon, <1>1, <2>1
  <2> QED BY Zenon, <2>1, <2>2, <2>3
<1>9. ASSUME NEW r \in Requests, onTimeout(r) PROVE One \/ UNCHANGED tx
  <2> DEFINE t == inUse[id[r]]
  <2>1. t = NoReq \/ (t \in Requests /\ tx[t] \in TxSet)
    BY Zenon, <1>3, OwnerFacts DEF TypeInv
  <2> HIDE DEF t
  <2>2. \/ UNCHANGED tx
        \/ t # NoReq /\ tx' = [tx EXCEPT ![t] = [tx[t] EXCEPT !.retries = @ - 1]]
    BY ZenonT(30), <1>9, <2>1 DEF onTimeout, t
  <2>3. t # NoReq => Calm(tx[t], [tx[t] EXCEPT !.retries = @ - 1])
    BY Zenon, <1>1, <2>1
  <2> QED BY Zenon, <2>1, <2>2, <2>3
<1>10. ASSUME NEW r \in Requests, TakeResult(r) PROVE One
  <2>1. tx[r] \in TxSet /\ tx' = [tx EXCEPT ![r] = [tx[r] EXCEPT !.result = NoResult]]
    BY Zenon, <1>3, <1>10 DEF TakeResult
  <2> QED BY Zenon, <1>1, <2>1
<1>11. ASSUME RxStep PROVE One \/ UNCHANGED tx
  <2> DEFINE t == inUse[rx.id]
  <2>1. t = NoReq \/ (t \in Requests /\ tx[t] \in TxSet)
    BY Zenon, <1>3, OwnerFacts DEF TypeInv
  <2> HIDE DEF t
  <2>2. \/ UNCHANGED tx
        \/ t # NoReq /\ tx' = [tx EXCEPT ![t] = [tx[t] EXCEPT !.phase = "receiving", !.retries = 0,
                                                             !.timer = Off]]
    BY ZenonT(30), <1>11, <2>1 DEF RxStep, AcceptFirst, AcceptNoFirst, AcceptOutOfOrder,
       AcceptOverLimit, AcceptMore, AcceptLast, t
  <2> QED BY ZenonT(30), <1>1, <2>1, <2>2
<1>12. ASSUME NEW r \in Requests, PeerStep(r) PROVE UNCHANGED tx
  BY ZenonT(30), <1>12 DEF PeerStep, RxAnswer, RxSegment, RxSegmentACK
<1>13. ASSUME \/ \E a \in Agents : complete(a)
              \/ \E i \in IDs : watchTimeout(i)
              \/ abortAll \/ CloseTransport \/ Close \/ Terminated \/ UNCHANGED vars
       PROVE  UNCHANGED tx
  BY ZenonT(30), <1>13 DEF complete, watchTimeout, abortAll, CloseTransport, Close, Terminated, vars
<1>14. CASE Tick
  <2>1. \E d : tx'[q] = [tx[q] EXCEPT !.timer = d]
    BY Zenon, <1>14 DEF Tick
  <2>2. \A d : Calm(tx[q], [tx[q] EXCEPT !.timer = d])
    BY Zenon, <1>1, <1>3
  <2>3. Calm(tx[q], tx'[q])
    BY Zenon, <2>1, <2>2
  <2> QED BY Zenon, <2>3 DEF Calm, Keeps
<1>15. ASSUME NEW a \in Agents, Publish(a)
       PROVE  /\ Keeps(tx[q], tx'[q])
              /\ \/ tx'[q].result = tx[q].result
                 \/ fin[a].tx = q /\ tx'[q].result = fin[a].res
  <2>1. tx'[q] = tx[q] \/ (fin[a].tx = q /\ tx'[q] = Published(tx[q], fin[a].res))
    BY ZenonT(30), <1>3, <1>15 DEF Publish
  <2>2. Keeps(tx[q], tx[q])
    BY Zenon, <1>1, <1>3 DEF Calm
  <2>3. \A res : /\ Keeps(tx[q], Published(tx[q], res))
                 /\ Published(tx[q], res).result \in {tx[q].result, res}
    BY Zenon, <1>2, <1>3
  <2> QED BY Zenon, <2>1, <2>2, <2>3
<1>16. ASSUME NEW r \in Requests, AbortPublish(r)
       PROVE  /\ Keeps(tx[q], tx'[q])
              /\ tx'[q].result \in {tx[q].result, maybeUnknown(q, "closed")}
  <2>1. tx'[q] = tx[q] \/ tx'[q] = Published(tx[q], maybeUnknown(q, "closed"))
    BY ZenonT(30), <1>3, <1>16 DEF AbortPublish
  <2>2. Keeps(tx[q], tx[q])
    BY Zenon, <1>1, <1>3 DEF Calm
  <2>3. \A res : /\ Keeps(tx[q], Published(tx[q], res))
                 /\ Published(tx[q], res).result \in {tx[q].result, res}
    BY Zenon, <1>2, <1>3
  <2> QED BY Zenon, <2>1, <2>2, <2>3
<1>17. ASSUME NEW r \in Requests, register(r) \/ Deferred(r)
       PROVE  \/ tx'[q] = tx[q]
              \/ register(q) /\ tx'[q].result = NoResult
              \/ Deferred(q) /\ tx'[q].retries <= tx[q].retries /\ tx'[q].result = NoResult
  <2>1. CASE r = q
    BY <1>3, <1>17, <2>1, BoundsAssumption DEF register, Deferred, NoTx, TxSet
  <2>2. CASE r # q
    BY Zenon, <1>3, <1>17, <2>2 DEF register, Deferred
  <2> QED BY Zenon, <2>1, <2>2
<1>18. One \/ UNCHANGED tx \/ Tick \/ (\E a \in Agents : Publish(a))
       \/ (\E r \in Requests : AbortPublish(r) \/ register(r) \/ Deferred(r))
  <2> HIDE DEF One
  <2>1. ASSUME NEW r \in Requests, CallerStep(r)
        PROVE  \/ One \/ UNCHANGED tx \/ Publish(Caller(r)) \/ register(r) \/ Deferred(r)
    <3>1. CallerPublishes(r) => Publish(Caller(r))
      BY Zenon DEF CallerPublishes
    <3> QED BY ZenonT(30), <2>1, <3>1, <1>6, <1>7, <1>8, <1>9, <1>10 DEF CallerStep
  <2>2. ASSUME InternalStep
        PROVE  \/ UNCHANGED tx
               \/ \E a \in Agents : Publish(a)
               \/ \E r \in Requests : AbortPublish(r)
    BY ZenonT(30), <2>2, <1>13 DEF InternalStep, CloseStep, OtherPublishes
  <2>3. ASSUME NEW r \in Requests,
               Start(r) \/ Refuse(r) \/ AllocateGivesUp(r) \/ SendGivesUp(r) \/ Cancel(r)
        PROVE  UNCHANGED tx
    BY Zenon, <2>3, <1>6
  <2> QED BY ZenonT(30), <2>1, <2>2, <2>3, <1>11, <1>12, <1>13, AgentFacts DEF Next
<1>19. Calm(tx[q], tx'[q]) => /\ tx[q].sent => tx'[q].sent
                              /\ tx'[q].retries <= tx[q].retries
                              /\ tx'[q].result \in {tx[q].result, NoResult}
  BY Zenon DEF Calm, Keeps
<1>20. tx[q].retries <= tx[q].retries
  BY <1>3 DEF TxSet
<1>21. CASE One \/ UNCHANGED tx
  BY Zenon, <1>4, <1>5, <1>19, <1>21
<1>22. CASE \E a \in Agents : Publish(a)
  BY Zenon, <1>15, <1>22 DEF Keeps
<1>23. CASE \E r \in Requests : AbortPublish(r)
  BY Zenon, <1>16, <1>23 DEF Keeps
<1>24. CASE \E r \in Requests : register(r) \/ Deferred(r)
  BY Zenon, <1>17, <1>20, <1>24
<1> QED BY Zenon, <1>14, <1>18, <1>21, <1>22, <1>23, <1>24

\* Outcomes the client makes up itself.
LEMMA LocalIsTold ==
  ASSUME NEW r \in Requests, NEW k
  PROVE  /\ Told(wrapOutcomeUnknown(r, k), r)
         /\ tx[r].sent => Told(maybeUnknown(r, k), r)
         /\ k \notin Unanswered => Told(Plain(k), r) /\ Told(maybeUnknown(r, k), r)
<1>1. Told(wrapOutcomeUnknown(r, k), r)
  BY Zenon DEF Told, wrapOutcomeUnknown
<1>2. k \notin Unanswered => Told(Plain(k), r)
  BY Zenon DEF Told, Plain
<1> QED BY Zenon, <1>1, <1>2 DEF maybeUnknown

\* A caller enters finishTx from a state in which it waits or sends, and with
\* an outcome that says so if it is unknown.
LEMMA CallerEndsTold ==
  ASSUME TypeInv, SentFirst, NEW r \in Requests,
         OwnStep(r), ~CallerPublishes(r)
  PROVE  \/ UNCHANGED fin
         \/ /\ pc[r] \in LivePCs /\ pc'[r] = "finishing"
            /\ \E res, hold : /\ fin' = [fin EXCEPT ![Caller(r)] = Finish(id[r], res, hold)]
                              /\ Told(res, r)
<1> DEFINE E == \E res, hold : EndWith(r, res, hold) /\ Told(res, r)
<1>1. /\ \A k : Told(wrapOutcomeUnknown(r, k), r)
      /\ \A k : tx[r].sent => Told(maybeUnknown(r, k), r)
      /\ \A k : k \notin Unanswered => Told(Plain(k), r) /\ Told(maybeUnknown(r, k), r)
  BY Zenon, LocalIsTold
<1>2. /\ "closed" \notin Unanswered /\ "protocol" \notin Unanswered /\ "tooLarge" \notin Unanswered
  BY Zenon DEF Unanswered
<1>3. pc[r] \in {"wait", "expired"} => tx[r].sent
  BY Zenon DEF SentFirst
<1>4. ASSUME Send(r) PROVE UNCHANGED fin \/ (E /\ pc[r] = "registered")
  BY Zenon, <1>1, <1>4 DEF Send
<1>5. ASSUME SegmentsTooLarge(r) PROVE E /\ pc[r] = "registered"
  BY Zenon, <1>1, <1>2, <1>5 DEF SegmentsTooLarge
<1>6. ASSUME SendWindow(r) PROVE UNCHANGED fin \/ (E /\ pc[r] = "sending")
  BY Zenon, <1>1, <1>6 DEF SendWindow
<1>7. ASSUME SendGivesUp(r) PROVE E /\ pc[r] = "sendWait"
  BY Zenon, <1>1, <1>2, <1>7 DEF SendGivesUp
<1>8. ASSUME Cancel(r) PROVE E /\ pc[r] = "wait"
  BY Zenon, <1>1, <1>3, <1>8 DEF Cancel
<1>9. ASSUME CloseSeen(r) PROVE E /\ pc[r] = "wait"
  BY Zenon, <1>1, <1>2, <1>9 DEF CloseSeen
<1>10. ASSUME onTimeout(r) PROVE UNCHANGED fin \/ (E /\ pc[r] = "expired")
  BY Zenon, <1>1, <1>3, <1>10 DEF onTimeout
<1>11. ASSUME Start(r) \/ Refuse(r) \/ AllocateGivesUp(r) \/ Allocate(r) \/ AllocateFails(r)
              \/ register(r) \/ enterSendingSegments(r) \/ AckProgress(r)
       PROVE  UNCHANGED fin
  BY ZenonT(30), <1>11 DEF Start, Refuse, AllocateGivesUp, Allocate, AllocateFails, register,
     enterSendingSegments, AckProgress
<1>12. ASSUME enterAwaitingResponse(r) \/ TimerFires(r) \/ Retransmit(r) \/ TakeResult(r)
              \/ Deferred(r)
       PROVE  UNCHANGED fin
  BY ZenonT(30), <1>12 DEF enterAwaitingResponse, TimerFires, Retransmit, TakeResult, Deferred
<1>13. E => /\ pc'[r] = "finishing"
            /\ \E res, hold : /\ fin' = [fin EXCEPT ![Caller(r)] = Finish(id[r], res, hold)]
                              /\ Told(res, r)
  BY Zenon DEF EndWith, Goto, TypeInv
<1> HIDE DEF E
<1>14. UNCHANGED fin \/ (E /\ pc[r] \in LivePCs)
  BY ZenonT(30), <1>4, <1>5, <1>6, <1>7, <1>8, <1>9, <1>10, <1>11, <1>12
  DEF OwnStep, CallerStep, LivePCs
<1> QED BY Zenon, <1>13, <1>14

\* What a step does to the finishTx of a goroutine.
LEMMA FinFrames ==
  ASSUME TypeInv, SentFirst, [Next]_vars, NEW a \in Agents
  PROVE  \/ fin'[a] = fin[a] \/ fin'[a] = NotFinishing \/ complete(a)
         \/ \E r \in Requests :
              /\ a = Caller(r) /\ pc[r] \in LivePCs /\ pc'[r] = "finishing"
              /\ \E res, hold : fin'[a] = Finish(id[r], res, hold) /\ Told(res, r)
         \/ /\ \A r \in Requests : a # Caller(r)
            /\ \E i, res, hold : /\ fin'[a] = Finish(i, res, hold)
                                 /\ res.kind \notin Unanswered
<1>1. fin \in [Agents -> FinSet]
  BY Zenon DEF TypeInv
<1>2. ASSUME NEW r \in Requests, OwnStep(r), ~CallerPublishes(r)
      PROVE  \/ fin'[a] = fin[a]
             \/ /\ a = Caller(r) /\ pc[r] \in LivePCs /\ pc'[r] = "finishing"
                /\ \E res, hold : fin'[a] = Finish(id[r], res, hold) /\ Told(res, r)
  BY ZenonT(30), <1>1, <1>2, CallerEndsTold
<1>3. ASSUME NEW b \in Agents, Publish(b) PROVE fin'[a] = fin[a] \/ fin'[a] = NotFinishing
  BY Zenon, <1>1, <1>3 DEF Publish
<1>4. ASSUME NEW b \in Agents, complete(b) PROVE fin'[a] = fin[a] \/ complete(a)
  BY Zenon, <1>1, <1>4 DEF complete
<1> DEFINE Other(b) == /\ \A r \in Requests : b # Caller(r)
                       /\ \E i, res, hold : /\ fin' = [fin EXCEPT ![b] = Finish(i, res, hold)]
                                            /\ res.kind \notin Unanswered
<1>5. ASSUME NEW b, Other(b)
      PROVE  \/ fin'[a] = fin[a]
             \/ /\ \A r \in Requests : a # Caller(r)
                /\ \E i, res, hold : fin'[a] = Finish(i, res, hold) /\ res.kind \notin Unanswered
  BY Zenon, <1>1, <1>5
<1>6. /\ \A k, q : FromPeer(k, q).kind = k
      /\ \A k : Plain(k).kind = k
      /\ {"ack", "refusal", "protocol", "segAbort", "segTimeout"} \cap Unanswered = {}
  BY DEF FromPeer, Plain, Unanswered
<1>7. \A k \in {"ack", "refusal", "protocol", "segAbort", "segTimeout"} : k \notin Unanswered
  BY Zenon, <1>6
<1>8. ASSUME NEW i, NEW res, RxFinish(i, res), res.kind \notin Unanswered PROVE Other(RxLoop)
  BY Zenon, <1>8, AgentFacts DEF RxFinish
<1>9. ASSUME \E q \in Requests : PeerStep(q) PROVE UNCHANGED fin \/ Other(RxLoop)
  <2> HIDE DEF Other
  <2> PICK q \in Requests : PeerStep(q)
    BY Zenon, <1>9
  <2>1. \/ UNCHANGED fin
        \/ \E i : \E k \in {"ack", "refusal"} : RxFinish(i, FromPeer(k, q))
        \/ \E i : RxFinish(i, Plain("protocol"))
    BY ZenonT(30) DEF PeerStep, RxAnswer, RxSegment, RxSegmentACK
  <2> QED BY Zenon, <1>6, <1>7, <1>8, <2>1
<1>10. ASSUME RxStep PROVE UNCHANGED fin \/ Other(RxLoop)
  <2> HIDE DEF Other
  <2>1. \/ UNCHANGED fin
        \/ \E i, q : RxFinish(i, FromPeer("ack", q))
        \/ \E i : \E k \in {"protocol", "segAbort"} : RxFinish(i, Plain(k))
    BY ZenonT(30), <1>10 DEF RxStep, AcceptFirst, AcceptNoFirst, AcceptOutOfOrder,
       AcceptOverLimit, AcceptMore, AcceptLast
  <2> QED BY Zenon, <1>6, <1>7, <1>8, <2>1
<1>11. ASSUME NEW i \in IDs, watchTimeout(i) PROVE Other(Watcher(seg[i].tx))
  BY Zenon, <1>6, <1>7, <1>11, AgentFacts DEF watchTimeout
<1>12. ASSUME CloseStep \/ Close \/ Tick \/ Terminated \/ UNCHANGED vars PROVE UNCHANGED fin
  BY ZenonT(30), <1>12 DEF CloseStep, Close, abortAll, AbortPublish, CloseTransport, Tick,
     Terminated, vars
<1> HIDE DEF Other
<1>13. CASE \E r \in Requests : OwnStep(r)
  <2> PICK r \in Requests : OwnStep(r)
    BY Zenon, <1>13
  <2>1. CASE CallerPublishes(r)
    BY Zenon, <1>3, <2>1, AgentFacts DEF CallerPublishes
  <2> QED BY Zenon, <1>2, <2>1
<1>14. CASE InternalStep
  BY ZenonT(30), <1>3, <1>4, <1>5, <1>11, <1>12, <1>14 DEF InternalStep, OtherPublishes
<1>15. \/ \E q \in Requests : OwnStep(q) \/ PeerStep(q)
       \/ RxStep \/ InternalStep \/ Close \/ Tick \/ Terminated \/ UNCHANGED vars
  BY ZenonT(30) DEF Next, OwnStep
<1> QED BY ZenonT(30), <1>5, <1>9, <1>10, <1>12, <1>13, <1>14, <1>15

Waiting == {"sendWait", "acked", "wait", "expired", "resend"}

\* Where a caller's step leads, and from where.
LEMMA OwnMoves ==
  ASSUME TypeInv, NEW r \in Requests, OwnStep(r)
  PROVE  /\ pc'[r] \in Waiting => pc[r] \in Waiting \/ Send(r) \/ SendWindow(r)
         /\ pc'[r] = "sendWait" => SendWindow(r)
         /\ pc'[r] = "registered" => register(r)
         /\ pc'[r] = "resend" => onTimeout(r)
         /\ ~Registered(r)' => ~Registered(r)
<1> USE DEF Goto, TypeInv
<1>1. ASSUME Start(r) \/ Refuse(r) \/ AllocateGivesUp(r) \/ AllocateFails(r) \/ Allocate(r)
      PROVE  /\ pc[r] \in {"idle", "alloc", "allocWait"}
             /\ pc'[r] \in {"alloc", "allocWait", "reserved", "done"}
  BY ZenonT(30), <1>1 DEF Start, Refuse, AllocateGivesUp, AllocateFails, Allocate
<1>2. ASSUME register(r) PROVE pc[r] = "reserved" /\ pc'[r] = "registered"
  BY Zenon, <1>2 DEF register
<1>3. ASSUME Send(r) PROVE pc[r] = "registered" /\ pc'[r] \in {"wait", "finishing"}
  BY Zenon, <1>3 DEF Send, EndWith
<1>4. ASSUME SegmentsTooLarge(r) \/ enterSendingSegments(r)
      PROVE  pc[r] = "registered" /\ r \in Segmented /\ pc'[r] \in {"finishing", "sending", "lost"}
  BY ZenonT(30), <1>4 DEF SegmentsTooLarge, enterSendingSegments, EndWith
<1>5. ASSUME SendWindow(r) PROVE pc[r] = "sending" /\ pc'[r] \in {"sendWait", "finishing"}
  BY Zenon, <1>5 DEF SendWindow, EndWith
<1>6. ASSUME AckProgress(r) \/ SendGivesUp(r)
      PROVE  pc[r] = "sendWait" /\ pc'[r] \in {"acked", "sending", "finishing"}
  BY ZenonT(30), <1>6 DEF AckProgress, SendGivesUp, EndWith
<1>7. ASSUME enterAwaitingResponse(r) PROVE pc[r] = "acked" /\ pc'[r] \in {"wait", "lost"}
  BY Zenon, <1>7 DEF enterAwaitingResponse
<1>8. ASSUME Cancel(r) \/ CloseSeen(r) \/ TimerFires(r)
      PROVE  pc[r] = "wait" /\ pc'[r] \in {"finishing", "expired"}
  BY ZenonT(30), <1>8 DEF Cancel, CloseSeen, TimerFires, EndWith
<1>9. ASSUME onTimeout(r)
      PROVE  pc[r] = "expired" /\ pc'[r] \in {"lost", "wait", "resend", "finishing"}
  BY Zenon, <1>9 DEF onTimeout, EndWith
<1>10. ASSUME Retransmit(r) PROVE pc[r] = "resend" /\ pc'[r] = "wait"
  BY Zenon, <1>10 DEF Retransmit
<1>11. ASSUME TakeResult(r) PROVE pc[r] \in {"wait", "lost"} /\ pc'[r] = "deferred"
  BY Zenon, <1>11 DEF TakeResult, Return
<1>12. ASSUME Deferred(r) PROVE pc[r] = "deferred" /\ pc'[r] = "done"
  BY Zenon, <1>12 DEF Deferred
<1>13. ASSUME CallerPublishes(r) PROVE pc'[r] \in {"lost", "deferred"}
  BY Zenon, <1>13 DEF CallerPublishes, Return
<1>14. \/ Start(r) \/ Refuse(r) \/ AllocateGivesUp(r) \/ AllocateFails(r) \/ Allocate(r)
       \/ register(r) \/ Send(r) \/ SegmentsTooLarge(r) \/ enterSendingSegments(r)
       \/ SendWindow(r) \/ AckProgress(r) \/ SendGivesUp(r) \/ enterAwaitingResponse(r)
       \/ Cancel(r) \/ CloseSeen(r) \/ TimerFires(r) \/ onTimeout(r) \/ Retransmit(r)
       \/ TakeResult(r) \/ Deferred(r) \/ CallerPublishes(r)
  BY ZenonT(30) DEF OwnStep, CallerStep
<1> USE DEF Waiting, Registered
<1>15. CASE \/ Start(r) \/ Refuse(r) \/ AllocateGivesUp(r) \/ AllocateFails(r) \/ Allocate(r)
  BY Zenon, <1>1, <1>15
<1>16. CASE SegmentsTooLarge(r) \/ enterSendingSegments(r) \/ register(r) \/ Send(r)
  BY Zenon, <1>2, <1>3, <1>4, <1>16
<1>17. CASE SendWindow(r) \/ AckProgress(r) \/ SendGivesUp(r) \/ enterAwaitingResponse(r)
  BY Zenon, <1>5, <1>6, <1>7, <1>17
<1>18. CASE Cancel(r) \/ CloseSeen(r) \/ TimerFires(r) \/ onTimeout(r) \/ Retransmit(r)
  BY Zenon, <1>8, <1>9, <1>10, <1>18
<1>19. CASE TakeResult(r) \/ Deferred(r) \/ CallerPublishes(r)
  BY Zenon, <1>11, <1>12, <1>13, <1>19
<1> QED BY Zenon, <1>14, <1>15, <1>16, <1>17, <1>18, <1>19

\* On an open client, the transaction the manager finds for a caller that has
\* something to do is its own, if it finds one.
LEMMA BusyOwns ==
  ASSUME TypeInv, OwnInv, ~Closed, NEW r \in Requests, Busy(r)
  PROVE  /\ inUse[id[r]] = r \/ quarantine[id[r]] = ApduTimeout
         /\ inUse[id[r]] \in {r, NoReq}
<1>1. inUse[id[r]] = r \/ quarantine[id[r]] = ApduTimeout
  BY Zenon DEF OwnInv, BusyIsHeld, Held
<1>2. ApduTimeout # 0 /\ id[r] \in IDs
  BY BoundsAssumption DEF TypeInv
<1>3. quarantine[id[r]] # 0 => inUse[id[r]] = NoReq
  BY Zenon, <1>2 DEF OwnInv, FreeIsClear
<1> QED BY Zenon, <1>1, <1>2, <1>3

\* Nobody but its caller takes an invoke ID from a request without putting it
\* in quarantine, and a quarantine is not shortened.
LEMMA HeldMoves ==
  ASSUME TypeInv, OwnTypes, OnceInv, OwnInv, sends \in [Requests -> Nat], [Next]_vars,
         ~Closed', ~Tick, NEW r \in Requests, Registered(r), ~complete(Caller(r))
  PROVE  /\ id'[r] = id[r]
         /\ inUse[id[r]] = r => inUse'[id[r]] = r \/ quarantine'[id[r]] = ApduTimeout
         /\ quarantine[id[r]] # 0 => quarantine'[id[r]] = quarantine[id[r]]
<1>1. id'[r] = id[r] /\ ~Closed
  BY Zenon, CallerFrames DEF Allocate, Registered
<1> DEFINE i == id[r]
<1>2. i \in IDs /\ r # NoReq /\ ApduTimeout # 0
  BY BoundsAssumption, RequestsAssumption DEF TypeInv
<1> HIDE DEF i
<1>3. ~abortAll
  <2>1. abortAll => closer'.step = "publishing"
    BY DEF abortAll
  <2> QED BY Zenon, <2>1 DEF Closed
<1>4. quarantine[i] # 0 => inUse[i] = NoReq
  BY Zenon, <1>2 DEF OwnInv, FreeIsClear
<1>5. ASSUME NEW a \in Agents, complete(a)
      PROVE  /\ inUse[i] = r => inUse'[i] = r \/ quarantine'[i] = ApduTimeout
             /\ quarantine[i] # 0 => quarantine'[i] = quarantine[i]
  <2>1. /\ fin[a].step = "lock"
        /\ inUse' = [inUse EXCEPT ![fin[a].id] = NoReq]
        /\ quarantine' = IF inUse[fin[a].id] # NoReq /\ fin[a].hold > 0
                         THEN [quarantine EXCEPT ![fin[a].id] = fin[a].hold]
                         ELSE quarantine
    BY Zenon, <1>5 DEF complete
  <2>2. fin[a].hold \in {0, ApduTimeout} /\ fin[a].id \in IDs
    BY Zenon DEF TypeInv, FinSet
  <2>3. CASE fin[a].id # i
    BY Zenon, <1>2, <2>1, <2>3 DEF TypeInv, OwnTypes
  <2>4. CASE fin[a].id = i /\ inUse[i] = NoReq
    BY Zenon, <1>2, <2>1, <2>4
  <2>5. CASE fin[a].id = i /\ inUse[i] # NoReq /\ fin[a].hold = ApduTimeout
    <3>1. fin[a].hold > 0
      BY <2>5, BoundsAssumption
    <3>2. quarantine'[i] = ApduTimeout
      BY Zenon, <1>2, <2>1, <2>5, <3>1 DEF OwnTypes
    <3> QED BY Zenon, <1>4, <2>5, <3>2
  <2>6. CASE fin[a].id = i /\ inUse[i] # NoReq /\ fin[a].hold = 0
    <3>1. PICK s \in Requests : a = Caller(s)
      BY Zenon, <2>1, <2>6 DEF OwnInv, HoldIsWhole
    <3>2. Locks(s) /\ id[s] = i /\ s # r
      BY Zenon, <1>5, <2>1, <2>6, <3>1 DEF Locks, OnceInv, Finishers
    <3>3. inUse[i] \in {s, NoReq}
      BY Zenon, <1>1, <2>6, <3>1, <3>2, BusyOwns DEF Busy
    <3> QED BY Zenon, <1>4, <2>6, <3>2, <3>3
  <2> QED BY Zenon, <2>2, <2>3, <2>4, <2>5, <2>6
<1>6. ASSUME NEW q \in Requests, register(q), inUse[i] = r PROVE inUse'[i] = r
  <2>1. id[q] # i /\ inUse' = [inUse EXCEPT ![id[q]] = q]
    BY Zenon, <1>2, <1>6 DEF register, OnceInv, IDsExclusive
  <2> QED BY Zenon, <1>2, <1>6, <2>1 DEF TypeInv
<1>7. inUse[i] = r => inUse'[i] = r \/ quarantine'[i] = ApduTimeout
  BY Zenon, <1>3, <1>5, <1>6, CallerFrames
<1>8. quarantine[i] # 0 => quarantine'[i] = quarantine[i]
  BY Zenon, <1>3, <1>5, Frames
<1> QED BY Zenon, <1>1, <1>7, <1>8 DEF i

\* Every step keeps that who waits has sent.
LEMMA StepSentFirst ==
  ASSUME TypeInv, sends \in [Requests -> Nat], SentFirst, [Next]_vars
  PROVE  SentFirst'
<1> SUFFICES ASSUME NEW r \in Requests, pc'[r] \in Waiting PROVE tx'[r].sent
  BY Zenon DEF SentFirst, Waiting
<1>1. ASSUME Send(r) \/ SendWindow(r) PROVE tx'[r].sent
  <2>1. tx'[r] = [tx[r] EXCEPT !.sent = TRUE] /\ tx[r] \in TxSet
    BY Zenon, <1>1 DEF Send, SendWindow, TypeInv
  <2> QED BY <2>1 DEF TxSet
<1>2. ASSUME pc[r] \in Waiting PROVE tx'[r].sent
  <2>1. tx[r].sent
    BY Zenon, <1>2 DEF SentFirst, Waiting
  <2>2. ~register(r) /\ ~Deferred(r)
    BY Zenon, <1>2 DEF register, Deferred, Waiting
  <2> QED BY Zenon, <2>1, <2>2, TxFrames
<1> QED BY Zenon, <1>1, <1>2, CallerFrames, OwnMoves

\* Every step keeps the count of transmissions.
LEMMA StepCounted ==
  ASSUME TypeInv, TypeInv', OwnTypes, OnceInv, OwnInv, SentInv, [Next]_vars
  PROVE  sends' \in [Requests -> Nat] /\ Counted'
<1>1. sends \in [Requests -> Nat]
  BY Zenon DEF SentInv
<1>2. sends' \in [Requests -> Nat]
  <2>1. ASSUME NEW q \in Requests, Send(q) \/ Retransmit(q) \/ Deferred(q)
        PROVE  sends' \in [Requests -> Nat]
    <3>1. \E n \in Nat : sends' = [sends EXCEPT ![q] = n]
      <4>1. sends[q] + 1 \in Nat /\ 0 \in Nat
        BY <1>1
      <4> QED BY Zenon, <1>1, <2>1, <4>1 DEF Send, Retransmit, Deferred
    <3> QED BY Zenon, <1>1, <3>1
  <2> QED BY Zenon, <1>1, <2>1, SendsFrame
<1> SUFFICES ASSUME NEW r \in Requests
             PROVE  /\ ~Registered(r)' \/ pc'[r] = "registered" => sends'[r] = 0
                    /\ r \notin Repeatable => pc'[r] # "resend" /\ sends'[r] <= 1
                    /\ r \in Repeatable /\ ~Closed' =>
                         sends'[r] + tx'[r].retries + Owing(r)' <= 1 + RetryCount
  BY Zenon, <1>2 DEF Counted
<1>3. /\ ~Registered(r) \/ pc[r] = "registered" => sends[r] = 0
      /\ r \notin Repeatable => pc[r] # "resend" /\ sends[r] <= 1
      /\ r \in Repeatable /\ ~Closed => sends[r] + tx[r].retries + Owing(r) <= 1 + RetryCount
  BY Zenon DEF SentInv, Counted
<1>4. /\ sends[r] \in Nat /\ sends'[r] \in Nat
      /\ tx[r].retries \in 0 .. RetryCount /\ tx'[r].retries \in 0 .. RetryCount
      /\ RetryCount \in Nat
  BY <1>1, <1>2, BoundsAssumption DEF TypeInv, TxSet
<1>5. /\ Closed => Closed'
      /\ pc'[r] = pc[r] \/ OwnStep(r)
      /\ sends'[r] = sends[r] \/ Send(r) \/ Retransmit(r) \/ Deferred(r)
      /\ tx'[r].retries <= tx[r].retries \/ register(r)
  BY Zenon, <1>1, CallerFrames, TxFrames
<1>6. CASE ~OwnStep(r)
  <2>1. /\ pc'[r] = pc[r] /\ sends'[r] = sends[r] /\ tx'[r].retries <= tx[r].retries
        /\ Closed => Closed'
    BY Zenon, <1>5, <1>6 DEF OwnStep, CallerStep
  <2>2. (Registered(r)' <=> Registered(r)) /\ Owing(r)' = Owing(r)
    BY Zenon, <2>1 DEF Registered, Owing
  <2>3. Owing(r) \in {0, 1}
    BY Zenon DEF Owing
  <2>4. r \in Repeatable /\ ~Closed' =>
          sends'[r] + tx'[r].retries + Owing(r)' <= 1 + RetryCount
    BY <1>3, <1>4, <2>1, <2>2, <2>3
  <2> QED BY Zenon, <1>3, <2>1, <2>2, <2>4
<1>7. CASE register(r)
  <2>1. pc[r] = "reserved" /\ pc'[r] = "registered" /\ sends'[r] = sends[r]
    BY Zenon, <1>7 DEF register, Goto, netVars, TypeInv
  <2>2. sends'[r] = 0 /\ Owing(r)' = 1
    BY Zenon, <1>3, <2>1 DEF Registered, Owing
  <2> QED BY <1>4, <2>1, <2>2
<1>8. CASE Send(r)
  <2>1. /\ pc[r] = "registered" /\ pc'[r] \in {"wait", "finishing"}
        /\ sends'[r] = sends[r] + 1 /\ ~register(r)
    BY Zenon, <1>1, <1>8 DEF Send, EndWith, Goto, TypeInv, register
  <2>2. sends[r] = 0 /\ Owing(r) = 1 /\ Owing(r)' = 0 /\ Registered(r)'
    BY Zenon, <1>3, <2>1 DEF Registered, Owing
  <2> QED BY <1>3, <1>4, <1>5, <2>1, <2>2
<1>9. CASE Retransmit(r)
  <2>1. pc[r] = "resend" /\ pc'[r] = "wait" /\ sends'[r] = sends[r] + 1 /\ ~register(r)
    BY Zenon, <1>1, <1>9 DEF Retransmit, Goto, TypeInv, register
  <2>2. r \in Repeatable /\ Owing(r) = 1 /\ Owing(r)' = 0 /\ Registered(r)'
    BY Zenon, <1>3, <2>1 DEF Registered, Owing
  <2> QED BY <1>3, <1>4, <1>5, <2>1, <2>2
<1>10. CASE Deferred(r)
  <2>1. pc'[r] = "done" /\ sends'[r] = 0
    BY Zenon, <1>1, <1>10 DEF Deferred, Goto, TypeInv
  <2>2. Owing(r)' = 0
    BY Zenon, <2>1 DEF Owing
  <2> QED BY <1>4, <2>1, <2>2
<1>11. CASE onTimeout(r) /\ pc'[r] = "resend"
  <2>1. pc[r] = "expired" /\ sends'[r] = sends[r] /\ ~register(r)
    BY Zenon, <1>11 DEF onTimeout, netVars, register
  <2>2. /\ inUse[id[r]] # NoReq /\ r \in Repeatable
        /\ tx' = [tx EXCEPT ![inUse[id[r]]].retries = @ - 1]
    <3>1. "resend" \notin {"lost", "wait", "finishing"}
      BY Zenon
    <3> QED BY Zenon, <1>11, <3>1 DEF onTimeout, EndWith, Goto, TypeInv
  <2>3. Owing(r) = 0 /\ Owing(r)' = 1 /\ Registered(r)'
    BY Zenon, <1>11, <2>1 DEF Registered, Owing
  <2>4. ASSUME ~Closed PROVE tx'[r].retries = tx[r].retries - 1
    <3>1. inUse[id[r]] = r
      BY Zenon, <2>1, <2>2, <2>4, BusyOwns DEF Busy
    <3>2. tx'[r] = [tx[r] EXCEPT !.retries = @ - 1] /\ tx[r] \in TxSet
      BY Zenon, <2>2, <3>1 DEF TypeInv
    <3> QED BY <3>2 DEF TxSet
  <2>5. ~Closed' => sends'[r] + tx'[r].retries + Owing(r)' <= 1 + RetryCount
    BY <1>3, <1>4, <1>5, <2>1, <2>2, <2>3, <2>4
  <2>6. pc'[r] # "registered"
    BY Zenon, <1>11
  <2> QED BY Zenon, <2>2, <2>3, <2>5, <2>6
<1>12. CASE /\ OwnStep(r) /\ ~register(r) /\ ~Send(r) /\ ~Retransmit(r) /\ ~Deferred(r)
            /\ pc'[r] # "resend"
  <2>1. /\ sends'[r] = sends[r] /\ tx'[r].retries <= tx[r].retries
        /\ pc'[r] \notin {"registered", "resend"}
        /\ ~Registered(r)' => ~Registered(r)
    BY Zenon, <1>5, <1>12, OwnMoves
  <2>2. Owing(r)' = 0 /\ Owing(r) \in {0, 1}
    BY Zenon, <2>1 DEF Owing
  <2>3. r \in Repeatable /\ ~Closed' =>
          sends'[r] + tx'[r].retries + Owing(r)' <= 1 + RetryCount
    BY <1>3, <1>4, <1>5, <2>1, <2>2
  <2> QED BY Zenon, <1>3, <2>1, <2>3
<1> QED BY Zenon, <1>6, <1>7, <1>8, <1>9, <1>10, <1>11, <1>12, OwnMoves

\* Every step keeps the callers of an open client within the quarantine.
LEMMA StepOpenIsHeld ==
  ASSUME TypeInv, OwnTypes, OnceInv, OwnInv, SentInv, SegTimeout < ApduTimeout,
         [Next]_vars
  PROVE  OpenIsHeld'
<1>1. sends \in [Requests -> Nat] /\ SentFirst
  BY Zenon DEF SentInv
<1> SUFFICES ASSUME ~Closed', NEW r \in Requests
             PROVE  /\ pc'[r] = "sendWait" =>
                         /\ snd'[r].timer >= 0
                         /\ inUse'[id'[r]] = r \/ quarantine'[id'[r]] > snd'[r].timer
                    /\ Locks(r)' => inUse'[id'[r]] = r \/ quarantine'[id'[r]] > 0
  BY Zenon DEF OpenIsHeld
<1>2. ~Closed /\ Caller(r) \in Agents
  BY Zenon, <1>1, CallerFrames, AgentFacts
<1>3. /\ pc[r] = "sendWait" => /\ snd[r].timer >= 0
                               /\ inUse[id[r]] = r \/ quarantine[id[r]] > snd[r].timer
      /\ Locks(r) => inUse[id[r]] = r \/ quarantine[id[r]] > 0
  BY Zenon, <1>2 DEF SentInv, OpenIsHeld
<1>4. /\ id[r] \in IDs /\ quarantine[id[r]] \in Nat /\ snd[r].timer \in Off .. SegTimeout
      /\ ApduTimeout \in Nat \ {0} /\ SegTimeout \in Nat
  BY BoundsAssumption DEF TypeInv, OwnTypes, Timer, Off
<1>5. CASE Tick
  <2>1. /\ UNCHANGED <<pc, id, inUse, fin>> /\ CallerQuiet(r) /\ fin[Caller(r)] = NotFinishing
        /\ snd'[r] = [snd[r] EXCEPT !.timer = Less(@)]
        /\ quarantine'[id[r]] = Less(quarantine[id[r]])
    BY Zenon, <1>2, <1>4, <1>5 DEF Tick, Quiet, callerVars
  <2>2. ~Locks(r)'
    BY <2>1 DEF Locks, NotFinishing
  <2>3. pc[r] = "sendWait" => snd[r].timer # 0
    BY Zenon, <2>1 DEF CallerQuiet
  <2>4. snd'[r].timer = Less(snd[r].timer)
    BY <2>1 DEF OwnTypes
  <2>5. snd[r].timer > 0 => snd'[r].timer = snd[r].timer - 1
    BY <1>4, <2>4 DEF Less, Off
  <2>6. quarantine[id[r]] > 0 => quarantine'[id[r]] = quarantine[id[r]] - 1
    BY <1>4, <2>1 DEF Less
  <2>7. pc[r] = "sendWait" =>
          /\ snd'[r].timer >= 0
          /\ inUse[id[r]] = r \/ quarantine'[id[r]] > snd'[r].timer
    BY <1>3, <1>4, <2>3, <2>5, <2>6 DEF Off
  <2> QED BY Zenon, <2>1, <2>2, <2>7
<1>6. ASSUME ~Tick, Registered(r), ~complete(Caller(r))
      PROVE  /\ id'[r] = id[r]
             /\ inUse[id[r]] = r => inUse'[id[r]] = r \/ quarantine'[id[r]] = ApduTimeout
             /\ quarantine[id[r]] # 0 => quarantine'[id[r]] = quarantine[id[r]]
  BY Zenon, <1>1, <1>6, HeldMoves
<1>7. ASSUME ~Tick, pc'[r] = "sendWait"
      PROVE  /\ snd'[r].timer >= 0
             /\ inUse'[id'[r]] = r \/ quarantine'[id'[r]] > snd'[r].timer
  <2>1. CASE OwnStep(r)
    <3>1. SendWindow(r)
      BY Zenon, <1>7, <2>1, OwnMoves
    <3>2. /\ pc[r] = "sending" /\ UNCHANGED <<id, inUse, quarantine>>
          /\ snd' = [snd EXCEPT ![r].timer = SegTimeout]
      <4>1. pc'[r] # "finishing"
        BY Zenon, <1>7
      <4> QED BY Zenon, <3>1, <4>1 DEF SendWindow, EndWith, Goto, TypeInv, mgrVars
    <3>3. inUse[id[r]] = r \/ quarantine[id[r]] = ApduTimeout
      BY Zenon, <1>2, <3>2, BusyOwns DEF Busy
    <3>4. snd'[r].timer = SegTimeout
      BY <3>2 DEF OwnTypes
    <3> QED BY <1>4, <3>2, <3>3, <3>4
  <2>2. CASE ~OwnStep(r)
    <3>1. pc[r] = "sendWait"
      BY Zenon, <1>1, <1>7, <2>2, CallerFrames
    <3>2. Registered(r) /\ ~complete(Caller(r))
      BY Zenon, <3>1 DEF Registered, complete, OnceInv, Finishers
    <3>3. snd'[r].timer = snd[r].timer
      <4>1. snd \in [Requests -> [ack : BOOLEAN, timer : Timer(SegTimeout), rounds : Int]]
        BY Zenon DEF OwnTypes
      <4>2. ASSUME NEW q \in Requests,
                   AckProgress(q) \/ Deferred(q) \/ SendWindow(q) \/ enterSendingSegments(q)
            PROVE  q # r
        BY Zenon, <2>2, <4>2 DEF OwnStep, CallerStep
      <4>3. ASSUME NEW q \in Requests, AckProgress(q) \/ Deferred(q)
            PROVE  snd'[r] = snd[r]
        BY Zenon, <4>1, <4>2, <4>3 DEF AckProgress, Deferred
      <4>4. ASSUME NEW q \in Requests, RxSegmentACK(q)
            PROVE  snd'[r] = snd[r] \/ snd'[r] = [snd[r] EXCEPT !.ack = TRUE]
        BY Zenon, <4>1, <4>4 DEF RxSegmentACK
      <4>5. snd'[r] = snd[r] \/ snd'[r] = [snd[r] EXCEPT !.ack = TRUE]
        BY Zenon, <1>7, <4>1, <4>2, <4>3, <4>4, SenderFrame
      <4> QED BY <4>1, <4>5
    <3> QED BY <1>3, <1>4, <1>6, <1>7, <3>1, <3>2, <3>3 DEF Off
  <2> QED BY Zenon, <2>1, <2>2
<1>8. ASSUME ~Tick, Locks(r)'
      PROVE  inUse'[id'[r]] = r \/ quarantine'[id'[r]] > 0
  <2>1. fin'[Caller(r)].step = "lock" /\ ~complete(Caller(r))
    <3>1. complete(Caller(r)) => fin'[Caller(r)] = [fin[Caller(r)] EXCEPT !.step = "publish",
                                                      !.tx = inUse[fin[Caller(r)].id]]
      BY Zenon, <1>2 DEF complete, TypeInv
    <3>2. complete(Caller(r)) => fin'[Caller(r)].step = "publish"
      BY <1>2, <3>1 DEF TypeInv, FinSet
    <3> QED BY Zenon, <1>8, <3>2 DEF Locks
  <2>2. CASE fin'[Caller(r)] = fin[Caller(r)]
    <3>1. Locks(r) /\ Registered(r)
      BY Zenon, <2>1, <2>2 DEF Locks, Registered, OnceInv, Finishers
    <3> QED BY <1>3, <1>4, <1>6, <1>8, <2>1, <3>1
  <2>3. CASE pc[r] \in LivePCs
    <3>1. Registered(r)
      BY Zenon, <2>3 DEF LivePCs, Registered
    <3>2. pc[r] # "sendWait" => Busy(r)
      BY Zenon, <2>3 DEF LivePCs, Busy
    <3>3. inUse[id[r]] = r \/ quarantine[id[r]] > 0
      BY <1>2, <1>3, <1>4, <3>2, BusyOwns DEF Off
    <3> QED BY <1>4, <1>6, <1>8, <2>1, <3>1, <3>3
  <2>4. fin'[Caller(r)] # NotFinishing
    BY <2>1 DEF NotFinishing
  <2> QED BY Zenon, <1>1, <1>2, <2>1, <2>2, <2>3, <2>4, FinFrames, AgentFacts
<1> QED BY Zenon, <1>5, <1>7, <1>8

\* Every step keeps that a write without an answer is told so.
LEMMA StepOutcomeIsTold ==
  ASSUME TypeInv, OwnTypes, OnceInv, OwnInv, SentInv, [Next]_vars
  PROVE  OutcomeIsTold'
<1> DEFINE Still(res, q) == q \in Writes /\ res.kind \in Unanswered => res.unknown \/ Closed'
<1>1. sends \in [Requests -> Nat] /\ SentFirst /\ OutcomeIsTold
  BY Zenon DEF SentInv
<1>2. \A q \in Requests : \A res : Told(res, q) => Still(res, q)
  BY Zenon, <1>1, CallerFrames DEF Told
<1>3. /\ NoResult.kind \notin Unanswered /\ NotFinishing.res = NoResult
      /\ NotFinishing.step = "none" /\ "closed" \notin Unanswered
  BY DEF NoResult, NotFinishing, Unanswered
<1>4. ASSUME NEW a \in Agents, complete(a)
      PROVE  /\ fin'[a].res = fin[a].res /\ fin'[a].tx = inUse[fin[a].id] /\ fin[a].step = "lock"
  <2>1. /\ fin'[a] = [fin[a] EXCEPT !.step = "publish", !.tx = inUse[fin[a].id]]
        /\ fin[a].step = "lock" /\ fin[a] \in FinSet
    BY Zenon, <1>4 DEF complete, TypeInv
  <2> QED BY <2>1 DEF FinSet
<1>5. \A i, res, hold : Finish(i, res, hold).step = "lock" /\ Finish(i, res, hold).res = res
  BY DEF Finish
<1>6. ASSUME NEW r \in Requests PROVE Still(fin'[Caller(r)].res, r)
  <2>1. Caller(r) \in Agents /\ Told(fin[Caller(r)].res, r)
    BY Zenon, <1>1, AgentFacts DEF OutcomeIsTold
  <2>2. CASE fin'[Caller(r)].res = fin[Caller(r)].res
    BY Zenon, <1>2, <2>1, <2>2
  <2>3. CASE fin'[Caller(r)] = NotFinishing
    BY Zenon, <1>3, <2>3
  <2>4. ASSUME NEW res, NEW hold, fin'[Caller(r)] = Finish(id[r], res, hold), Told(res, r)
        PROVE  Still(fin'[Caller(r)].res, r)
    <3>1. fin'[Caller(r)].res = res
      BY <2>4 DEF Finish
    <3> QED BY Zenon, <1>2, <2>4, <3>1
  <2> HIDE DEF Still
  <2>5. \/ fin'[Caller(r)] = fin[Caller(r)] \/ fin'[Caller(r)] = NotFinishing
        \/ complete(Caller(r))
        \/ \E res, hold : fin'[Caller(r)] = Finish(id[r], res, hold) /\ Told(res, r)
    <3>1. \/ fin'[Caller(r)] = fin[Caller(r)] \/ fin'[Caller(r)] = NotFinishing
          \/ complete(Caller(r))
          \/ \E q \in Requests :
               /\ Caller(r) = Caller(q)
               /\ \E res, hold : fin'[Caller(r)] = Finish(id[q], res, hold) /\ Told(res, q)
          \/ \A q \in Requests : Caller(r) # Caller(q)
      BY Zenon, <1>1, <2>1, FinFrames
    <3>2. \A q : Caller(r) = Caller(q) => r = q
      BY Zenon, AgentFacts
    <3> QED BY Zenon, <3>1, <3>2
  <2>6. fin'[Caller(r)] = fin[Caller(r)] => fin'[Caller(r)].res = fin[Caller(r)].res
    BY Zenon
  <2>7. complete(Caller(r)) => fin'[Caller(r)].res = fin[Caller(r)].res
    BY Zenon, <1>4, <2>1
  <2> QED BY Zenon, <2>2, <2>3, <2>4, <2>5, <2>6, <2>7
<1>7. ASSUME NEW r \in Requests PROVE Still(tx'[r].result, r)
  <2>1. Told(tx[r].result, r) /\ Told(maybeUnknown(r, "closed"), r)
    BY Zenon, <1>1, <1>3, LocalIsTold DEF OutcomeIsTold
  <2>2. ASSUME NEW a \in Agents, Publish(a), fin[a].tx = r PROVE Told(fin[a].res, r)
    BY Zenon, <1>1, <2>2 DEF OutcomeIsTold, Takes, Publish
  <2>3. tx'[r].result = NoResult => Still(tx'[r].result, r)
    BY Zenon, <1>3
  <2> HIDE DEF Still
  <2> QED BY Zenon, <1>2, <2>1, <2>2, <2>3, TxFrames
<1>8. ASSUME NEW r \in Requests PROVE Still(outcome'[r], r)
  <2>1. Told(outcome[r], r) /\ Told(tx[r].result, r) /\ Told(fin[Caller(r)].res, r)
    BY Zenon, <1>1 DEF OutcomeIsTold
  <2>2. ASSUME NEW q \in Requests, CallerPublishes(q) \/ TakeResult(q) \/ Deferred(q)
        PROVE  outcome'[r] \in {outcome[r], tx[r].result, fin[Caller(r)].res, NoResult}
    BY ZenonT(30), <2>2 DEF CallerPublishes, TakeResult, Deferred, Return, OwnTypes
  <2>3. outcome'[r] \in {outcome[r], tx[r].result, fin[Caller(r)].res, NoResult}
    BY Zenon, <2>2, Frames
  <2>4. outcome'[r] = NoResult => Still(outcome'[r], r)
    BY Zenon, <1>3
  <2> HIDE DEF Still
  <2> QED BY Zenon, <1>2, <2>1, <2>3, <2>4
<1>9. ASSUME NEW a \in Agents, NEW t \in Requests, Takes(a, t)' PROVE Still(fin'[a].res, t)
  <2>1. CASE fin'[a] = fin[a]
    <3>1. Told(fin[a].res, t)
      BY Zenon, <1>1, <1>9, <2>1 DEF OutcomeIsTold, Takes
    <3> QED BY Zenon, <1>2, <2>1, <3>1
  <2>2. CASE complete(a)
    <3>1. fin'[a].res = fin[a].res /\ inUse[fin[a].id] = t /\ fin[a].step = "lock"
      BY Zenon, <1>4, <1>9, <2>2 DEF Takes
    <3>2. CASE \A r \in Requests : a # Caller(r)
      BY Zenon, <1>1, <3>1, <3>2 DEF OutcomeIsTold
    <3>3. ASSUME NEW r \in Requests, a = Caller(r) PROVE Still(fin'[a].res, t)
      <4>1. CASE Closed
        BY Zenon, <1>1, <4>1, CallerFrames
      <4>2. CASE ~Closed
        <5>1. Locks(r) /\ fin[a].id = id[r]
          BY Zenon, <3>1, <3>3 DEF Locks, OnceInv, Finishers
        <5>2. inUse[id[r]] = r \/ quarantine[id[r]] > 0
          BY Zenon, <4>2, <5>1 DEF SentInv, OpenIsHeld
        <5>3. quarantine[id[r]] > 0 => inUse[id[r]] = NoReq
          <6>1. id[r] \in IDs /\ ~(0 > 0)
            BY DEF TypeInv
          <6> QED BY Zenon, <6>1 DEF OwnInv, FreeIsClear
        <5>4. t = r
          BY Zenon, <3>1, <5>1, <5>2, <5>3, RequestsAssumption
        <5> QED BY Zenon, <1>6, <3>3, <5>4
      <4> QED BY Zenon, <4>1, <4>2
    <3> QED BY Zenon, <3>2, <3>3
  <2>3. fin'[a].step = "publish"
    BY Zenon, <1>9 DEF Takes
  <2>4. /\ fin'[a] # NotFinishing
        /\ \A i, res, hold : fin'[a] # Finish(i, res, hold)
    BY <1>3, <1>5, <2>3
  <2>5. \/ fin'[a] = fin[a] \/ fin'[a] = NotFinishing \/ complete(a)
        \/ \E i, res, hold : fin'[a] = Finish(i, res, hold)
    <3>1. \/ fin'[a] = fin[a] \/ fin'[a] = NotFinishing \/ complete(a)
          \/ \E r \in Requests :
               /\ a = Caller(r) /\ pc[r] \in LivePCs /\ pc'[r] = "finishing"
               /\ \E res, hold : fin'[a] = Finish(id[r], res, hold) /\ Told(res, r)
          \/ /\ \A r \in Requests : a # Caller(r)
             /\ \E i, res, hold : /\ fin'[a] = Finish(i, res, hold)
                                  /\ res.kind \notin Unanswered
      BY Zenon, <1>1, FinFrames
    <3> QED BY Zenon, <3>1
  <2> QED BY Zenon, <2>1, <2>2, <2>4, <2>5
<1>10. ASSUME NEW a \in Agents, \A r \in Requests : a # Caller(r)
       PROVE  fin'[a].res.kind \notin Unanswered
  <2>1. fin[a].res.kind \notin Unanswered
    BY Zenon, <1>1, <1>10 DEF OutcomeIsTold
  <2>2. \/ fin'[a] = fin[a] \/ fin'[a] = NotFinishing \/ complete(a)
        \/ \E i, res, hold : fin'[a] = Finish(i, res, hold) /\ res.kind \notin Unanswered
    BY Zenon, <1>1, <1>10, FinFrames
  <2>3. ASSUME NEW i, NEW res, NEW hold, fin'[a] = Finish(i, res, hold)
        PROVE  fin'[a].res = res
    BY <2>3 DEF Finish
  <2>4. complete(a) => fin'[a].res = fin[a].res
    BY Zenon, <1>4
  <2> QED BY Zenon, <1>3, <2>1, <2>2, <2>3, <2>4
<1> QED BY Zenon, <1>6, <1>7, <1>8, <1>9, <1>10 DEF OutcomeIsTold, Told

\* Initially nothing was sent and nothing has ended.
LEMMA InitSent == Init => SentInv
<1> SUFFICES ASSUME Init PROVE SentInv
  BY Zenon
<1>1. /\ \A r \in Requests : /\ pc[r] = "idle" /\ outcome[r] = NoResult /\ sends[r] = 0
                             /\ tx[r].retries = 0 /\ tx[r].result = NoResult
      /\ \A a \in Agents : fin[a].step = "none" /\ fin[a].res = NoResult
  BY DEF Init, NotFinishing, NoTx
<1>2. NoResult.kind \notin Unanswered
  BY DEF NoResult, Unanswered
<1>3. sends \in [Requests -> Nat]
  BY DEF Init
<1>4. \A r \in Requests : Caller(r) \in Agents /\ ~Registered(r) /\ ~Locks(r) /\ Owing(r) = 0
  BY Zenon, <1>1, AgentFacts DEF Registered, Locks, Owing
<1>5. Counted
  BY <1>1, <1>4, BoundsAssumption DEF Counted
<1>6. OpenIsHeld /\ SentFirst
  BY Zenon, <1>1, <1>4 DEF OpenIsHeld, SentFirst
<1>7. OutcomeIsTold
  BY Zenon, <1>1, <1>2, <1>4 DEF OutcomeIsTold, Told, Takes
<1> QED BY Zenon, <1>3, <1>5, <1>6, <1>7 DEF SentInv

\* SentOnceOrUnknown, when no message outlives the APDU timeout and the segment
\* timeout is shorter than it (2 s and 3 s by default): no request is sent more
\* often than its policy allows (onTimeout), and a write without an answer ends
\* outcome-unknown, although the manager finds transactions by invoke ID only.
THEOREM SentOnceOrToldUnknown ==
  AnswerLife <= ApduTimeout /\ SegTimeout < ApduTimeout /\ Spec => []SentOnceOrUnknown
<1> SUFFICES ASSUME AnswerLife <= ApduTimeout, SegTimeout < ApduTimeout
             PROVE  Spec => []SentOnceOrUnknown
  OBVIOUS
<1> DEFINE I == TypeInv /\ OnceInv /\ ClosesOnce
           J == OwnTypes /\ OwnInv
<1>1. Init => J /\ SentInv
  BY Zenon, InitOwn, OwnTypesKept, InitSent
<1>2. I /\ J /\ [Next]_vars => J'
  BY Zenon, StepOwn, OwnTypesKept
<1>3. I /\ I' /\ J /\ SentInv /\ [Next]_vars => SentInv'
  <2> SUFFICES ASSUME I, I', J, SentInv, [Next]_vars PROVE SentInv'
    BY Zenon
  <2>1. SentFirst'
    BY Zenon, StepSentFirst DEF SentInv
  <2>2. sends' \in [Requests -> Nat] /\ Counted'
    BY Zenon, StepCounted
  <2>3. OpenIsHeld'
    BY Zenon, StepOpenIsHeld
  <2>4. OutcomeIsTold'
    BY Zenon, StepOutcomeIsTold
  <2> QED BY Zenon, <2>1, <2>2, <2>3, <2>4 DEF SentInv
<1>4. I /\ SentInv => SentOnceOrUnknown
  <2> SUFFICES ASSUME I, SentInv PROVE SentOnceOrUnknown
    BY Zenon
  <2>1. ASSUME NEW r \in Requests, ~(r \in Repeatable /\ Closed)
        PROVE  sends[r] <= 1 + (IF r \in Repeatable THEN RetryCount ELSE 0)
    <3>1. /\ r \notin Repeatable => sends[r] <= 1
          /\ r \in Repeatable => sends[r] + tx[r].retries + Owing(r) <= 1 + RetryCount
      BY Zenon, <2>1 DEF SentInv, Counted
    <3>2. Owing(r) \in {0, 1}
      BY Zenon DEF Owing
    <3>3. /\ sends[r] \in Nat /\ tx[r].retries \in Nat /\ RetryCount \in Nat
      BY BoundsAssumption DEF SentInv, TypeInv, TxSet
    <3>4. r \in Repeatable => sends[r] <= 1 + RetryCount
      BY <3>1, <3>2, <3>3
    <3> QED BY <3>1, <3>3, <3>4
  <2>2. \A r \in Requests : Told(outcome[r], r)
    BY Zenon DEF SentInv, OutcomeIsTold
  <2> QED BY Zenon, <2>1, <2>2, RequestsAssumption DEF SentOnceOrUnknown, Told, Unanswered
<1>5. Spec => []I
  BY Zenon, Invariance
<1> QED BY <1>1, <1>2, <1>3, <1>4, <1>5, PTL DEF Spec
=============================================================================
