--------------------------- MODULE ResponderProofs ---------------------------
(***************************************************************************)
(* Proofs about the server's responding side. First (module Responder)     *)
(* that it executes one request per requester and invoke ID at a time and  *)
(* leaves no key blocked, for any number of keys, workers, places in the   *)
(* queue and requests. Then (module SegReply) that a segmented reply is    *)
(* handed over whole or not at all, and at most once, for every window,    *)
(* limit and length.                                                       *)
(***************************************************************************)
EXTENDS Responder, SegReply, TLAPS

\* The steps of a job a worker holds.
HeldSteps == {"running", "finishing", "sending", "replied", "ended"}

\* The goroutine or the queue that has a job agrees with the job's step, and
\* no two have the same job.
Places ==
  /\ \A n \in Jobs : n > submitted => job[n].step = "none"
  /\ rx # None => job[rx].step = "submit"
  /\ \A i \in 1 .. Len(queue) : job[queue[i]].step = "queued"
  /\ \A i, j \in 1 .. Len(queue) : queue[i] = queue[j] => i = j
  /\ \A w \in Workers : worker[w] \in Jobs => job[worker[w]].step \in HeldSteps
  /\ \A v, w \in Workers : worker[v] = worker[w] /\ worker[v] \in Jobs => v = w

\* A job that is not finished is somewhere.
Somewhere ==
  \A n \in Jobs :
    /\ job[n].step = "submit" => rx = n
    /\ job[n].step = "queued" => \E i \in 1 .. Len(queue) : queue[i] = n
    /\ job[n].step \in HeldSteps => \E w \in Workers : worker[w] = n

\* Until the server is closed, a live job owns the entry of its key, and an
\* executing entry belongs to a live job of its key.
Own ==
  /\ \A k \in Keys : tx[k].kind = "exec" =>
       tx[k].job \in Jobs /\ job[tx[k].job].key = k /\ Live(tx[k].job)
  /\ state # "closed" =>
       \A n \in Jobs : Live(n) /\ job[n].key # NoKey =>
         tx[job[n].key].kind = "exec" /\ tx[job[n].key].job = n
  /\ state = "closed" => ~receiving /\ \A w \in Workers : worker[w] = Exited
  /\ ~receiving => rx = None

ResponderInv == ResponderTypeOK /\ Places /\ Somewhere /\ Own /\ OneExecution

\* The initial state satisfies the invariant.
LEMMA ResponderInitInv == ResponderInit => ResponderInv
<1> SUFFICES ASSUME ResponderInit PROVE ResponderInv BY Zenon
<1> USE ResponderAssumption
<1>1. \A n \in Jobs : job[n] = [key |-> NoKey, step |-> "none"]
  BY Zenon DEF ResponderInit, NoJob
<1>2. ResponderTypeOK
  <2>1. tx \in [Keys -> [kind : {"none", "asm", "exec"}, job : 0 .. MaxJobs]]
    BY DEF ResponderInit, NoTx, None
  <2>2. job \in [Jobs -> [key : Keys \cup {NoKey}, step : Steps]]
    BY Zenon DEF ResponderInit, NoJob, Steps
  <2>3. queue \in Seq(Jobs) /\ Len(queue) <= QueueCap
    BY DEF ResponderInit
  <2>4. worker \in [Workers -> -1 .. MaxJobs]
    BY DEF ResponderInit, None
  <2>5. receiving \in BOOLEAN
    BY Zenon DEF ResponderInit
  <2>6. submitted \in 0 .. MaxJobs /\ rx \in 0 .. MaxJobs /\ state \in {"open", "closing", "closed"}
    BY DEF ResponderInit, None
  <2> QED BY Zenon, <2>1, <2>2, <2>3, <2>4, <2>5, <2>6 DEF ResponderTypeOK
<1>3. Places /\ Somewhere
  BY <1>1 DEF ResponderInit, Places, Somewhere, HeldSteps, None, Jobs
<1>4. Own
  BY <1>1 DEF ResponderInit, Own, NoTx, Live
<1>5. OneExecution
  BY <1>1 DEF OneExecution, Live
<1> QED BY Zenon, <1>2, <1>3, <1>4, <1>5 DEF ResponderInv

\* What Move does to each job.
LEMMA MoveEffect ==
  ASSUME ResponderTypeOK, NEW n \in Jobs, NEW to \in Steps, Move(n, to)
  PROVE  /\ job' \in [Jobs -> [key : Keys \cup {NoKey}, step : Steps]]
         /\ job'[n].key = job[n].key /\ job'[n].step = to
         /\ \A m \in Jobs : m # n => job'[m] = job[m]
         /\ \A m \in Jobs : job'[m].key = job[m].key
BY Zenon DEF ResponderTypeOK, Move

\* The table of transactions alone changes, between two entries that are not
\* executing (segmentFirst, segmentTooMany, abortFromClient, expire).
LEMMA OnlyTxInv ==
  ASSUME ResponderInv, NEW k \in Keys, tx[k].kind \in {"none", "asm"},
         NEW t \in {NoTx, Reassembling}, OnlyTx(k, t)
  PROVE  ResponderInv'
<1> USE ResponderAssumption
<1>1. ResponderTypeOK'
  BY SMTT(30) DEF ResponderInv, ResponderTypeOK, OnlyTx, NoTx, Reassembling, None
<1>2. Places' /\ Somewhere' /\ OneExecution'
  BY DEF ResponderInv, Places, Somewhere, OneExecution, OnlyTx, Live
<1>3. Own'
  <2>1. t.kind # "exec" BY DEF NoTx, Reassembling
  <2>2. \A n \in Jobs : Live(n) /\ job[n].key # NoKey /\ state # "closed" => job[n].key # k
    BY Zenon DEF ResponderInv, Own
  <2>3. /\ tx'[k] = t
        /\ \A l \in Keys : l # k => tx'[l] = tx[l]
        /\ \A n \in Jobs : job[n].key \in Keys \cup {NoKey}
    BY Zenon DEF ResponderInv, ResponderTypeOK, OnlyTx
  <2>4. UNCHANGED <<job, receiving, rx, worker, state>> BY Zenon DEF OnlyTx
  <2> QED BY <2>1, <2>2, <2>3, <2>4 DEF ResponderInv, Own, Live
<1> QED BY Zenon, <1>1, <1>2, <1>3 DEF ResponderInv

\* The receive loop begins a job: of a key that is not executing, or none.
LEMMA NewJobPlaces ==
  ASSUME ResponderInv, Receiving, NEW k \in Keys \cup {NoKey}, NewJob(k),
         UNCHANGED <<queue, worker, receiving, state>>
  PROVE  /\ submitted + 1 \in Jobs /\ rx' = submitted + 1
         /\ job' \in [Jobs -> [key : Keys \cup {NoKey}, step : Steps]]
         /\ job'[submitted + 1] = [key |-> k, step |-> "submit"]
         /\ job[submitted + 1].step = "none"
         /\ \A m \in Jobs : m # submitted + 1 => job'[m] = job[m]
         /\ submitted' \in 0 .. MaxJobs
         /\ Places' /\ Somewhere'
<1> USE ResponderAssumption
<1>1. /\ submitted + 1 \in Jobs /\ submitted' = submitted + 1 /\ rx' = submitted + 1
      /\ job[submitted + 1].step = "none"
  BY DEF ResponderInv, ResponderTypeOK, Places, NewJob, Jobs
<1>2. /\ job' \in [Jobs -> [key : Keys \cup {NoKey}, step : Steps]]
      /\ job'[submitted + 1] = [key |-> k, step |-> "submit"]
      /\ \A m \in Jobs : m # submitted + 1 => job'[m] = job[m]
  BY Zenon, <1>1 DEF ResponderInv, ResponderTypeOK, NewJob, Steps
<1>3. Places'
  <2>1. \A n \in Jobs : n > submitted' => job'[n].step = "none"
    BY <1>1, <1>2 DEF ResponderInv, ResponderTypeOK, Places, Jobs
  <2>2. \A i \in 1 .. Len(queue) : queue[i] \in Jobs /\ queue[i] # submitted + 1
    BY <1>1 DEF ResponderInv, ResponderTypeOK, Places
  <2>3. \A w \in Workers : worker[w] \in Jobs => worker[w] # submitted + 1
    BY Zenon, <1>1 DEF ResponderInv, Places, HeldSteps
  <2> QED BY <1>1, <1>2, <2>1, <2>2, <2>3 DEF ResponderInv, Places
<1>4. Somewhere'
  <2> SUFFICES ASSUME NEW n \in Jobs
        PROVE /\ job'[n].step = "submit" => rx' = n
              /\ job'[n].step = "queued" => \E i \in 1 .. Len(queue) : queue[i] = n
              /\ job'[n].step \in HeldSteps => \E w \in Workers : worker[w] = n
    BY Zenon DEF Somewhere
  <2>1. job[n].step # "submit" BY DEF ResponderInv, Somewhere, Receiving, None, Jobs
  <2>2. CASE n = submitted + 1 BY <2>2, <1>1, <1>2 DEF HeldSteps
  <2>3. CASE n # submitted + 1 BY Zenon, <2>1, <2>3, <1>2 DEF ResponderInv, Somewhere
  <2> QED BY Zenon, <2>2, <2>3
<1> QED BY <1>1, <1>2, <1>3, <1>4 DEF ResponderInv, ResponderTypeOK, Jobs

\* A complete request begins its execution (confirmed, segmentLast).
LEMMA StartInv ==
  ASSUME ResponderInv, Receiving, NEW k \in Keys, tx[k].kind \in {"none", "asm"}, Start(k)
  PROVE  ResponderInv'
<1> USE ResponderAssumption
<1>1. UNCHANGED <<receiving, queue, worker, state>> /\ NewJob(k)
  BY Zenon DEF Start
<1>2. /\ submitted + 1 \in Jobs /\ rx' = submitted + 1
      /\ job' \in [Jobs -> [key : Keys \cup {NoKey}, step : Steps]]
      /\ job'[submitted + 1] = [key |-> k, step |-> "submit"]
      /\ job[submitted + 1].step = "none"
      /\ \A m \in Jobs : m # submitted + 1 => job'[m] = job[m]
      /\ submitted' \in 0 .. MaxJobs
      /\ Places' /\ Somewhere'
  BY Zenon, <1>1, NewJobPlaces
<1>. PICK c \in Jobs : c = submitted + 1
  BY Zenon, <1>2
<1>3. tx' = [tx EXCEPT ![k] = Executing(c)]
  BY Zenon DEF Start
<1>4. /\ tx'[k].kind = "exec" /\ tx'[k].job = c
      /\ \A l \in Keys : l # k => tx'[l] = tx[l]
  BY Zenon, <1>3 DEF ResponderInv, ResponderTypeOK, Executing
<1>5. ResponderTypeOK'
  BY <1>1, <1>2, <1>3 DEF ResponderInv, ResponderTypeOK, Executing, Jobs
<1>6. state # "closed"
  BY Zenon DEF ResponderInv, Own, Receiving
<1>7. \A n \in Jobs : Live(n) /\ job[n].key # NoKey => job[n].key # k
  BY Zenon, <1>6 DEF ResponderInv, Own
<1>8. \A n \in Jobs : n # c => (Live(n)' <=> Live(n)) /\ job'[n].key = job[n].key
  BY Zenon, <1>2 DEF Live
<1>9. ~Live(c) /\ Live(c)' /\ job'[c].key = k
  BY <1>2 DEF Live
<1>10. Own'
  <2>1. \A l \in Keys : tx'[l].kind = "exec" =>
          tx'[l].job \in Jobs /\ job'[tx'[l].job].key = l /\ Live(tx[l].job)'
    <3> SUFFICES ASSUME NEW l \in Keys, tx'[l].kind = "exec"
          PROVE tx'[l].job \in Jobs /\ job'[tx'[l].job].key = l /\ Live(tx[l].job)'
      BY Zenon
    <3>1. CASE l = k BY <3>1, <1>2, <1>4 DEF Live
    <3>2. CASE l # k
      <4>1. tx[l].job \in Jobs /\ job[tx[l].job].key = l /\ Live(tx[l].job) /\ tx'[l] = tx[l]
        BY Zenon, <3>2, <1>4 DEF ResponderInv, Own
      <4>2. tx[l].job # c BY Zenon, <4>1, <1>9
      <4> QED BY Zenon, <4>1, <4>2, <1>2 DEF Live
    <3> QED BY Zenon, <3>1, <3>2
  <2>2. \A n \in Jobs : Live(n)' /\ job'[n].key # NoKey =>
          tx'[job'[n].key].kind = "exec" /\ tx'[job'[n].key].job = n
    <3> SUFFICES ASSUME NEW n \in Jobs, Live(n)', job'[n].key # NoKey
          PROVE tx'[job'[n].key].kind = "exec" /\ tx'[job'[n].key].job = n
      BY Zenon
    <3>1. CASE n = c BY Zenon, <3>1, <1>4, <1>9
    <3>2. CASE n # c
      <4>1. Live(n) /\ job'[n].key = job[n].key /\ job[n].key \in Keys /\ job[n].key # k
        BY Zenon, <3>2, <1>8, <1>7 DEF ResponderInv, ResponderTypeOK
      <4> QED BY <4>1, <1>4, <1>6 DEF ResponderInv, Own
    <3> QED BY Zenon, <3>1, <3>2
  <2>3. receiving' /\ state' # "closed"
    BY Zenon, <1>1, <1>6 DEF Receiving
  <2> QED BY Zenon, <2>1, <2>2, <2>3 DEF Own, Live
<1>11. OneExecution'
  <2> SUFFICES ASSUME NEW m \in Jobs, NEW n \in Jobs, Live(m)', Live(n)',
                      job'[m].key = job'[n].key, job'[m].key # NoKey
        PROVE m = n
    BY Zenon DEF OneExecution, Live
  <2> QED BY Zenon, <1>7, <1>8, <1>9 DEF ResponderInv, OneExecution
<1> QED BY Zenon, <1>2, <1>5, <1>10, <1>11 DEF ResponderInv

\* The part of Own that is about entries and jobs.
Entries ==
  /\ \A k \in Keys : tx[k].kind = "exec" =>
       tx[k].job \in Jobs /\ job[tx[k].job].key = k /\ Live(tx[k].job)
  /\ state # "closed" =>
       \A n \in Jobs : Live(n) /\ job[n].key # NoKey =>
         tx[job[n].key].kind = "exec" /\ tx[job[n].key].job = n

\* A job that moves on and stays live keeps its entry (enqueue, handOver,
\* takeJob, handled, reply and the like).
LEMMA MoveLive ==
  ASSUME ResponderInv, NEW n \in Jobs, Live(n), NEW to \in Steps \ {"none", "done"},
         Move(n, to), UNCHANGED <<tx, state>>
  PROVE  Entries' /\ OneExecution'
<1>1. /\ job' \in [Jobs -> [key : Keys \cup {NoKey}, step : Steps]]
      /\ job'[n].key = job[n].key /\ job'[n].step = to
      /\ \A m \in Jobs : m # n => job'[m] = job[m]
      /\ \A m \in Jobs : job'[m].key = job[m].key
  BY Zenon, MoveEffect DEF ResponderInv
<1>2. \A m \in Jobs : Live(m)' <=> Live(m)
  BY Zenon, <1>1 DEF Live
<1>3. Entries'
  BY <1>1, <1>2 DEF ResponderInv, Own, Entries, Live
<1>4. OneExecution'
  BY Zenon, <1>1, <1>2 DEF ResponderInv, OneExecution
<1> QED BY Zenon, <1>3, <1>4

\* A job that ends takes the entry of its key with it, and no other
\* (submitFails, handledUnconfirmed, release).
LEMMA MoveDone ==
  ASSUME ResponderInv, NEW n \in Jobs, Live(n), Move(n, "done"), UNCHANGED state,
         state # "closed",
         \A k \in Keys : tx'[k] = IF k = job[n].key THEN NoTx ELSE tx[k]
  PROVE  Entries' /\ OneExecution'
<1> "done" \in Steps BY Zenon DEF Steps
<1>1. /\ job' \in [Jobs -> [key : Keys \cup {NoKey}, step : Steps]]
      /\ job'[n].key = job[n].key /\ job'[n].step = "done"
      /\ \A m \in Jobs : m # n => job'[m] = job[m]
      /\ \A m \in Jobs : job'[m].key = job[m].key
  BY Zenon, MoveEffect DEF ResponderInv
<1>2. /\ \A m \in Jobs : m # n => (Live(m)' <=> Live(m))
      /\ \A m \in Jobs : m = n => ~Live(m)'
  BY Zenon, <1>1 DEF Live
<1>3. Entries'
  <2>1. \A k \in Keys : tx'[k].kind = "exec" =>
          tx'[k].job \in Jobs /\ job'[tx'[k].job].key = k /\ Live(tx[k].job)'
    <3> SUFFICES ASSUME NEW k \in Keys, tx'[k].kind = "exec"
          PROVE tx'[k].job \in Jobs /\ job'[tx'[k].job].key = k /\ Live(tx[k].job)'
      BY Zenon
    <3>1. k # job[n].key /\ tx'[k] = tx[k]
      BY DEF NoTx
    <3>2. tx[k].job \in Jobs /\ job[tx[k].job].key = k /\ Live(tx[k].job)
      BY Zenon, <3>1 DEF ResponderInv, Own
    <3>3. tx[k].job # n BY Zenon, <3>1, <3>2
    <3> QED BY Zenon, <3>1, <3>2, <3>3, <1>1 DEF Live
  <2>2. \A m \in Jobs : Live(m)' /\ job'[m].key # NoKey =>
          tx'[job'[m].key].kind = "exec" /\ tx'[job'[m].key].job = m
    <3> SUFFICES ASSUME NEW m \in Jobs, Live(m)', job'[m].key # NoKey
          PROVE tx'[job'[m].key].kind = "exec" /\ tx'[job'[m].key].job = m
      BY Zenon
    <3>1. m # n /\ Live(m) /\ job'[m].key = job[m].key /\ job[m].key \in Keys
      BY Zenon, <1>1, <1>2 DEF ResponderInv, ResponderTypeOK
    <3>2. job[m].key # job[n].key
      BY Zenon, <3>1 DEF ResponderInv, OneExecution
    <3>3. tx[job[m].key].kind = "exec" /\ tx[job[m].key].job = m
      BY Zenon, <3>1 DEF ResponderInv, Own
    <3> QED BY Zenon, <3>1, <3>2, <3>3
  <2> QED BY Zenon, <2>1, <2>2 DEF Entries, Live
<1>4. OneExecution'
  BY Zenon, <1>1, <1>2 DEF ResponderInv, OneExecution
<1> QED BY Zenon, <1>3, <1>4

\* A worker goes from one of its steps to the next.
LEMMA ProgressInv ==
  ASSUME ResponderInv, NEW w \in Workers, NEW n \in Jobs, NEW from \in HeldSteps,
         NEW to \in HeldSteps, Progress(w, n, from, to)
  PROVE  ResponderInv'
<1>1. Move(n, to) /\ to \in Steps \ {"none", "done"}
  BY Zenon DEF Progress, HeldSteps, Steps
<1>2. UNCHANGED <<tx, submitted, receiving, rx, queue, worker, state>>
  BY Zenon DEF Progress
<1>3. worker[w] = n /\ job[n].step \in HeldSteps /\ Live(n)
  BY Zenon DEF Progress, HeldSteps, Live
<1>4. /\ job' \in [Jobs -> [key : Keys \cup {NoKey}, step : Steps]]
      /\ job'[n].step = to
      /\ \A m \in Jobs : m # n => job'[m] = job[m]
  BY Zenon, <1>1, MoveEffect DEF ResponderInv
<1>5. Entries' /\ OneExecution'
  BY Zenon, <1>1, <1>2, <1>3, MoveLive
<1>6. ResponderTypeOK'
  BY Zenon, <1>2, <1>4 DEF ResponderInv, ResponderTypeOK
<1>7. Places'
  <2>1. \A m \in Jobs : m > submitted => job'[m].step = "none"
    BY Zenon, <1>3, <1>4 DEF ResponderInv, Places, HeldSteps
  <2>2. rx # None => job'[rx].step = "submit"
    <3>1. rx # None => rx \in Jobs /\ rx # n
      BY <1>3 DEF ResponderInv, ResponderTypeOK, Places, HeldSteps, Jobs, None
    <3> QED BY Zenon, <3>1, <1>4 DEF ResponderInv, Places
  <2>3. \A i \in 1 .. Len(queue) : job'[queue[i]].step = "queued"
    <3>1. \A i \in 1 .. Len(queue) : queue[i] \in Jobs /\ queue[i] # n
      BY <1>3 DEF ResponderInv, ResponderTypeOK, Places, HeldSteps
    <3> QED BY Zenon, <3>1, <1>4 DEF ResponderInv, Places
  <2>4. \A v \in Workers : worker[v] \in Jobs => job'[worker[v]].step \in HeldSteps
    BY Zenon, <1>4 DEF ResponderInv, Places
  <2> QED BY <1>2, <2>1, <2>2, <2>3, <2>4 DEF ResponderInv, Places
<1>8. Somewhere'
  <2> SUFFICES ASSUME NEW m \in Jobs
        PROVE /\ job'[m].step = "submit" => rx = m
              /\ job'[m].step = "queued" => \E i \in 1 .. Len(queue) : queue[i] = m
              /\ job'[m].step \in HeldSteps => \E v \in Workers : worker[v] = m
    BY Zenon, <1>2 DEF Somewhere
  <2>1. CASE m = n BY Zenon, <2>1, <1>3, <1>4 DEF HeldSteps
  <2>2. CASE m # n BY Zenon, <2>2, <1>4 DEF ResponderInv, Somewhere
  <2> QED BY Zenon, <2>1, <2>2
<1>9. Own'
  BY Zenon, <1>2, <1>5 DEF ResponderInv, Own, Entries
<1> QED BY Zenon, <1>5, <1>6, <1>7, <1>8, <1>9 DEF ResponderInv

\* An unconfirmed request has a job and no transaction.
LEMMA UnconfirmedInv == ASSUME ResponderInv, unconfirmed PROVE ResponderInv'
<1> USE ResponderAssumption
<1>1. Receiving /\ NewJob(NoKey) /\ UNCHANGED <<tx, receiving, queue, worker, state>>
  BY Zenon DEF unconfirmed
<1>2. /\ submitted + 1 \in Jobs /\ rx' = submitted + 1
      /\ job' \in [Jobs -> [key : Keys \cup {NoKey}, step : Steps]]
      /\ job'[submitted + 1] = [key |-> NoKey, step |-> "submit"]
      /\ job[submitted + 1].step = "none"
      /\ \A m \in Jobs : m # submitted + 1 => job'[m] = job[m]
      /\ submitted' \in 0 .. MaxJobs
      /\ Places' /\ Somewhere'
  BY Zenon, <1>1, NewJobPlaces
<1>. PICK c \in Jobs : c = submitted + 1
  BY Zenon, <1>2
<1>3. ResponderTypeOK'
  BY <1>1, <1>2 DEF ResponderInv, ResponderTypeOK, Jobs
<1>4. state # "closed" /\ receiving
  BY Zenon, <1>1 DEF ResponderInv, Own, Receiving
<1>5. job'[c].key = NoKey /\ ~Live(c) /\ \A m \in Jobs : m # c => job'[m] = job[m]
  BY <1>2 DEF Live
<1>6. Own'
  <2>1. \A k \in Keys : tx[k].kind = "exec" =>
          tx[k].job \in Jobs /\ tx[k].job # c /\ job[tx[k].job].key = k /\ Live(tx[k].job)
    BY Zenon, <1>5 DEF ResponderInv, Own
  <2>2. \A k \in Keys : tx'[k].kind = "exec" =>
          tx'[k].job \in Jobs /\ job'[tx'[k].job].key = k /\ Live(tx[k].job)'
    BY Zenon, <1>1, <1>5, <2>1 DEF Live
  <2>3. \A m \in Jobs : Live(m)' /\ job'[m].key # NoKey =>
          tx[job'[m].key].kind = "exec" /\ tx[job'[m].key].job = m
    BY <1>4, <1>5 DEF ResponderInv, Own, Live
  <2> QED BY Zenon, <1>1, <1>4, <2>2, <2>3 DEF Own
<1>7. OneExecution'
  BY Zenon, <1>5 DEF ResponderInv, OneExecution, Live
<1> QED BY Zenon, <1>2, <1>3, <1>6, <1>7 DEF ResponderInv

\* The receive loop's job goes to the queue.
LEMMA EnqueueInv == ASSUME ResponderInv, enqueue PROVE ResponderInv'
<1> USE ResponderAssumption
<1>. PICK n \in Jobs : n = rx
  BY DEF ResponderInv, ResponderTypeOK, enqueue, Jobs, None
<1>1. /\ Move(n, "queued") /\ rx' = None /\ queue' = Append(queue, n)
      /\ Len(queue) < QueueCap
      /\ UNCHANGED <<tx, submitted, receiving, worker, state>>
  BY Zenon DEF enqueue
<1>2. job[n].step = "submit" /\ Live(n) /\ receiving
  BY DEF ResponderInv, Places, Own, Live, None, Jobs
<1>. "queued" \in Steps \ {"none", "done"} BY Zenon DEF Steps
<1>3. /\ job' \in [Jobs -> [key : Keys \cup {NoKey}, step : Steps]]
      /\ job'[n].step = "queued"
      /\ \A m \in Jobs : m # n => job'[m] = job[m]
  BY Zenon, <1>1, MoveEffect DEF ResponderInv
<1>4. Entries' /\ OneExecution'
  BY Zenon, <1>1, <1>2, MoveLive
<1>5. /\ queue' \in Seq(Jobs) /\ Len(queue') = Len(queue) + 1 /\ Len(queue) \in Nat
      /\ \A i \in 1 .. Len(queue) : queue'[i] = queue[i] /\ queue[i] \in Jobs
      /\ queue'[Len(queue) + 1] = n
  BY <1>1 DEF ResponderInv, ResponderTypeOK
<1>6. \A i \in 1 .. Len(queue) : queue[i] # n
  BY Zenon, <1>2 DEF ResponderInv, Places
<1>7. ResponderTypeOK'
  BY <1>1, <1>3, <1>5 DEF ResponderInv, ResponderTypeOK, None
<1>8. Places'
  <2>1. \A m \in Jobs : m > submitted => job'[m].step = "none"
    BY Zenon, <1>2, <1>3 DEF ResponderInv, Places
  <2>2. \A i \in 1 .. Len(queue') : job'[queue'[i]].step = "queued"
    BY <1>3, <1>5, <1>6 DEF ResponderInv, Places
  <2>3. \A i, j \in 1 .. Len(queue') : queue'[i] = queue'[j] => i = j
    BY <1>5, <1>6 DEF ResponderInv, Places
  <2>4. \A v \in Workers : worker[v] \in Jobs => job'[worker[v]].step \in HeldSteps
    BY Zenon, <1>2, <1>3 DEF ResponderInv, Places, HeldSteps
  <2> QED BY Zenon, <1>1, <2>1, <2>2, <2>3, <2>4 DEF ResponderInv, Places
<1>9. Somewhere'
  <2> SUFFICES ASSUME NEW m \in Jobs
        PROVE /\ job'[m].step = "submit" => rx' = m
              /\ job'[m].step = "queued" => \E i \in 1 .. Len(queue') : queue'[i] = m
              /\ job'[m].step \in HeldSteps => \E v \in Workers : worker[v] = m
    BY Zenon, <1>1 DEF Somewhere
  <2>1. CASE m = n
    <3>1. Len(queue) + 1 \in 1 .. Len(queue') BY <1>5
    <3> QED BY Zenon, <2>1, <3>1, <1>3, <1>5 DEF HeldSteps
  <2>2. CASE m # n
    <3>1. job'[m] = job[m] /\ job[m].step # "submit"
      BY Zenon, <2>2, <1>3 DEF ResponderInv, Somewhere
    <3>2. (\E i \in 1 .. Len(queue) : queue[i] = m) => \E i \in 1 .. Len(queue') : queue'[i] = m
      BY <1>5
    <3> QED BY Zenon, <3>1, <3>2 DEF ResponderInv, Somewhere
  <2> QED BY Zenon, <2>1, <2>2
<1>10. Own'
  BY Zenon, <1>1, <1>2, <1>4 DEF ResponderInv, Own, Entries
<1> QED BY Zenon, <1>4, <1>7, <1>8, <1>9, <1>10 DEF ResponderInv

\* A worker that is idle gets job n, from the receive loop or the queue.
LEMMA BeginInv ==
  ASSUME ResponderInv, NEW w \in Workers, worker[w] = None, NEW n \in Jobs,
         worker' = [worker EXCEPT ![w] = n], Move(n, "running"),
         UNCHANGED <<tx, submitted, receiving, state>>,
         \/ rx = n /\ rx' = None /\ UNCHANGED queue
         \/ queue # <<>> /\ n = Head(queue) /\ queue' = Tail(queue) /\ UNCHANGED rx
  PROVE  ResponderInv'
<1> USE ResponderAssumption
<1>. "running" \in Steps \ {"none", "done"} BY Zenon DEF Steps
<1>1. queue \in Seq(Jobs) /\ Len(queue) \in Nat /\ \A i \in 1 .. Len(queue) : queue[i] \in Jobs
  BY DEF ResponderInv, ResponderTypeOK
<1>2. job[n].step \in {"submit", "queued"} /\ Live(n)
  BY <1>1 DEF ResponderInv, Places, Live, None, Jobs
<1>3. /\ job' \in [Jobs -> [key : Keys \cup {NoKey}, step : Steps]]
      /\ job'[n].step = "running"
      /\ \A m \in Jobs : m # n => job'[m] = job[m]
  BY Zenon, MoveEffect DEF ResponderInv
<1>4. Entries' /\ OneExecution'
  BY Zenon, <1>2, MoveLive
<1>5. /\ worker' \in [Workers -> -1 .. MaxJobs] /\ worker'[w] = n
      /\ \A v \in Workers : v # w => worker'[v] = worker[v]
  BY DEF ResponderInv, ResponderTypeOK, Jobs
<1>6. /\ queue' \in Seq(Jobs) /\ Len(queue') <= QueueCap /\ Len(queue') \in Nat
      /\ \A i \in 1 .. Len(queue') : \E j \in 1 .. Len(queue) : queue'[i] = queue[j]
      /\ \A i, j \in 1 .. Len(queue') : queue'[i] = queue'[j] => i = j
  <2>1. CASE rx = n /\ UNCHANGED queue
    BY <2>1 DEF ResponderInv, ResponderTypeOK, Places
  <2>2. CASE queue # <<>> /\ queue' = Tail(queue)
    <3>1. /\ Len(queue') = Len(queue) - 1 /\ Len(queue) > 0 /\ queue' \in Seq(Jobs)
          /\ \A i \in 1 .. Len(queue') : queue'[i] = queue[i + 1] /\ i + 1 \in 1 .. Len(queue)
      BY <1>1, <2>2
    <3>2. \A i, j \in 1 .. Len(queue') : queue'[i] = queue'[j] => i = j
      BY <1>1, <3>1 DEF ResponderInv, Places
    <3> QED BY <1>1, <3>1, <3>2 DEF ResponderInv, ResponderTypeOK
  <2> QED BY Zenon, <2>1, <2>2
<1>7. \A i \in 1 .. Len(queue') : queue'[i] # n
  <2>1. CASE rx = n /\ UNCHANGED queue
    BY <2>1 DEF ResponderInv, Places, None, Jobs
  <2>2. CASE queue # <<>> /\ n = Head(queue) /\ queue' = Tail(queue)
    <3>1. /\ Len(queue') = Len(queue) - 1 /\ Len(queue) > 0 /\ n = queue[1]
          /\ \A i \in 1 .. Len(queue') : queue'[i] = queue[i + 1]
      BY <1>1, <2>2
    <3> QED BY <1>1, <3>1 DEF ResponderInv, Places
  <2> QED BY Zenon, <2>1, <2>2
<1>8. \A m \in Jobs : m # n /\ (\E i \in 1 .. Len(queue) : queue[i] = m) =>
        \E i \in 1 .. Len(queue') : queue'[i] = m
  <2>1. CASE UNCHANGED queue
    BY Zenon, <2>1
  <2>2. CASE queue # <<>> /\ n = Head(queue) /\ queue' = Tail(queue)
    <3>1. /\ Len(queue') = Len(queue) - 1 /\ Len(queue) > 0 /\ n = queue[1]
          /\ \A i \in 1 .. Len(queue') : queue'[i] = queue[i + 1]
      BY <1>1, <2>2
    <3> SUFFICES ASSUME NEW m \in Jobs, m # n, NEW i \in 1 .. Len(queue), queue[i] = m
          PROVE \E j \in 1 .. Len(queue') : queue'[j] = m
      BY Zenon
    <3>2. i # 1 /\ i - 1 \in 1 .. Len(queue') /\ queue'[i - 1] = queue[i]
      BY <1>1, <3>1
    <3> QED BY Zenon, <3>2
  <2> QED BY Zenon, <2>1, <2>2
<1>9. ResponderTypeOK'
  <2>1. rx' \in 0 .. MaxJobs BY DEF ResponderInv, ResponderTypeOK, None
  <2> QED BY Zenon, <2>1, <1>3, <1>5, <1>6 DEF ResponderInv, ResponderTypeOK
<1>10. Places'
  <2>1. \A m \in Jobs : m > submitted => job'[m].step = "none"
    BY <1>2, <1>3 DEF ResponderInv, Places
  <2>2. rx' # None => job'[rx'].step = "submit"
    <3>1. rx' # None => rx' = rx /\ rx \in Jobs /\ job[rx].step = "submit" /\ rx # n
      BY SMTT(30), <1>1 DEF ResponderInv, ResponderTypeOK, Places, Jobs, None
    <3> QED BY Zenon, <3>1, <1>3
  <2>3. \A i \in 1 .. Len(queue') : job'[queue'[i]].step = "queued"
    BY <1>1, <1>3, <1>6, <1>7 DEF ResponderInv, Places
  <2>4. \A v \in Workers : worker[v] \in Jobs => worker[v] # n /\ job[worker[v]].step \in HeldSteps
    BY Zenon, <1>2 DEF ResponderInv, Places, HeldSteps
  <2>5. \A v \in Workers : worker'[v] \in Jobs => job'[worker'[v]].step \in HeldSteps
    BY Zenon, <2>4, <1>3, <1>5 DEF HeldSteps
  <2>6. \A u, v \in Workers : worker'[u] = worker'[v] /\ worker'[u] \in Jobs => u = v
    BY <2>4, <1>5 DEF ResponderInv, Places
  <2> QED BY Zenon, <1>6, <2>1, <2>2, <2>3, <2>5, <2>6 DEF Places
<1>11. Somewhere'
  <2> SUFFICES ASSUME NEW m \in Jobs
        PROVE /\ job'[m].step = "submit" => rx' = m
              /\ job'[m].step = "queued" => \E i \in 1 .. Len(queue') : queue'[i] = m
              /\ job'[m].step \in HeldSteps => \E v \in Workers : worker'[v] = m
    BY Zenon DEF Somewhere
  <2>1. CASE m = n BY Zenon, <2>1, <1>3, <1>5
  <2>2. CASE m # n
    <3>1. job'[m] = job[m] BY Zenon, <2>2, <1>3
    <3>2. job[m].step = "submit" => rx' = m
      BY Zenon, <2>2 DEF ResponderInv, Somewhere
    <3>3. job[m].step \in HeldSteps => \E v \in Workers : v # w /\ worker[v] = m
      BY DEF ResponderInv, Somewhere, None, Jobs
    <3>4. job[m].step = "queued" => \E i \in 1 .. Len(queue') : queue'[i] = m
      BY Zenon, <2>2, <1>8 DEF ResponderInv, Somewhere
    <3> QED BY Zenon, <3>1, <3>2, <3>3, <3>4, <1>5
  <2> QED BY Zenon, <2>1, <2>2
<1>12. Own'
  <2>1. state # "closed"
    BY DEF ResponderInv, Own, None, Exited
  <2>2. ~receiving' => rx' = None
    BY Zenon DEF ResponderInv, Own, None, Jobs
  <2> QED BY Zenon, <2>1, <2>2, <1>4 DEF Own, Entries
<1> QED BY Zenon, <1>4, <1>9, <1>10, <1>11, <1>12 DEF ResponderInv

\* A refused request is forgotten with its transaction.
LEMMA RefuseInv == ASSUME ResponderInv, submitFails PROVE ResponderInv'
<1> USE ResponderAssumption
<1>. PICK n \in Jobs : n = rx
  BY DEF ResponderInv, ResponderTypeOK, submitFails, Jobs, None
<1>1. /\ Move(n, "done") /\ rx' = None
      /\ tx' = [k \in Keys |-> IF k = job[n].key THEN NoTx ELSE tx[k]]
      /\ UNCHANGED <<submitted, receiving, queue, worker, state>>
  BY Zenon DEF submitFails
<1>2. job[n].step = "submit" /\ Live(n) /\ receiving /\ state # "closed"
  BY DEF ResponderInv, Places, Own, Live, None, Jobs
<1>. "done" \in Steps BY Zenon DEF Steps
<1>3. /\ job' \in [Jobs -> [key : Keys \cup {NoKey}, step : Steps]]
      /\ job'[n].step = "done"
      /\ \A m \in Jobs : m # n => job'[m] = job[m]
  BY Zenon, <1>1, MoveEffect DEF ResponderInv
<1>4. Entries' /\ OneExecution'
  BY Zenon, <1>1, <1>2, MoveDone
<1>5. ResponderTypeOK'
  <2>1. tx' \in [Keys -> [kind : {"none", "asm", "exec"}, job : 0 .. MaxJobs]]
    BY <1>1 DEF ResponderInv, ResponderTypeOK, NoTx, None
  <2> QED BY <2>1, <1>1, <1>3 DEF ResponderInv, ResponderTypeOK, None
<1>6. Places'
  <2>1. \A i \in 1 .. Len(queue) : queue[i] \in Jobs /\ queue[i] # n
    BY <1>2 DEF ResponderInv, ResponderTypeOK, Places
  <2>2. \A v \in Workers : worker[v] \in Jobs => worker[v] # n
    BY Zenon, <1>2 DEF ResponderInv, Places, HeldSteps
  <2>3. \A m \in Jobs : m > submitted => job'[m].step = "none"
    BY Zenon, <1>2, <1>3 DEF ResponderInv, Places
  <2> QED BY <1>1, <1>3, <2>1, <2>2, <2>3 DEF ResponderInv, Places
<1>7. Somewhere'
  <2> SUFFICES ASSUME NEW m \in Jobs
        PROVE /\ job'[m].step = "submit" => rx' = m
              /\ job'[m].step = "queued" => \E i \in 1 .. Len(queue) : queue[i] = m
              /\ job'[m].step \in HeldSteps => \E v \in Workers : worker[v] = m
    BY Zenon, <1>1 DEF Somewhere
  <2>1. CASE m = n BY Zenon, <2>1, <1>3 DEF HeldSteps
  <2>2. CASE m # n BY Zenon, <2>2, <1>3 DEF ResponderInv, Somewhere
  <2> QED BY Zenon, <2>1, <2>2
<1>8. Own'
  BY Zenon, <1>1, <1>2, <1>4 DEF Own, Entries
<1> QED BY Zenon, <1>4, <1>5, <1>6, <1>7, <1>8 DEF ResponderInv

\* A worker ends its job and is idle again.
LEMMA EndInv ==
  ASSUME ResponderInv, NEW w \in Workers, NEW n \in Jobs, worker[w] = n,
         Move(n, "done"), worker' = [worker EXCEPT ![w] = None],
         tx' \in [Keys -> [kind : {"none", "asm", "exec"}, job : 0 .. MaxJobs]],
         \A k \in Keys : tx'[k] = IF k = job[n].key THEN NoTx ELSE tx[k],
         UNCHANGED <<submitted, receiving, rx, queue, state>>
  PROVE  ResponderInv'
<1> USE ResponderAssumption
<1>1. job[n].step \in HeldSteps /\ Live(n)
  BY Zenon DEF ResponderInv, Places, HeldSteps, Live
<1>2. state # "closed"
  BY DEF ResponderInv, Own, Exited, Jobs
<1>. "done" \in Steps BY Zenon DEF Steps
<1>3. /\ job' \in [Jobs -> [key : Keys \cup {NoKey}, step : Steps]]
      /\ job'[n].step = "done"
      /\ \A m \in Jobs : m # n => job'[m] = job[m]
  BY Zenon, MoveEffect DEF ResponderInv
<1>4. Entries' /\ OneExecution'
  BY Zenon, <1>1, <1>2, MoveDone
<1>5. /\ worker' \in [Workers -> -1 .. MaxJobs] /\ worker'[w] = None /\ None \notin Jobs
      /\ \A v \in Workers : v # w => worker'[v] = worker[v]
  BY DEF ResponderInv, ResponderTypeOK, Jobs, None
<1>6. ResponderTypeOK'
  BY Zenon, <1>3, <1>5 DEF ResponderInv, ResponderTypeOK
<1>7. Places'
  <2>1. \A i \in 1 .. Len(queue) : queue[i] \in Jobs /\ queue[i] # n
    BY <1>1 DEF ResponderInv, ResponderTypeOK, Places, HeldSteps
  <2>2. \A v \in Workers : v # w /\ worker[v] \in Jobs => worker[v] # n
    BY Zenon DEF ResponderInv, Places
  <2>3. \A m \in Jobs : m > submitted => job'[m].step = "none"
    BY <1>1, <1>3 DEF ResponderInv, Places, HeldSteps
  <2>4. rx # None => job'[rx].step = "submit"
    <3>1. rx # None => rx \in Jobs /\ rx # n
      BY <1>1 DEF ResponderInv, ResponderTypeOK, Places, HeldSteps, Jobs, None
    <3> QED BY Zenon, <3>1, <1>3 DEF ResponderInv, Places
  <2>5. \A i \in 1 .. Len(queue) : job'[queue[i]].step = "queued"
    BY <2>1, <1>3 DEF ResponderInv, Places
  <2>6. \A v \in Workers : worker'[v] \in Jobs => job'[worker'[v]].step \in HeldSteps
    BY <2>2, <1>3, <1>5 DEF ResponderInv, Places
  <2>7. \A u, v \in Workers : worker'[u] = worker'[v] /\ worker'[u] \in Jobs => u = v
    BY <1>5 DEF ResponderInv, Places
  <2> QED BY <2>3, <2>4, <2>5, <2>6, <2>7 DEF ResponderInv, Places
<1>8. Somewhere'
  <2> SUFFICES ASSUME NEW m \in Jobs
        PROVE /\ job'[m].step = "submit" => rx = m
              /\ job'[m].step = "queued" => \E i \in 1 .. Len(queue) : queue[i] = m
              /\ job'[m].step \in HeldSteps => \E v \in Workers : worker'[v] = m
    BY Zenon DEF Somewhere
  <2>1. CASE m = n BY Zenon, <2>1, <1>3 DEF HeldSteps
  <2>2. CASE m # n
    <3>1. job[m].step \in HeldSteps => \E v \in Workers : v # w /\ worker[v] = m
      BY Zenon, <2>2 DEF ResponderInv, Somewhere
    <3> QED BY <2>2, <3>1, <1>3, <1>5 DEF ResponderInv, Somewhere
  <2> QED BY Zenon, <2>1, <2>2
<1>9. Own'
  BY Zenon, <1>2, <1>4 DEF ResponderInv, Own, Entries
<1> QED BY Zenon, <1>4, <1>6, <1>7, <1>8, <1>9 DEF ResponderInv

\* A goroutine exits, or Close begins or ends; no job changes.
LEMMA ExitInv ==
  ASSUME ResponderInv,
         receiveExits \/ (\E w \in Workers : workerExits(w)) \/ Close \/ CloseEnds
  PROVE  ResponderInv'
<1> USE ResponderAssumption
<1>1. CASE receiveExits
  <2>1. /\ UNCHANGED <<tx, job, submitted, rx, queue, worker, state>>
        /\ rx = None /\ receiving' = FALSE
    BY Zenon, <1>1 DEF receiveExits, Receiving
  <2>2. receiving' \in BOOLEAN BY <2>1, Zenon
  <2>3. ResponderTypeOK' BY Zenon, <2>1, <2>2 DEF ResponderInv, ResponderTypeOK
  <2>4. Places' /\ Somewhere' /\ OneExecution'
    BY <2>1 DEF ResponderInv, Places, Somewhere, OneExecution, Live
  <2>5. Own' BY Zenon, <2>1 DEF ResponderInv, Own, Live
  <2> QED BY Zenon, <2>3, <2>4, <2>5 DEF ResponderInv
<1>2. ASSUME NEW w \in Workers, workerExits(w) PROVE ResponderInv'
  <2>1. /\ worker' \in [Workers -> -1 .. MaxJobs] /\ worker'[w] = Exited
        /\ worker[w] = None /\ None \notin Jobs /\ Exited \notin Jobs
        /\ \A v \in Workers : v # w => worker'[v] = worker[v]
    BY <1>2 DEF ResponderInv, ResponderTypeOK, workerExits, Exited, None, Jobs
  <2>2. UNCHANGED <<tx, job, submitted, receiving, rx, queue, state>>
    BY Zenon, <1>2 DEF workerExits
  <2>3. ResponderTypeOK' /\ OneExecution'
    BY Zenon, <2>1, <2>2 DEF ResponderInv, ResponderTypeOK, OneExecution, Live
  <2>4. Places'
    BY <2>1, <2>2 DEF ResponderInv, Places
  <2>5. Somewhere'
    BY <2>1, <2>2 DEF ResponderInv, Somewhere
  <2>6. Own'
    BY Zenon, <2>1, <2>2 DEF ResponderInv, Own, Live
  <2> QED BY Zenon, <2>3, <2>4, <2>5, <2>6 DEF ResponderInv
<1>3. CASE Close
  BY <1>3 DEF ResponderInv, ResponderTypeOK, Places, Somewhere, Own, OneExecution, Live, Close
<1>4. CASE CloseEnds
  <2>1. /\ UNCHANGED <<job, submitted, receiving, rx, queue, worker>>
        /\ tx' = [k \in Keys |-> NoTx] /\ state' = "closed"
        /\ ~receiving /\ \A w \in Workers : worker[w] = Exited
    BY Zenon, <1>4 DEF CloseEnds
  <2>2. ResponderTypeOK'
    BY SMTT(30), <2>1 DEF ResponderInv, ResponderTypeOK, NoTx, None
  <2>3. Places' /\ Somewhere' /\ OneExecution'
    BY SMTT(30), <2>1 DEF ResponderInv, Places, Somewhere, OneExecution, Live
  <2>4. Own'
    BY Zenon, <2>1 DEF ResponderInv, Own, NoTx
  <2> QED BY Zenon, <2>2, <2>3, <2>4 DEF ResponderInv
<1> QED BY Zenon, <1>1, <1>2, <1>3, <1>4

\* A repeated request, like a stuttering step, changes nothing.
LEMMA SameInv ==
  ASSUME ResponderInv,
         UNCHANGED <<tx, job, submitted, receiving, rx, queue, worker, state>>
  PROVE  ResponderInv'
BY DEF ResponderInv, ResponderTypeOK, Places, Somewhere, Own, OneExecution, Live

\* Every step preserves the invariant.
LEMMA ResponderNextInv == ResponderInv /\ [ResponderNext]_responderVars => ResponderInv'
<1> SUFFICES ASSUME ResponderInv, [ResponderNext]_responderVars PROVE ResponderInv' BY Zenon
<1> USE ResponderAssumption
<1>1. ASSUME NEW k \in Keys,
             confirmed(k) \/ segmentLast(k)
      PROVE ResponderInv'
  BY Zenon, <1>1, StartInv DEF confirmed, segmentLast
<1>2. ASSUME NEW k \in Keys,
             segmentFirst(k) \/ segmentTooMany(k) \/ abortFromClient(k) \/ expire(k)
      PROVE ResponderInv'
  BY Zenon, <1>2, OnlyTxInv DEF segmentFirst, segmentTooMany, abortFromClient, expire
<1>3. ASSUME NEW k \in Keys, repeated(k) PROVE ResponderInv'
  BY Zenon, <1>3, SameInv DEF repeated, responderVars
<1>4. CASE unconfirmed BY Zenon, <1>4, UnconfirmedInv
<1>5. CASE enqueue BY Zenon, <1>5, EnqueueInv
<1>6. ASSUME NEW w \in Workers, handOver(w) PROVE ResponderInv'
  <2>1. PICK n \in Jobs : n = rx
    BY <1>6 DEF ResponderInv, ResponderTypeOK, handOver, Jobs, None
  <2>2. /\ worker[w] = None /\ worker' = [worker EXCEPT ![w] = n] /\ Move(n, "running")
        /\ UNCHANGED <<tx, submitted, receiving, state>>
        /\ rx = n /\ rx' = None /\ UNCHANGED queue
    BY Zenon, <1>6, <2>1 DEF handOver
  <2> QED BY Zenon, <2>2, BeginInv
<1>7. ASSUME NEW w \in Workers, takeJob(w) PROVE ResponderInv'
  <2>1. Head(queue) \in Jobs
    BY <1>7 DEF ResponderInv, ResponderTypeOK, takeJob
  <2>2. PICK n \in Jobs : n = Head(queue)
    BY Zenon, <2>1
  <2>3. /\ worker[w] = None /\ worker' = [worker EXCEPT ![w] = n] /\ Move(n, "running")
        /\ UNCHANGED <<tx, submitted, receiving, state>>
        /\ queue # <<>> /\ n = Head(queue) /\ queue' = Tail(queue) /\ UNCHANGED rx
    BY Zenon, <1>7, <2>2 DEF takeJob
  <2> QED BY Zenon, <2>3, BeginInv
<1>8. CASE submitFails BY Zenon, <1>8, RefuseInv
<1>9. ASSUME NEW w \in Workers, NEW n \in Jobs,
             \/ handled(w, n) \/ silent(w, n) \/ reply(w, n) \/ replySegmented(w, n)
             \/ segmentsDone(w, n) \/ segmentsStopped(w, n)
      PROVE ResponderInv'
  <2>1. \E from, to \in HeldSteps : Progress(w, n, from, to)
    BY Zenon, <1>9 DEF handled, silent, reply, replySegmented, segmentsDone, segmentsStopped, HeldSteps
  <2> QED BY Zenon, <2>1, ProgressInv
<1>10. ASSUME NEW w \in Workers, NEW n \in Jobs, handledUnconfirmed(w, n) PROVE ResponderInv'
  <2>1. /\ worker[w] = n /\ Move(n, "done") /\ worker' = [worker EXCEPT ![w] = None]
        /\ UNCHANGED <<submitted, receiving, rx, queue, state>>
        /\ tx' = tx /\ job[n].key \notin Keys
    BY Zenon, <1>10 DEF handledUnconfirmed
  <2>2. /\ tx' \in [Keys -> [kind : {"none", "asm", "exec"}, job : 0 .. MaxJobs]]
        /\ \A k \in Keys : tx'[k] = IF k = job[n].key THEN NoTx ELSE tx[k]
    BY Zenon, <2>1 DEF ResponderInv, ResponderTypeOK
  <2> QED BY Zenon, <2>1, <2>2, EndInv
<1>11. ASSUME NEW w \in Workers, NEW n \in Jobs, release(w, n) PROVE ResponderInv'
  <2>1. /\ worker[w] = n /\ Move(n, "done") /\ worker' = [worker EXCEPT ![w] = None]
        /\ UNCHANGED <<submitted, receiving, rx, queue, state>>
        /\ tx' = [tx EXCEPT ![job[n].key] = NoTx]
    BY Zenon, <1>11 DEF release
  <2>2. /\ NoTx \in [kind : {"none", "asm", "exec"}, job : 0 .. MaxJobs]
        /\ tx \in [Keys -> [kind : {"none", "asm", "exec"}, job : 0 .. MaxJobs]]
    BY DEF ResponderInv, ResponderTypeOK, NoTx, None
  <2>3. tx' \in [Keys -> [kind : {"none", "asm", "exec"}, job : 0 .. MaxJobs]]
    BY Zenon, <2>1, <2>2
  <2>4. \A k \in Keys : tx'[k] = IF k = job[n].key THEN NoTx ELSE tx[k]
    BY Zenon, <2>1, <2>2
  <2> QED BY Zenon, <2>1, <2>3, <2>4, EndInv
<1>12. CASE receiveExits \/ (\E w \in Workers : workerExits(w)) \/ Close \/ CloseEnds
  BY Zenon, <1>12, ExitInv
<1>13. CASE UNCHANGED responderVars
  BY Zenon, <1>13, SameInv DEF responderVars, ResponderInv, ResponderTypeOK
<1> QED
  BY Zenon, <1>1, <1>2, <1>3, <1>4, <1>5, <1>6, <1>7, <1>8, <1>9, <1>10, <1>11, <1>12, <1>13
  DEF ResponderNext, Arrival, Submit, RunJob, Closed

\* The invariant implies what the responder promises about a busy key.
LEMMA InvNoOrphan == ResponderInv => NoOrphan
<1> SUFFICES ASSUME ResponderInv, NEW k \in Keys, tx[k].kind = "exec"
      PROVE /\ job[tx[k].job].key = k /\ Live(tx[k].job)
            /\ \/ rx = tx[k].job
               \/ \E i \in DOMAIN queue : queue[i] = tx[k].job
               \/ \E w \in Workers : worker[w] = tx[k].job
  BY Zenon DEF NoOrphan
<1>. PICK n \in Jobs : n = tx[k].job
  BY Zenon DEF ResponderInv, Own
<1>1. job[n].key = k /\ Live(n)
  BY Zenon DEF ResponderInv, Own
<1>2. job[n].step \in {"submit", "queued"} \cup HeldSteps
  <2>1. job[n].step \in Steps BY Zenon DEF ResponderInv, ResponderTypeOK
  <2> QED BY Zenon, <1>1, <2>1 DEF Live, Steps, HeldSteps
<1>3. DOMAIN queue = 1 .. Len(queue) BY DEF ResponderInv, ResponderTypeOK
<1>4. \/ rx = n
      \/ \E i \in 1 .. Len(queue) : queue[i] = n
      \/ \E w \in Workers : worker[w] = n
  BY Zenon, <1>2 DEF ResponderInv, Somewhere
<1> QED BY Zenon, <1>1, <1>3, <1>4

\* The types hold in every state of the responder, receive loop and workers;
\* the job queue never grows beyond its capacity.
THEOREM ResponderTypes == ResponderSpec => []ResponderTypeOK
<1>1. ResponderInv => ResponderTypeOK BY Zenon DEF ResponderInv
<1> QED BY <1>1, ResponderInitInv, ResponderNextInv, PTL DEF ResponderSpec

\* responder.confirmed and segment never let a second request of the same
\* requester and invoke ID execute beside the first.
THEOREM AtMostOneExecution == ResponderSpec => []OneExecution
<1>1. ResponderInv => OneExecution BY Zenon DEF ResponderInv
<1> QED BY <1>1, ResponderInitInv, ResponderNextInv, PTL DEF ResponderSpec

\* execute, finish, expire, abortFromClient and Close never leave a key busy
\* that nobody will release.
THEOREM NoKeyOrphaned == ResponderSpec => []NoOrphan
BY InvNoOrphan, ResponderInitInv, ResponderNextInv, PTL DEF ResponderSpec

------------------------------------------------------------------------------
(***************************************************************************)
(* The segmented reply (module SegReply).                                  *)
(*                                                                         *)
(* The invariant: the reassembly is a prefix of the reply; a SegmentACK in *)
(* flight names a stored segment; and a reply that is under way has no     *)
(* more segments than there are sequence numbers. So a SegmentACK that is  *)
(* read as one at or above acked + 1 either names a segment stored since,  *)
(* or lies beyond the reply and is ignored.                                *)
(***************************************************************************)
Prefix(n) == [k \in 1 .. n |-> k - 1]

Sending == {"check", "fill", "wait"}

ServerInv ==
  /\ count \in Sizes
  /\ phase \in {"check", "fill", "wait", "sent", "failed"}
  /\ acked \in -1 .. count - 1
  /\ acked < stored
  /\ end \in 0 .. count
  /\ window \in 1 .. MaxWindow
  /\ retries \in 0 .. Retries + 1
  /\ phase \in Sending => retries <= Retries
  /\ aborted \in BOOLEAN
  /\ phase \in {"fill", "wait"} => acked + 1 < count
  /\ phase = "sent" => acked = count - 1

\* The reassembly holds the first n segments.
Holds(n) ==
  /\ asm = [expected |-> n, inWindow |-> asm.inWindow, buf |-> Prefix(n)]
  /\ asm.inWindow \in 0 .. ActualWindow
  /\ n <= limits.segments /\ n <= limits.octets
  /\ client = "asm" <=> n > 0
  /\ client \in {"open", "asm"} => stored = n
  /\ n = 0 => asm.inWindow = 0

ClientInv ==
  /\ limits \in Limits
  /\ client \in {"open", "asm", "answered", "failed"}
  /\ \E n \in 0 .. count - 1 : Holds(n)
  /\ stored \in 0 .. count
  /\ stored = count => accepted # <<>>
  /\ accepted \in Seq(Seq(Payloads))
  /\ client # "answered" => accepted = <<>>

InFlight(m) ==
  \/ \E i \in Nat : i < count /\ m = Seg(i)
  \/ \E s \in Nat : \E nak \in BOOLEAN : s < stored /\ m = Ack(s, nak)
  \/ m \in {ServerAbort, ClientAbort}

NetInv == \A m \in net : InFlight(m)

\* A reply that does not fit the sequence numbers is never begun.
Begun ==
  phase = "check" \/ count > SeqMod =>
    /\ phase \in {"check", "failed"}
    /\ stored = 0
    /\ \A m \in net : m.type = "abort"

Inv == ServerInv /\ ClientInv /\ NetInv /\ Begun

\* The actual window is a window.
LEMMA WindowType == ActualWindow \in 1 .. MaxWindow /\ ValidWindow(ActualWindow)
BY SegmentAssumption, ReplyAssumption DEF ActualWindow, Window, ValidWindow

\* The constants a reply depends on.
LEMMA SizeType == Sizes \subseteq Nat \ {0} /\ SeqMod \in Nat /\ SeqMod > 1
BY SegmentAssumption, ReplyAssumption

\* The counters of both sides.
LEMMA Counters ==
  ASSUME Inv
  PROVE  /\ count \in Nat /\ count > 0 /\ count \in Sizes
         /\ stored \in Nat /\ stored <= count
         /\ acked \in Int /\ acked >= -1 /\ acked < count /\ acked < stored
BY SizeType DEF Inv, ServerInv, ClientInv

\* Prefixes of the reply grow by one segment.
LEMMA PrefixFacts ==
  ASSUME NEW n \in Nat, count \in Sizes
  PROVE  /\ Prefix(n) \in Seq(Nat) /\ Len(Prefix(n)) = n
         /\ Append(Prefix(n), n) = Prefix(n + 1)
         /\ n <= count => Prefix(n) \in Seq(Payloads)
         /\ n = count => Prefix(n) = Message
<1>1. Prefix(n) \in Seq(Nat) /\ Len(Prefix(n)) = n
  BY DEF Prefix
<1>2. Append(Prefix(n), n) = Prefix(n + 1)
  BY DEF Prefix
<1>3. n <= count => Prefix(n) \in Seq(Payloads)
  BY SizeType DEF Prefix, Payloads
<1>4. n = count => Prefix(n) = Message
  BY Zenon DEF Prefix, Message
<1> QED BY Zenon, <1>1, <1>2, <1>3, <1>4

\* Counting modulo SeqMod.
LEMMA Modulo ==
  ASSUME NEW n \in Nat, n < SeqMod
  PROVE  /\ n % SeqMod = n /\ (n + SeqMod) % SeqMod = n
         /\ (((n + 1) % SeqMod) + SeqMod - 1) % SeqMod = n
<1>1. n % SeqMod = n /\ (n + SeqMod) % SeqMod = n
  BY SizeType
<1>2. CASE n + 1 < SeqMod
  <2>1. (n + 1) % SeqMod = n + 1
    BY <1>2, SizeType
  <2>2. ((n + 1) % SeqMod) + SeqMod - 1 = n + SeqMod
    BY <2>1, SizeType
  <2> QED BY Zenon, <1>1, <2>2
<1>3. CASE n + 1 = SeqMod
  <2>1. (n + 1) % SeqMod = 0
    BY <1>3, SizeType
  <2>2. ((n + 1) % SeqMod) + SeqMod - 1 = n
    BY <1>3, <2>1, SizeType
  <2> QED BY Zenon, <1>1, <2>2
<1> QED BY <1>1, <1>2, <1>3, SizeType

\* The messages have different types.
LEMMA MessageTypes ==
  ASSUME NEW m, InFlight(m)
  PROVE  /\ m.type = "seg" => \E i \in Nat : i < count /\ m = Seg(i)
         /\ m.type = "ack" =>
              \E s \in Nat : \E nak \in BOOLEAN : s < stored /\ m = Ack(s, nak)
BY DEF InFlight, Seg, Ack, ClientAbort, ServerAbort

\* The initial state satisfies the invariant.
LEMMA InitInv == Init => Inv
<1> SUFFICES ASSUME Init PROVE Inv BY Zenon
<1> USE SizeType, ReplyAssumption
<1>1. count \in Nat /\ count > 0
  BY DEF Init
<1>2. aborted \in BOOLEAN
  BY Zenon DEF Init
<1>3. ServerInv
  BY <1>1, <1>2, SegmentAssumption DEF Init, ServerInv, Sending
<1>4. Prefix(0) = <<>>
  BY DEF Prefix
<1>5. Holds(0)
  BY <1>4, WindowType DEF Init, Holds, NewReassembly
<1>6. ClientInv
  BY <1>1, <1>5 DEF Init, ClientInv
<1> QED BY Zenon, <1>3, <1>6 DEF Init, Inv, NetInv, Begun

\* The network after a step that sends only what may be in flight.
LEMMA NetKeeps ==
  ASSUME Inv, NEW out, net' \subseteq net \cup out, count' = count,
         stored' \in Nat, stored' >= stored, \A m \in out : InFlight(m)'
  PROVE  NetInv'
<1>1. ASSUME NEW m, InFlight(m) PROVE InFlight(m)'
  BY <1>1, Counters DEF InFlight, Seg, Ack, ClientAbort, ServerAbort
<1> QED BY Zenon, <1>1 DEF Inv, NetInv

\* The reply is under way, so its segments have numbers of their own.
LEMMA UnderWay ==
  ASSUME Inv, phase \in {"fill", "wait", "sent"} \/ stored > 0
              \/ \E m \in net : m.type # "abort"
  PROVE  count <= SeqMod /\ phase # "check"
BY SizeType, Counters DEF Inv, Begun

\* Once under way, always under way.
LEMMA BegunKeeps ==
  ASSUME Inv, count' = count, count <= SeqMod, phase' # "check"
  PROVE  Begun'
BY SizeType, Counters DEF Begun

\* A step of the server leaves the client as it is.
LEMMA ClientKeeps ==
  ASSUME Inv, count' = count, UNCHANGED clientVars
  PROVE  ClientInv' /\ stored' = stored /\ stored' \in Nat /\ stored' >= stored
<1>1. stored' = stored /\ stored' \in Nat /\ stored' >= stored
  BY Counters DEF clientVars
<1>2. ClientInv'
  BY Zenon DEF Inv, ClientInv, clientVars, Holds, Prefix, ActualWindow, Payloads
<1> QED BY Zenon, <1>1, <1>2

\* A step of the server that sends out.
LEMMA ServerStepInv ==
  ASSUME Inv, UNCHANGED clientVars, count' = count, count <= SeqMod,
         phase' # "check", ServerInv',
         NEW out, net' \subseteq net \cup out, \A m \in out : InFlight(m)'
  PROVE  Inv'
<1>1. ClientInv' /\ stored' \in Nat /\ stored' >= stored
  BY Zenon, ClientKeeps
<1>2. NetInv'
  BY Zenon, <1>1, NetKeeps
<1>3. Begun'
  BY Zenon, BegunKeeps
<1> QED BY Zenon, <1>1, <1>2, <1>3 DEF Inv

\* A step of the client or the network leaves the server as it is.
LEMMA ServerKeeps ==
  ASSUME Inv, UNCHANGED serverVars, stored' \in Nat, stored' >= stored
  PROVE  ServerInv' /\ count' = count /\ phase' = phase
<1>1. count' = count /\ phase' = phase /\ acked' < stored'
  BY Counters DEF serverVars
<1> QED BY Zenon, <1>1 DEF Inv, ServerInv, serverVars, Sending

\* A step of the client that sends out.
LEMMA ClientStepInv ==
  ASSUME Inv, UNCHANGED serverVars, ClientInv', stored' \in Nat, stored' >= stored,
         count <= SeqMod, phase # "check",
         NEW out, net' \subseteq net \cup out, \A m \in out : InFlight(m)'
  PROVE  Inv'
<1>1. ServerInv' /\ count' = count /\ phase' = phase
  BY Zenon, ServerKeeps
<1>2. NetInv'
  BY Zenon, <1>1, NetKeeps
<1>3. Begun'
  BY Zenon, <1>1, BegunKeeps
<1> QED BY Zenon, <1>1, <1>2, <1>3 DEF Inv

(***************************************************************************)
(* The server's steps.                                                     *)
(***************************************************************************)
\* The check refuses a reply or begins it.
LEMMA FinishInv == ASSUME Inv, finish PROVE Inv'
<1>1. count' = count /\ UNCHANGED clientVars /\ phase = "check"
  BY Zenon DEF finish
<1>2. ClientInv' /\ stored' = stored /\ stored' \in Nat /\ stored' >= stored /\ stored = 0
  BY Zenon, <1>1, ClientKeeps DEF Inv, Begun
<1>3. acked = -1 /\ (phase' = "fill" => acked + 1 < count)
      /\ phase' \in {"fill", "failed"}
  BY <1>1, <1>2, Counters DEF finish
<1>4. ServerInv'
  BY Zenon, <1>1, <1>2, <1>3 DEF finish, Inv, ServerInv, Sending
<1>5. NetInv'
  <2> DEFINE out == {ServerAbort}
  <2>1. net' \subseteq net \cup out
    BY Zenon DEF finish
  <2>2. \A m \in out : InFlight(m)'
    BY Zenon DEF InFlight, ServerAbort, ClientAbort
  <2> HIDE DEF out
  <2> QED BY Zenon, <1>1, <1>2, <2>1, <2>2, NetKeeps
<1>6. Begun'
  <2>1. \A m \in net' : m.type = "abort"
    BY <1>1 DEF finish, Inv, Begun, ServerAbort
  <2>2. phase' = "failed" \/ count <= SeqMod
    BY Counters, SizeType DEF finish, TooMany
  <2> QED BY <1>1, <1>2, <1>3, <2>1, <2>2, Counters, SizeType DEF Begun
<1> QED BY Zenon, <1>2, <1>4, <1>5, <1>6 DEF Inv

\* The window to send is not empty and ends within the reply.
LEMMA WindowEndType ==
  ASSUME Inv, phase = "fill"
  PROVE  WindowEnd \in Nat /\ WindowEnd > acked + 1 /\ WindowEnd <= count
<1>1. acked + 1 < count /\ window \in Nat /\ window > 0
  BY SegmentAssumption DEF Inv, ServerInv
<1> QED BY <1>1, Counters DEF WindowEnd, Least

\* Sending a window, or a part of one.
LEMMA SendInv == ASSUME Inv, SendWindow \/ SendFails PROVE Inv'
<1> USE DEF SendWindow, SendFails
<1>1. count' = count /\ UNCHANGED clientVars /\ phase' # "check" /\ stored' = stored
  BY Zenon DEF clientVars
<1>2. count <= SeqMod /\ count \in Nat
  BY Zenon, UnderWay, Counters
<1>3. WindowEnd \in Nat /\ WindowEnd > acked + 1 /\ WindowEnd <= count
  BY Zenon, WindowEndType
<1>4. ServerInv'
  <2>1. aborted' \in BOOLEAN
    BY Zenon DEF Inv, ServerInv
  <2>2. end' \in 0 .. count
    BY <1>3, Counters DEF Inv, ServerInv
  <2>3. acked' = acked /\ retries' = retries /\ window' = window
        /\ phase' \in {"wait", "failed"} /\ acked + 1 < count /\ retries <= Retries
    BY Zenon DEF Inv, ServerInv, Sending
  <2> QED BY Zenon, <1>1, <2>1, <2>2, <2>3, Counters DEF Inv, ServerInv
<1> DEFINE out == {Seg(i) : i \in acked + 1 .. WindowEnd - 1}
<1>5. net' \subseteq net \cup out
  BY <1>3, Counters
<1>6. \A m \in out : InFlight(m)'
  <2>1. ASSUME NEW i \in acked + 1 .. WindowEnd - 1 PROVE i \in Nat /\ i < count
    BY <1>3, Counters
  <2> QED BY Zenon, <1>1, <2>1 DEF InFlight, Seg
<1> HIDE DEF out
<1> QED BY Zenon, <1>1, <1>2, <1>4, <1>5, <1>6, ServerStepInv

\* The ends of a transmission, and the timer.
LEMMA WaitEndsInv ==
  ASSUME Inv, ServerCloses \/ SegmentTimeout \/ AbortSeen PROVE Inv'
<1> USE DEF ServerCloses, SegmentTimeout, AbortSeen
<1>1. count' = count /\ UNCHANGED clientVars /\ phase' # "check" /\ stored' = stored
  BY Zenon DEF clientVars
<1>2. count <= SeqMod /\ count \in Nat
  BY Zenon, UnderWay, Counters
<1>3. aborted' \in BOOLEAN
  BY Zenon DEF Inv, ServerInv
<1>4. ServerInv'
  <2>1. retries' \in 0 .. Retries + 1 /\ (phase' \in Sending => retries' <= Retries)
    BY ReplyAssumption DEF Inv, ServerInv, Sending
  <2> QED BY Zenon, <1>1, <1>3, <2>1 DEF Inv, ServerInv
<1> DEFINE out == {ServerAbort}
<1>5. net' \subseteq net \cup out /\ \A m \in out : InFlight(m)'
  BY Zenon DEF InFlight, ServerAbort, ClientAbort
<1> HIDE DEF out
<1> QED BY Zenon, <1>1, <1>2, <1>4, <1>5, ServerStepInv

\* The client's Abort arrives.
LEMMA AbortInv == ASSUME Inv, AbortFromClient PROVE Inv'
<1>1. count' = count /\ phase' = phase /\ UNCHANGED clientVars /\ net' \subseteq net
  BY Zenon DEF AbortFromClient, Deliver
<1>2. ClientInv' /\ stored' = stored /\ stored' \in Nat /\ stored' >= stored
  BY Zenon, <1>1, ClientKeeps
<1>3. aborted' \in BOOLEAN
  BY Zenon DEF AbortFromClient
<1>4. ServerInv'
  BY Zenon, <1>2, <1>3 DEF AbortFromClient, Inv, ServerInv
<1> DEFINE out == {}
<1>5. net' \subseteq net \cup out /\ \A m \in out : InFlight(m)'
  BY Zenon, <1>1
<1> HIDE DEF out
<1>6. NetInv'
  BY Zenon, <1>1, <1>2, <1>5, NetKeeps
<1>7. Begun'
  BY Zenon, <1>1, <1>2 DEF Inv, Begun
<1> QED BY Zenon, <1>2, <1>4, <1>6, <1>7 DEF Inv

\* A SegmentACK below the window's end names a segment stored.
LEMMA NamedIsStored ==
  ASSUME Inv, phase = "wait", NEW m \in net, m.type = "ack", Named(m) < end
  PROVE  Named(m) \in acked + 1 .. count - 1 /\ Named(m) < stored
<1>1. count <= SeqMod /\ acked + 1 < count /\ end <= count /\ end \in Nat
  BY UnderWay, Counters DEF Inv, ServerInv
<1>2. PICK s \in Nat : s < stored /\ m.seq = s
  BY MessageTypes DEF Inv, NetInv, Ack
<1>3. PICK base \in Nat : base = acked + 1
  BY Counters
<1>4. base % SeqMod = base /\ base < SeqMod /\ s < SeqMod
  BY <1>1, <1>2, <1>3, Modulo, Counters, SizeType
<1>5. CASE s >= base
  <2>1. PICK d \in Nat : d = s - base
    BY <1>5
  <2>2. (d + SeqMod) % SeqMod = d
    BY <1>4, <2>1, Modulo, SizeType
  <2>3. Named(m) = s
    BY <1>2, <1>3, <1>4, <2>1, <2>2, SizeType DEF Named
  <2> QED BY <1>2, <1>3, <1>5, <2>3, Counters
<1>6. CASE s < base
  <2>1. PICK d \in Nat : d = s - base + SeqMod /\ d < SeqMod
    BY <1>4, <1>6, SizeType
  <2>2. d % SeqMod = d
    BY Zenon, <2>1, Modulo
  <2>3. Named(m) = s + SeqMod
    BY <1>2, <1>3, <1>4, <2>1, <2>2, SizeType DEF Named
  <2> QED BY <1>1, <2>3, SizeType, Counters
<1> QED BY <1>5, <1>6

\* An acknowledgement moves the window to a stored segment, or is ignored.
LEMMA AckInv == ASSUME Inv, NEW m \in net, HandleAck(m) PROVE Inv'
<1>1. count' = count /\ UNCHANGED clientVars /\ stored' = stored /\ net' \subseteq net
      /\ phase = "wait" /\ m.type = "ack" /\ end' = end
  BY Zenon DEF HandleAck, clientVars, Deliver
<1>2. count <= SeqMod
  BY Zenon, <1>1, UnderWay
<1>3. window' \in 1 .. MaxWindow
  BY Zenon, WindowType DEF HandleAck
<1>4. aborted' \in BOOLEAN
  BY Zenon DEF HandleAck, Inv, ServerInv
<1>5. /\ \E a \in -1 .. count - 1 :
           /\ acked' = a /\ a < stored
           /\ phase' \in {"fill", "wait"} => a + 1 < count
           /\ phase' = "sent" => a = count - 1
      /\ retries' \in 0 .. Retries
      /\ phase' \in {"fill", "wait", "sent"}
  <2>1. CASE Named(m) >= end /\ UNCHANGED <<phase, acked, retries>>
    BY <1>1, <2>1, Counters, ReplyAssumption DEF Inv, ServerInv, Sending
  <2>2. CASE /\ Named(m) < end
             /\ acked' = Named(m) /\ retries' = 0
             /\ phase' = IF Named(m) < count - 1 THEN "fill" ELSE "sent"
    <3>1. Named(m) \in acked + 1 .. count - 1 /\ Named(m) < stored
      BY Zenon, <1>1, <2>2, NamedIsStored
    <3> QED BY <2>2, <3>1, Counters, ReplyAssumption
  <2> QED BY Zenon, <2>1, <2>2 DEF HandleAck
<1>6. ServerInv'
  BY <1>1, <1>3, <1>4, <1>5, ReplyAssumption DEF Inv, ServerInv
<1> DEFINE out == {}
<1>7. net' \subseteq net \cup out /\ \A a \in out : InFlight(a)'
  BY Zenon, <1>1
<1>8. phase' # "check"
  BY Zenon, <1>5
<1> HIDE DEF out
<1> QED BY Zenon, <1>1, <1>2, <1>6, <1>7, <1>8, ServerStepInv

(***************************************************************************)
(* The client's steps.                                                     *)
(***************************************************************************)
\* A step that only takes messages from the network.
LEMMA QuietInv ==
  ASSUME Inv, UNCHANGED serverVars, UNCHANGED clientVars, net' \subseteq net
  PROVE  Inv'
<1>1. count' = count
  BY Zenon DEF serverVars
<1>2. ClientInv' /\ stored' = stored /\ stored' \in Nat /\ stored' >= stored
  BY Zenon, <1>1, ClientKeeps
<1>3. ServerInv' /\ phase' = phase
  BY Zenon, <1>2, ServerKeeps
<1> DEFINE out == {}
<1>4. net' \subseteq net \cup out /\ \A a \in out : InFlight(a)'
  BY Zenon
<1> HIDE DEF out
<1>5. NetInv'
  BY Zenon, <1>1, <1>2, <1>4, NetKeeps
<1>6. Begun'
  BY Zenon, <1>1, <1>2, <1>3 DEF Inv, Begun
<1> QED BY Zenon, <1>2, <1>3, <1>5, <1>6 DEF Inv

\* The transaction ends without the reply.
LEMMA TxEndsInv ==
  ASSUME Inv, UNCHANGED serverVars, UNCHANGED <<limits, accepted, stored>>,
         client \in {"open", "asm"}, TxEnds("failed"),
         net' \subseteq net \cup {ClientAbort}
  PROVE  Inv'
<1>1. count' = count /\ stored' = stored /\ stored' \in Nat /\ stored' >= stored
  BY Counters DEF serverVars
<1>2. ServerInv' /\ phase' = phase
  BY Zenon, <1>1, ServerKeeps
<1>3. Holds(0)'
  <2>1. limits.segments \in Nat /\ limits.octets \in Nat
    BY Zenon, ReplyAssumption DEF Inv, ClientInv
  <2>2. Prefix(0) = <<>>
    BY DEF Prefix
  <2> QED BY <2>1, <2>2, WindowType DEF Holds, TxEnds, NewReassembly, ActualWindow, Prefix
<1>4. ClientInv'
  <2>1. \E n \in 0 .. count' - 1 : Holds(n)'
    BY <1>1, <1>3, Counters
  <2> QED BY Zenon, <1>1, <2>1 DEF Inv, ClientInv, TxEnds, Payloads
<1> DEFINE out == {ClientAbort}
<1>5. net' \subseteq net \cup out /\ \A a \in out : InFlight(a)'
  BY Zenon DEF InFlight, ClientAbort, ServerAbort
<1>6. Begun'
  BY <1>1, <1>2 DEF Inv, Begun, ClientAbort
<1> HIDE DEF out
<1>7. NetInv'
  BY Zenon, <1>1, <1>5, NetKeeps
<1> QED BY Zenon, <1>2, <1>4, <1>6, <1>7 DEF Inv

\* The steps that end the transaction, and those that ignore a message.
LEMMA EndStepsInv ==
  ASSUME Inv
  PROVE  /\ ClientStep => Inv'
         /\ \A m \in net : Lose(m) => Inv'
         /\ \A m \in net : UNCHANGED serverVars /\ SegmentUnknown(m) => Inv'
         /\ \A m \in net : UNCHANGED serverVars /\ AcceptNoFirst(m) => Inv'
         /\ \A m \in net : UNCHANGED serverVars /\ AcceptTooMany(m) => Inv'
<1>1. ASSUME ClientStep PROVE Inv'
  <2>1. CASE watchTimeout \/ TxOver
    BY Zenon, <2>1, TxEndsInv DEF watchTimeout, TxOver
  <2>2. CASE AbortFromServer
    <3>1. UNCHANGED serverVars /\ net' \subseteq net
      BY Zenon, <2>2 DEF AbortFromServer, Deliver
    <3>2. CASE client \in {"open", "asm"}
      BY Zenon, <2>2, <3>1, <3>2, TxEndsInv DEF AbortFromServer
    <3>3. CASE client \notin {"open", "asm"}
      BY Zenon, <2>2, <3>1, <3>3, QuietInv DEF AbortFromServer, clientVars
    <3> QED BY Zenon, <3>2, <3>3
  <2> QED BY Zenon, <1>1, <2>1, <2>2 DEF ClientStep
<1>2. ASSUME NEW m \in net, Lose(m) PROVE Inv'
  BY Zenon, <1>2, QuietInv DEF Lose
<1>3. ASSUME NEW m \in net, UNCHANGED serverVars, SegmentUnknown(m) PROVE Inv'
  BY Zenon, <1>3, QuietInv DEF SegmentUnknown, Deliver
<1>4. ASSUME NEW m \in net, UNCHANGED serverVars, AcceptNoFirst(m) PROVE Inv'
  BY Zenon, <1>4, TxEndsInv DEF AcceptNoFirst, Deliver
<1>5. ASSUME NEW m \in net, UNCHANGED serverVars, AcceptTooMany(m) PROVE Inv'
  <2>1. client \in {"open", "asm"}
    BY Zenon, <1>5 DEF AcceptTooMany, Accepts
  <2> QED BY Zenon, <1>5, <2>1, TxEndsInv DEF AcceptTooMany, Deliver
<1> QED BY Zenon, <1>1, <1>2, <1>3, <1>4, <1>5

\* The fields of a segment in flight: sequence numbers are not reused.
LEMMA SegmentFields ==
  ASSUME Inv, NEW m \in net, m.type = "seg"
  PROVE  /\ count <= SeqMod /\ phase # "check"
         /\ \E i \in Nat : /\ i < count /\ m.seq = i /\ m.payload = i
                           /\ m.more = (i < count - 1)
<1>1. count <= SeqMod /\ phase # "check"
  BY Zenon, UnderWay
<1>2. PICK i \in Nat : i < count /\ m = Seg(i)
  BY Zenon, MessageTypes DEF Inv, NetInv
<1>3. i % SeqMod = i
  BY <1>1, <1>2, Modulo, Counters, SizeType
<1> QED BY Zenon, <1>1, <1>2, <1>3 DEF Seg

\* What Add answers when the reassembly holds n segments.
LEMMA OutcomeMeans ==
  ASSUME NEW n \in Nat, Holds(n), NEW m, limits \in Limits
  PROVE  /\ asm.expected = n /\ asm.buf = Prefix(n)
         /\ Outcome(m) = "OutOfOrder" <=> m.seq # n
         /\ Outcome(m) \in {"Stored", "StoredAck", "Complete"} =>
              m.seq = n /\ n + 1 <= limits.segments /\ n + 1 <= limits.octets
         /\ Outcome(m) = "Complete" => ~m.more
         /\ Outcome(m) \in {"Stored", "StoredAck"} => m.more = TRUE \/ m.more
         /\ Outcome(m) = "Stored" => asm.inWindow + 1 < ActualWindow
<1>1. asm.expected = n /\ asm.buf = Prefix(n) /\ Len(asm.buf) = n
  BY DEF Holds, Prefix
<1>2. limits.segments \in Nat /\ limits.octets \in Nat
  BY Zenon, ReplyAssumption
<1>3. asm.inWindow \in Nat /\ ActualWindow \in Nat
  BY WindowType, SegmentAssumption DEF Holds
<1> QED BY <1>1, <1>2, <1>3 DEF Outcome, AddOutcome

\* A step that answers with a SegmentACK for a stored segment.
LEMMA AnswerInv ==
  ASSUME Inv, UNCHANGED serverVars, ClientInv', stored' \in Nat, stored' >= stored,
         count <= SeqMod, phase # "check",
         NEW s \in Nat, NEW nak \in BOOLEAN, s < stored',
         net' \subseteq net \cup {Ack(s, nak)}
  PROVE  Inv'
<1> DEFINE out == {Ack(s, nak)}
<1>1. ASSUME NEW m \in out PROVE InFlight(m)'
  <2>1. \E t \in Nat : \E b \in BOOLEAN : t < stored' /\ m = Ack(t, b)
    BY Zenon
  <2>2. Ack(s, nak)' = Ack(s, nak)
    BY Zenon DEF Ack
  <2> QED BY Zenon, <2>1, <2>2 DEF InFlight, Ack
<1>2. net' \subseteq net \cup out
  BY Zenon
<1> HIDE DEF out
<1> QED BY Zenon, <1>1, <1>2, ClientStepInv

\* A segment out of order is answered by the number of the last one stored.
LEMMA OutOfOrderInv ==
  ASSUME Inv, NEW m \in net, m.type = "seg", UNCHANGED serverVars, AcceptOutOfOrder(m)
  PROVE  Inv'
<1>1. count <= SeqMod /\ phase # "check" /\ count \in Nat /\ stored \in Nat
  BY Zenon, SegmentFields, Counters
<1>2. count' = count /\ UNCHANGED clientVars
  BY Zenon DEF serverVars, AcceptOutOfOrder
<1>3. ClientInv' /\ stored' = stored /\ stored' \in Nat /\ stored' >= stored
  BY Zenon, <1>2, ClientKeeps
<1>4. PICK n \in 0 .. count - 1 : Holds(n)
  BY Zenon DEF Inv, ClientInv
<1>5. n \in Nat /\ asm.expected = n /\ m.seq # n
  <2>1. n \in Nat
    BY <1>1, <1>4
  <2> QED BY Zenon, <1>4, <2>1, OutcomeMeans DEF AcceptOutOfOrder, Inv, ClientInv
<1>6. n > 0 /\ stored = n
  BY <1>4, <1>5 DEF AcceptOutOfOrder, Accepts, Holds
<1>7. PICK s \in Nat : s = n - 1 /\ s < SeqMod /\ s < stored'
  BY <1>1, <1>3, <1>4, <1>5, <1>6, SizeType
<1>8. Last(asm) = s
  <2>1. (s + SeqMod) % SeqMod = s
    BY Zenon, <1>7, Modulo
  <2>2. asm.expected + SeqMod - 1 = s + SeqMod
    BY <1>5, <1>7, SizeType
  <2> QED BY Zenon, <2>1, <2>2 DEF Last
<1>9. PICK nak \in BOOLEAN : Deliver(m, {Ack(s, nak)})
  BY <1>8, Zenon DEF AcceptOutOfOrder
<1>10. net' \subseteq net \cup {Ack(s, nak)}
  BY Zenon, <1>9 DEF Deliver
<1> QED BY Zenon, <1>1, <1>3, <1>7, <1>10, AnswerInv

\* The next segment is stored, and perhaps acknowledged.
LEMMA StoredInv ==
  ASSUME Inv, NEW m \in net, m.type = "seg", UNCHANGED serverVars, AcceptStored(m)
  PROVE  Inv'
<1>1. count <= SeqMod /\ phase # "check" /\ count \in Nat /\ count \in Sizes
      /\ stored \in Nat /\ count' = count
  BY Zenon, SegmentFields, Counters DEF serverVars
<1>2. PICK n \in 0 .. count - 1 : Holds(n)
  BY Zenon DEF Inv, ClientInv
<1>3. n \in Nat
  BY <1>1, <1>2
<1>4. /\ asm.expected = n /\ asm.buf = Prefix(n)
      /\ m.seq = n /\ n + 1 <= limits.segments /\ n + 1 <= limits.octets
      /\ (Outcome(m) = "Stored" => asm.inWindow + 1 < ActualWindow)
      /\ m.more = TRUE \/ m.more
  BY Zenon, <1>2, <1>3, OutcomeMeans DEF AcceptStored, Inv, ClientInv
<1>5. n < count - 1 /\ m.payload = n
  <2>1. PICK i \in Nat : /\ i < count /\ m.seq = i /\ m.payload = i
                         /\ m.more = (i < count - 1)
    BY Zenon, SegmentFields
  <2> QED BY Zenon, <1>4, <2>1
<1>6. asm' = [expected |-> n + 1, inWindow |-> asm'.inWindow, buf |-> Prefix(n + 1)]
      /\ asm'.inWindow \in 0 .. ActualWindow
  <2>1. (n + 1) % SeqMod = n + 1
    BY <1>1, <1>3, <1>5, SizeType
  <2>2. Append(asm.buf, m.payload) = Prefix(n + 1)
    BY Zenon, <1>1, <1>3, <1>4, <1>5, PrefixFacts
  <2>3. asm.inWindow \in Nat /\ ActualWindow \in Nat
    BY <1>2, WindowType, SegmentAssumption DEF Holds
  <2> QED BY <1>3, <1>4, <2>1, <2>2, <2>3 DEF AcceptStored, AddStored
<1>7. stored' = n + 1 /\ stored = n
  <2>1. Len(Prefix(n + 1)) = n + 1
    BY <1>1, <1>3, PrefixFacts
  <2> QED BY <1>2, <1>6, <2>1 DEF AcceptStored, Accepts, Holds
<1>8. ClientInv'
  <2>1. ActualWindow' = ActualWindow /\ Prefix(n + 1)' = Prefix(n + 1)
    BY Zenon DEF ActualWindow, Prefix
  <2>2. Holds(n + 1)'
    BY <1>3, <1>4, <1>6, <1>7, <2>1 DEF Holds, AcceptStored
  <2>3. \E k \in 0 .. count' - 1 : Holds(k)'
    BY <1>1, <1>3, <1>5, <2>2
  <2>4. accepted' = <<>> /\ accepted' = accepted
    BY Zenon DEF Inv, ClientInv, AcceptStored, Accepts
  <2> QED BY <1>1, <1>3, <1>5, <1>7, <2>3, <2>4 DEF Inv, ClientInv, AcceptStored, Payloads
<1>9. stored' \in Nat /\ stored' >= stored /\ n < stored'
  BY <1>3, <1>7
<1>10. CASE Outcome(m) = "StoredAck"
  <2>1. Last(asm') = n
    <3>1. (n + SeqMod) % SeqMod = n
      BY <1>1, <1>3, <1>5, Modulo, SizeType
    <3>2. asm'.expected = n + 1 /\ n + 1 + SeqMod - 1 = n + SeqMod
      BY <1>3, <1>6, SizeType
    <3> QED BY Zenon, <3>1, <3>2 DEF Last
  <2>2. net' \subseteq net \cup {Ack(n, FALSE)}
    BY Zenon, <1>10, <2>1 DEF AcceptStored, Deliver
  <2> QED BY Zenon, <1>1, <1>3, <1>8, <1>9, <2>2, AnswerInv
<1>11. CASE Outcome(m) = "Stored"
  <2> DEFINE out == {}
  <2>1. net' \subseteq net \cup out /\ \A a \in out : InFlight(a)'
    BY Zenon, <1>11 DEF AcceptStored, Deliver
  <2> HIDE DEF out
  <2> QED BY Zenon, <1>1, <1>8, <1>9, <2>1, ClientStepInv
<1> QED BY Zenon, <1>10, <1>11 DEF AcceptStored

\* What is handed over when the last segment arrives is the reply.
LEMMA CompleteEffect ==
  ASSUME Inv, NEW m \in net, m.type = "seg", AcceptComplete(m)
  PROVE  /\ accepted = <<>> /\ accepted' = Append(accepted, Message)
         /\ stored' = count
         /\ \E s \in Nat : s < count /\ net' \subseteq net \cup {Ack(s, FALSE)}
<1>1. count <= SeqMod /\ count \in Nat /\ count \in Sizes
  BY Zenon, SegmentFields, Counters
<1>2. PICK n \in 0 .. count - 1 : Holds(n)
  BY Zenon DEF Inv, ClientInv
<1>3. n \in Nat
  BY <1>1, <1>2
<1>4. asm.expected = n /\ asm.buf = Prefix(n) /\ m.seq = n /\ ~m.more
  BY Zenon, <1>2, <1>3, OutcomeMeans DEF AcceptComplete, Inv, ClientInv
<1>5. n + 1 = count /\ m.payload = n
  <2>1. PICK i \in Nat : /\ i < count /\ m.seq = i /\ m.payload = i
                         /\ m.more = (i < count - 1)
    BY Zenon, SegmentFields
  <2>2. ~(i < count - 1)
    BY <1>4, <2>1, Zenon
  <2> QED BY <1>1, <1>4, <2>1, <2>2
<1>6. Append(asm.buf, m.payload) = Message /\ Len(Message) = count
  <2>1. Append(Prefix(n), n) = Prefix(n + 1)
    BY Zenon, <1>1, <1>3, PrefixFacts
  <2>2. Prefix(count) = Message /\ Len(Prefix(count)) = count
    BY Zenon, <1>1, PrefixFacts
  <2> QED BY Zenon, <1>4, <1>5, <2>1, <2>2
<1>7. Last(AddStored(asm, "Complete", m.payload)) = n
  <2>1. (((n + 1) % SeqMod) + SeqMod - 1) % SeqMod = n
    BY <1>1, <1>3, <1>5, Modulo, SizeType
  <2> QED BY Zenon, <1>4, <2>1 DEF Last, AddStored
<1>8. accepted' = Append(accepted, Message) /\ stored' = count
  BY Zenon, <1>6 DEF AcceptComplete, AddStored
<1>9. net' \subseteq net \cup {Ack(n, FALSE)} /\ n < count
  <2>1. Deliver(m, {Ack(Last(AddStored(asm, "Complete", m.payload)), FALSE)})
    BY Zenon DEF AcceptComplete
  <2>2. Deliver(m, {Ack(n, FALSE)})
    BY Zenon, <1>7, <2>1
  <2>3. net' \subseteq net \cup {Ack(n, FALSE)}
    BY Zenon, <2>2 DEF Deliver
  <2>4. n < count
    BY <1>1, <1>2
  <2> QED BY Zenon, <2>3, <2>4
<1>10. accepted = <<>>
  BY Zenon DEF AcceptComplete, Accepts, Inv, ClientInv
<1> QED BY Zenon, <1>3, <1>8, <1>9, <1>10

\* The last segment is acknowledged and the reply handed over.
LEMMA CompleteInv ==
  ASSUME Inv, NEW m \in net, m.type = "seg", UNCHANGED serverVars, AcceptComplete(m)
  PROVE  Inv'
<1>1. count <= SeqMod /\ phase # "check" /\ count \in Nat /\ count > 0
      /\ count \in Sizes /\ stored \in Nat /\ stored <= count /\ count' = count
  BY Zenon, SegmentFields, Counters DEF serverVars
<1>2. accepted = <<>> /\ accepted' = Append(accepted, Message) /\ stored' = count
  BY Zenon, CompleteEffect
<1>3. accepted' \in Seq(Seq(Payloads)) /\ accepted' # <<>>
  <2>1. Message \in Seq(Payloads)
    BY <1>1, PrefixFacts
  <2> QED BY <1>2, <2>1
<1>4. Holds(0)'
  <2>1. limits.segments \in Nat /\ limits.octets \in Nat
    BY Zenon, ReplyAssumption DEF Inv, ClientInv
  <2>2. Prefix(0) = <<>>
    BY DEF Prefix
  <2> QED BY <2>1, <2>2, WindowType
          DEF Holds, AcceptComplete, TxEnds, NewReassembly, ActualWindow, Prefix
<1>5. ClientInv'
  <2>1. \E k \in 0 .. count' - 1 : Holds(k)'
    BY <1>1, <1>4
  <2> QED BY <1>1, <1>2, <1>3, <2>1 DEF Inv, ClientInv, AcceptComplete, TxEnds, Payloads
<1>6. PICK s \in Nat : s < count /\ net' \subseteq net \cup {Ack(s, FALSE)}
  BY Zenon, CompleteEffect
<1> QED BY Zenon, <1>1, <1>2, <1>5, <1>6, AnswerInv

\* The invariant is inductive.
LEMMA NextInv == Inv /\ [Next]_vars => Inv'
<1> SUFFICES ASSUME Inv, [Next]_vars PROVE Inv'
  BY Zenon
<1>1. CASE ServerStep
  BY Zenon, <1>1, FinishInv, SendInv, WaitEndsInv, AbortInv DEF ServerStep
<1>2. CASE ClientStep
  BY Zenon, <1>2, EndStepsInv
<1>3. ASSUME NEW m \in net, HandleAck(m) PROVE Inv'
  BY Zenon, <1>3, AckInv
<1>4. ASSUME NEW m \in net, accept(m) PROVE Inv'
  BY Zenon, <1>4, EndStepsInv, OutOfOrderInv, StoredInv, CompleteInv DEF accept
<1>5. ASSUME NEW m \in net, Lose(m) PROVE Inv'
  BY Zenon, <1>5, EndStepsInv
<1>6. CASE UNCHANGED vars
  BY Zenon, <1>6, QuietInv DEF vars
<1> QED BY Zenon, <1>1, <1>2, <1>3, <1>4, <1>5, <1>6 DEF Next

(***************************************************************************)
(* The theorems.                                                           *)
(***************************************************************************)
\* Spec keeps the invariant.
LEMMA Invariance == Spec => []Inv
<1>1. Init => Inv
  BY Zenon, InitInv
<1>2. Inv /\ [Next]_vars => Inv'
  BY Zenon, NextInv
<1> QED BY <1>1, <1>2, PTL DEF Spec

\* The invariant bounds the variables.
LEMMA InvTypes == Inv => TypeOK
<1> SUFFICES ASSUME Inv PROVE TypeOK
  BY Zenon
<1>1. PICK n \in 0 .. count - 1 : Holds(n)
  BY Zenon DEF Inv, ClientInv
<1>2. n \in Nat /\ n <= count
  BY <1>1, Counters
<1>3. n \in 0 .. SeqMod - 1
  <2>1. CASE n = 0
    BY <2>1, SizeType
  <2>2. CASE n > 0
    <3>1. stored > 0
      BY Zenon, <1>1, <2>2 DEF Holds
    <3> QED BY <1>1, <2>2, <3>1, UnderWay, SizeType, Counters
  <2> QED BY <1>2, <2>1, <2>2
<1>4. /\ asm.expected \in 0 .. SeqMod - 1 /\ asm.inWindow \in 0 .. ActualWindow
      /\ asm.buf \in Seq(Payloads)
      /\ Len(asm.buf) <= limits.segments /\ Len(asm.buf) <= limits.octets
  <2>1. Prefix(n) \in Seq(Payloads) /\ Len(Prefix(n)) = n
    BY Zenon, <1>2, Counters, PrefixFacts
  <2>2. asm.expected = n /\ asm.buf = Prefix(n) /\ asm.inWindow \in 0 .. ActualWindow
        /\ n <= limits.segments /\ n <= limits.octets
    BY <1>1 DEF Holds
  <2> QED BY Zenon, <1>3, <2>1, <2>2
<1>5. ASSUME NEW m \in net
      PROVE  \/ m.type = "seg" /\ m.payload \in Payloads /\ m = Seg(m.payload)
             \/ m.type = "ack" /\ m = Ack(m.seq, m.nak)
                  /\ m.seq \in 0 .. SeqMod - 1 /\ m.nak \in BOOLEAN
             \/ m \in {ServerAbort, ClientAbort}
  <2>1. CASE \E i \in Nat : i < count /\ m = Seg(i)
    BY <2>1, Counters DEF Seg, Payloads
  <2>2. CASE \E s \in Nat : \E nak \in BOOLEAN : s < stored /\ m = Ack(s, nak)
    <3>1. PICK s \in Nat, nak \in BOOLEAN : s < stored /\ m = Ack(s, nak)
      BY Zenon, <2>2
    <3>2. m.type = "ack" /\ m.seq = s /\ m.nak = nak
      BY Zenon, <3>1 DEF Ack
    <3>3. s \in 0 .. SeqMod - 1
      BY <3>1, <3>2, UnderWay, SizeType, Counters
    <3> QED BY <3>1, <3>2, <3>3, Zenon
  <2> QED BY Zenon, <2>1, <2>2 DEF Inv, NetInv, InFlight
<1>6. aborted \in BOOLEAN
  BY Zenon DEF Inv, ServerInv
<1> QED BY Zenon, <1>4, <1>5, <1>6 DEF TypeOK, Inv, ServerInv, ClientInv

\* The variables keep their types and a reassembly its limits.
THEOREM ReplyTypes == Spec => []TypeOK
BY Invariance, InvTypes, PTL

\* A segment the server takes as acknowledged was stored by the client:
\* sendSegments never reads an old sequence number as a new segment.
THEOREM ReplyAcknowledgedIsStored == Spec => []AckedIsStored
<1>1. Inv => AckedIsStored
  BY Zenon DEF Inv, ServerInv, AckedIsStored
<1> QED BY <1>1, Invariance, PTL

Handed == phase = "sent" => accepted # <<>>

\* A reply the server counts as delivered has been handed over.
LEMMA SentIsAccepted == Inv => Handed
<1> SUFFICES ASSUME Inv, phase = "sent" PROVE accepted # <<>>
  BY Zenon DEF Handed
<1>1. stored = count
  BY Counters DEF Inv, ServerInv
<1> QED BY Zenon, <1>1 DEF Inv, ClientInv

\* How a step looks to the abstract specification.
LEMMA StepEffect ==
  ASSUME Inv, Next
  PROVE  /\ Message' = Message
         /\ \/ /\ accepted' = accepted
               /\ phase \in {"sent", "failed"} => phase' = phase
            \/ /\ accepted' = Append(accepted, Message) /\ phase' = phase
               /\ Len(accepted) < 1
<1>1. count' = count
  BY Zenon DEF Next, ClientStep, ServerStep, finish, SendWindow, SendFails, ServerCloses,
         SegmentTimeout, AbortFromClient, AbortSeen, watchTimeout, TxOver,
         AbortFromServer, HandleAck, accept, Lose, serverVars
<1>2. ASSUME ServerStep
      PROVE  accepted' = accepted /\ (phase \in {"sent", "failed"} => phase' = phase)
  BY Zenon, <1>2 DEF ServerStep, finish, SendWindow, SendFails, ServerCloses,
              SegmentTimeout, AbortFromClient, AbortSeen, clientVars
<1>3. ASSUME ClientStep PROVE accepted' = accepted /\ phase' = phase
  BY Zenon, <1>3 DEF ClientStep, watchTimeout, TxOver, AbortFromServer, serverVars
<1>4. ASSUME NEW m \in net, HandleAck(m) PROVE accepted' = accepted /\ phase = "wait"
  BY Zenon, <1>4 DEF HandleAck, clientVars
<1>5. ASSUME NEW m \in net, Lose(m) PROVE accepted' = accepted /\ phase' = phase
  BY Zenon, <1>5 DEF Lose, serverVars, clientVars
<1>6. ASSUME NEW m \in net, accept(m)
      PROVE  /\ phase' = phase
             /\ \/ accepted' = accepted
                \/ accepted' = Append(accepted, Message) /\ Len(accepted) < 1
  <2>1. phase' = phase /\ m.type = "seg"
    BY Zenon, <1>6 DEF accept, serverVars
  <2>2. CASE AcceptComplete(m)
    <3>1. accepted = <<>> /\ accepted' = Append(accepted, Message)
      BY Zenon, <2>1, <2>2, CompleteEffect
    <3>2. Len(<<>>) = 0
      BY Zenon
    <3>3. Len(accepted) < 1
      BY <3>1, <3>2
    <3> QED BY Zenon, <2>1, <3>1, <3>3
  <2>3. CASE ~AcceptComplete(m)
    BY Zenon, <1>6, <2>1, <2>3 DEF accept, SegmentUnknown, AcceptNoFirst, AcceptOutOfOrder,
                            AcceptTooMany, AcceptStored, clientVars
  <2> QED BY Zenon, <2>2, <2>3
<1>7. Message' = Message
  BY Zenon, <1>1 DEF Message
<1> QED BY Zenon, <1>2, <1>3, <1>4, <1>5, <1>6, <1>7 DEF Next

\* Every step of the transfer is a step or a stutter of the abstract one.
LEMMA StepMaps ==
  Inv /\ Handed' /\ [Next]_vars => [T!Next]_<<Message, accepted, verdict>>
<1> SUFFICES ASSUME Inv, Handed', [Next]_vars
             PROVE  T!Next \/ UNCHANGED <<Message, accepted, verdict>>
  BY Zenon
<1>1. CASE UNCHANGED vars
  BY Zenon, <1>1 DEF vars, clientVars, serverVars, Message, verdict
<1>2. CASE Next
  <2>1. CASE /\ accepted' = Append(accepted, Message) /\ phase' = phase
             /\ Len(accepted) < 1
    BY Zenon, <1>2, <2>1, StepEffect DEF T!Next, T!Accept, verdict
  <2>2. CASE accepted' = accepted /\ (phase \in {"sent", "failed"} => phase' = phase)
    <3>1. phase' = "sent" => accepted' # <<>>
      BY Zenon DEF Handed
    <3>2. Message' = Message
      BY Zenon, <1>2, StepEffect
    <3> QED BY Zenon, <2>2, <3>1, <3>2 DEF T!Next, T!Succeed, T!Fail, verdict
  <2> QED BY Zenon, <1>2, <2>1, <2>2, StepEffect
<1> QED BY Zenon, <1>1, <1>2

\* The segmented reply implements the abstract transfer: the caller gets the
\* whole reply, at most once, and the server takes the reply as delivered
\* only when the client has it.
THEOREM ReplyImplementsTransfer == Spec => ImplementsTransfer
<1>1. Init => T!Init
  BY Zenon DEF Init, T!Init, verdict
<1>2. Inv /\ Handed' /\ [Next]_vars => [T!Next]_<<Message, accepted, verdict>>
  BY Zenon, StepMaps
<1> QED
  BY <1>1, <1>2, Invariance, SentIsAccepted, PTL DEF Spec, ImplementsTransfer, T!Spec
==============================================================================
