----------------------------- MODULE Responder -----------------------------
(***************************************************************************)
(* The server's responding side (server/responder.go) between its receive  *)
(* loop, its workers, its housekeeping and Server.Close: which transaction *)
(* a confirmed request belongs to, who executes it, and when the           *)
(* transaction is released.  A key is a requester and an invoke ID.  What  *)
(* segments carry is in SegRequest and SegReply; what services do is not   *)
(* modelled.  A step is what one goroutine does between two points where   *)
(* another can observe it (the responder's lock, the queue, the network).  *)
(***************************************************************************)
EXTENDS Integers, Sequences, FiniteSets

CONSTANTS
  Keys,       \* requester and invoke ID
  NoKey,      \* an unconfirmed request, which has no transaction
  Workers,    \* the worker goroutines
  QueueCap,   \* capacity of the job queue
  MaxJobs     \* bound on the requests handed to the workers during a run

ASSUME ResponderAssumption ==
  /\ NoKey \notin Keys
  /\ QueueCap \in Nat /\ MaxJobs \in Nat

Jobs == 1 .. MaxJobs
None == 0
Exited == -1

VARIABLES
  tx,        \* responder.tx: the rtx of each key
  job,       \* the requests handed to submit, with their key and progress
  submitted, \* how many of them there are
  receiving, \* the receive loop runs
  rx,        \* the job the receive loop is submitting, if any
  queue,     \* Server.jobs
  worker,    \* the job each worker runs, None or Exited
  state      \* the server: "open", "closing" or "closed"

responderVars == <<tx, job, submitted, receiving, rx, queue, worker, state>>

NoTx == [kind |-> "none", job |-> None]
Reassembling == [kind |-> "asm", job |-> None]
Executing(n) == [kind |-> "exec", job |-> n]

NoJob == [key |-> NoKey, step |-> "none"]

ResponderInit ==
  /\ tx = [k \in Keys |-> NoTx]
  /\ job = [n \in Jobs |-> NoJob]
  /\ submitted = 0
  /\ receiving = TRUE
  /\ rx = None
  /\ queue = <<>>
  /\ worker = [w \in Workers |-> None]
  /\ state = "open"

Move(n, step) ==
  job' = [job EXCEPT ![n] = [key |-> job[n].key, step |-> step]]

(***************************************************************************)
(* The receive loop.                                                       *)
(***************************************************************************)
\* A packet Recv returned before Close may still be handled after it.
Receiving == receiving /\ rx = None

\* The receive loop is about to submit a new job for key k.
NewJob(k) ==
  /\ submitted < MaxJobs
  /\ submitted' = submitted + 1
  /\ job' = [job EXCEPT ![submitted + 1] = [key |-> k, step |-> "submit"]]
  /\ rx' = submitted + 1

\* Changes of the transaction table alone.
OnlyTx(k, t) ==
  /\ tx' = [tx EXCEPT ![k] = t]
  /\ UNCHANGED <<job, submitted, receiving, rx, queue, worker, state>>

\* A request that is complete starts its job and its execution.
Start(k) ==
  /\ NewJob(k)
  /\ tx' = [tx EXCEPT ![k] = Executing(submitted + 1)]
  /\ UNCHANGED <<receiving, queue, worker, state>>

\* A whole request, with a key that is not busy.
confirmed(k) ==
  /\ Receiving
  /\ tx[k].kind = "none"
  /\ Start(k)

\* A request or a segment with a key that is busy is dropped.
repeated(k) ==
  /\ Receiving
  /\ tx[k].kind # "none"
  /\ UNCHANGED responderVars

\* segment: the first one starts a reassembly ...
segmentFirst(k) ==
  /\ Receiving
  /\ tx[k].kind = "none"
  /\ OnlyTx(k, Reassembling)

\* ... one beyond the limits abandons it ...
segmentTooMany(k) ==
  /\ Receiving
  /\ tx[k].kind = "asm"
  /\ OnlyTx(k, NoTx)

\* ... and the last one, which may be the first, completes it.
segmentLast(k) ==
  /\ Receiving
  /\ tx[k].kind \in {"none", "asm"}
  /\ Start(k)

\* An Abort from the requester drops a reassembly.  A request being
\* executed finishes; a segmented reply stops early (SegReply) and its
\* worker releases the transaction.
abortFromClient(k) ==
  /\ Receiving
  /\ tx[k].kind = "asm"
  /\ OnlyTx(k, NoTx)

\* An unconfirmed request shares the queue and the workers.
unconfirmed ==
  /\ Receiving
  /\ NewJob(NoKey)
  /\ UNCHANGED <<tx, receiving, queue, worker, state>>

\* submit: the channel has room.  The server may have begun to close since
\* submit looked.
enqueue ==
  /\ rx # None
  /\ Len(queue) < QueueCap
  /\ queue' = Append(queue, rx)
  /\ Move(rx, "queued")
  /\ rx' = None
  /\ UNCHANGED <<tx, submitted, receiving, worker, state>>

\* submit: the channel is empty and a worker waits for it.
handOver(w) ==
  /\ rx # None
  /\ queue = <<>> /\ worker[w] = None
  /\ worker' = [worker EXCEPT ![w] = rx]
  /\ Move(rx, "running")
  /\ rx' = None
  /\ UNCHANGED <<tx, submitted, receiving, queue, state>>

\* Mutant: submit waits for a place in the queue.
submitBlocks ==
  /\ FALSE
  /\ UNCHANGED responderVars

\* submit refuses; execute forgets the transaction and sends an Abort.  An
\* unconfirmed request is dropped.
submitFails ==
  /\ rx # None
  /\ state # "open" \/ Len(queue) >= QueueCap
  /\ tx' = [k \in Keys |-> IF k = job[rx].key THEN NoTx ELSE tx[k]]
  /\ Move(rx, "done")
  /\ rx' = None
  /\ UNCHANGED <<submitted, receiving, queue, worker, state>>

receiveExits ==
  /\ Receiving /\ state # "open"
  /\ receiving' = FALSE
  /\ UNCHANGED <<tx, job, submitted, rx, queue, worker, state>>

(***************************************************************************)
(* Housekeeping.                                                           *)
(***************************************************************************)
\* Mutant: expiry looks at every transaction.
expireAny(k) ==
  /\ state # "closed" /\ tx[k].kind # "none"
  /\ OnlyTx(k, NoTx)

\* A reassembly has had no segment for twice the segment timeout.
expire(k) ==
  /\ state # "closed" /\ tx[k].kind = "asm"
  /\ OnlyTx(k, NoTx)

(***************************************************************************)
(* The workers.                                                            *)
(***************************************************************************)
\* A worker selects between the queue and the end of the server.
takeJob(w) ==
  /\ worker[w] = None /\ queue # <<>>
  /\ worker' = [worker EXCEPT ![w] = Head(queue)]
  /\ queue' = Tail(queue)
  /\ Move(Head(queue), "running")
  /\ UNCHANGED <<tx, submitted, receiving, rx, state>>

workerExits(w) ==
  /\ worker[w] = None /\ state # "open"
  /\ worker' = [worker EXCEPT ![w] = Exited]
  /\ UNCHANGED <<tx, job, submitted, receiving, rx, queue, state>>

\* Worker w goes on with job n, which it found at step from.
Progress(w, n, from, to) ==
  /\ worker[w] = n /\ job[n].step = from
  /\ Move(n, to)
  /\ UNCHANGED <<tx, submitted, receiving, rx, queue, worker, state>>

\* The handler of a confirmed request returns; finish begins.
handled(w, n) ==
  /\ job[n].key # NoKey
  /\ Progress(w, n, "running", "finishing")

\* The handler of an unconfirmed request returns.
handledUnconfirmed(w, n) ==
  /\ job[n].key = NoKey
  /\ worker[w] = n /\ job[n].step = "running"
  /\ Move(n, "done")
  /\ worker' = [worker EXCEPT ![w] = None]
  /\ UNCHANGED <<tx, submitted, receiving, rx, queue, state>>

\* finish: no reply is due (silent), or it could not be sent.
silent(w, n) == Progress(w, n, "finishing", "ended")

\* finish: a reply of one frame (an ACK, Error, Reject or Abort) is sent;
\* what after does follows before the transaction is released.
reply(w, n) == Progress(w, n, "finishing", "replied")

\* finish: the reply needs segments; t.acks and t.aborted are made.
replySegmented(w, n) == Progress(w, n, "finishing", "sending")

\* sendSegments: the last segment is acknowledged, or the retries are used
\* up and an Abort sent.
segmentsDone(w, n) == Progress(w, n, "sending", "replied")

\* sendSegments: aborted by the requester, a failing send, or the server
\* closes.
segmentsStopped(w, n) == Progress(w, n, "sending", "ended")

\* Mutant: the deferred delete is missing.
releaseKeeps(w, n) ==
  /\ worker[w] = n /\ job[n].step \in {"replied", "ended"}
  /\ Move(n, "done")
  /\ worker' = [worker EXCEPT ![w] = None]
  /\ UNCHANGED <<tx, submitted, receiving, rx, queue, state>>

\* finish's deferred delete, by key; the worker is free again.
release(w, n) ==
  /\ worker[w] = n /\ job[n].step \in {"replied", "ended"}
  /\ tx' = [tx EXCEPT ![job[n].key] = NoTx]
  /\ Move(n, "done")
  /\ worker' = [worker EXCEPT ![w] = None]
  /\ UNCHANGED <<submitted, receiving, rx, queue, state>>

(***************************************************************************)
(* Server.Close.                                                           *)
(***************************************************************************)
Close ==
  /\ state = "open"
  /\ state' = "closing"
  /\ UNCHANGED <<tx, job, submitted, receiving, rx, queue, worker>>

\* wg.Wait has returned; responder.close forgets the transactions.
CloseEnds ==
  /\ state = "closing"
  /\ ~receiving /\ \A w \in Workers : worker[w] = Exited
  /\ state' = "closed"
  /\ tx' = [k \in Keys |-> NoTx]
  /\ UNCHANGED <<job, submitted, receiving, rx, queue, worker>>

\* Nothing runs once the server is closed.
Closed == state = "closed" /\ UNCHANGED responderVars

Arrival ==
  \/ \E k \in Keys : \/ confirmed(k) \/ repeated(k) \/ segmentFirst(k)
                     \/ segmentTooMany(k) \/ segmentLast(k) \/ abortFromClient(k)
  \/ unconfirmed

Submit == enqueue \/ (\E w \in Workers : handOver(w)) \/ submitFails

RunJob(w) ==
  \E n \in Jobs :
    \/ handled(w, n) \/ handledUnconfirmed(w, n)
    \/ silent(w, n) \/ reply(w, n) \/ replySegmented(w, n)
    \/ segmentsDone(w, n) \/ segmentsStopped(w, n)
    \/ release(w, n)

ResponderNext ==
  \/ Arrival
  \/ Submit
  \/ receiveExits
  \/ \E k \in Keys : expire(k)
  \/ \E w \in Workers : takeJob(w) \/ RunJob(w) \/ workerExits(w)
  \/ Close
  \/ CloseEnds
  \/ Closed

ResponderSpec == ResponderInit /\ [][ResponderNext]_responderVars

\* Goroutines run: the receive loop, the ticker while the server is open,
\* the workers (handlers return; SegReply shows that sendSegments does)
\* and Close.  Recv reports the closed transport, and select is not for ever
\* partial to the queue, so both loops end once the server closes.
ResponderFairSpec ==
  /\ ResponderSpec
  /\ WF_responderVars(Submit)
  /\ SF_responderVars(receiveExits)
  /\ \A k \in Keys : WF_responderVars(state = "open" /\ expire(k))
  /\ \A w \in Workers : /\ WF_responderVars(takeJob(w) \/ RunJob(w))
                        /\ SF_responderVars(workerExits(w))
  /\ WF_responderVars(CloseEnds)

(***************************************************************************)
(* Properties.                                                             *)
(***************************************************************************)
Steps == {"none", "submit", "queued", "running", "finishing", "sending", "replied",
          "ended", "done"}

\* Types; the queue keeps to the capacity WithWorkers gives it.
ResponderTypeOK ==
  /\ tx \in [Keys -> [kind : {"none", "asm", "exec"}, job : 0 .. MaxJobs]]
  /\ job \in [Jobs -> [key : Keys \cup {NoKey}, step : Steps]]
  /\ submitted \in 0 .. MaxJobs
  /\ receiving \in BOOLEAN
  /\ rx \in 0 .. MaxJobs
  /\ queue \in Seq(Jobs) /\ Len(queue) <= QueueCap
  /\ worker \in [Workers -> -1 .. MaxJobs]
  /\ state \in {"open", "closing", "closed"}

\* From the moment the receive loop took it until its transaction is
\* released, or the server is closed.
Live(n) == job[n].step \notin {"none", "done"}

\* A requester's invoke ID has at most one request in execution: a request
\* repeated at any moment between its arrival and its reply is not executed
\* beside the first, however refusals, expiries, Aborts and segments fall
\* (responder.confirmed, segment, finish).
OneExecution ==
  \A m, n \in Jobs :
    Live(m) /\ Live(n) /\ job[m].key = job[n].key /\ job[m].key # NoKey => m = n

\* A key that is busy is busy with a request that is queued or that a
\* goroutine holds: no path through execute and finish leaves an invoke ID
\* blocked for ever, and none releases the transaction of another request.
NoOrphan ==
  \A k \in Keys : tx[k].kind = "exec" =>
    /\ job[tx[k].job].key = k /\ Live(tx[k].job)
    /\ \/ rx = tx[k].job
       \/ \E i \in DOMAIN queue : queue[i] = tx[k].job
       \/ \E w \in Workers : worker[w] = tx[k].job

\* Every transaction is released in the end (expire, finish, Close).
KeyReleased == \A k \in Keys : tx[k].kind # "none" ~> tx[k].kind = "none"

\* Close returns: the receive loop and every worker exit, also with a full
\* queue and segmented replies in progress.
CloseReturns == state = "closing" ~> state = "closed"
=============================================================================
