----------------------------- MODULE DeployQueue -----------------------------
(***************************************************************************)
(* The in-memory deployment queue of server/src/lib/queue.ts.              *)
(*                                                                         *)
(* One JavaScript process runs the queue, so the code between two awaits   *)
(* is one atomic step.  There are exactly two such stretches: enqueue()    *)
(* followed by the synchronous head of processNext(), and the finally      *)
(* block that follows `await pending.run()' and calls processNext() again. *)
(* A job is what the queue tells apart: its id and its service.  Ids are   *)
(* fresh (nanoid) and are numbered here in the order of the enqueue calls, *)
(* which is what lets the FIFO properties be stated.                       *)
(***************************************************************************)
EXTENDS Integers, Sequences

CONSTANTS
    Service,    \* serviceIds
    MaxJobs     \* bound: number of enqueue calls in one life of the process

ASSUME MaxJobsAssumption == MaxJobs \in Nat

VARIABLES
    queue,      \* DeploymentQueue.queue: jobs waiting, oldest first
    running,    \* DeploymentQueue.running: services with a job in run()
    executing,  \* the jobs whose run() promise is unsettled
    enqueued    \* number of enqueue calls so far; the newest job's id

queueVars == <<queue, running, executing, enqueued>>

Job == [id: 1..MaxJobs, service: Service]

-----------------------------------------------------------------------------
(***************************************************************************)
(* processNext.  `find' picks the first job whose service is not running;  *)
(* `filter' drops exactly that entry, ids being unique.                    *)
(***************************************************************************)
\* Faulty variant: `find' ignores the running set.
StartableAny(q, busy) == 1..Len(q)

Startable(q, busy) == {i \in 1..Len(q) : q[i].service \notin busy}

\* Faulty variant: newest first.
IsLast(i, S) == i \in S /\ \A k \in S : k <= i

IsFirst(i, S) == i \in S /\ \A k \in S : i <= k

\* Faulty variant: `filter' compares serviceIds instead of job ids.
DropService(q, i) == SelectSeq(q, LAMBDA j : j.service # q[i].service)

Drop(q, i) == [k \in 1..(Len(q) - 1) |-> IF k < i THEN q[k] ELSE q[k + 1]]

\* Faulty variant: the job's id, not its serviceId, is added to the running set.
StartById(q, busy, live, i) ==
    /\ queue' = Drop(q, i)
    /\ running' = busy \union {q[i].id}
    /\ executing' = live \union {q[i]}

\* The job at index i leaves the queue and its run() is called.
Start(q, busy, live, i) ==
    /\ queue' = Drop(q, i)
    /\ running' = busy \union {q[i].service}
    /\ executing' = live \union {q[i]}

\* processNext() called with queue q, running set `busy' and `live' jobs in run().
ProcessNext(q, busy, live) ==
    \/ \E i \in Startable(q, busy) :
          IsFirst(i, Startable(q, busy)) /\ Start(q, busy, live, i)
    \/ /\ Startable(q, busy) = {}
       /\ queue' = q
       /\ running' = busy
       /\ executing' = live

QueueInit ==
    /\ queue = <<>>
    /\ running = {}
    /\ executing = {}
    /\ enqueued = 0

Enqueue(s) ==
    /\ enqueued < MaxJobs
    /\ enqueued' = enqueued + 1
    /\ ProcessNext(Append(queue, [id |-> enqueued + 1, service |-> s]),
                   running, executing)

\* Faulty variant: the finally block does not call processNext().
SettleOnly(j) ==
    /\ j \in executing
    /\ running' = running \ {j.service}
    /\ executing' = executing \ {j}
    /\ UNCHANGED <<queue, enqueued>>

\* run() settles, resolved or rejected (the catch only logs): the finally block.
Settle(j) ==
    /\ j \in executing
    /\ ProcessNext(queue, running \ {j.service}, executing \ {j})
    /\ UNCHANGED enqueued

QueueNext ==
    \/ \E s \in Service : Enqueue(s)
    \/ \E j \in executing : Settle(j)

(***************************************************************************)
(* Fairness: Node eventually runs the continuation of a settled promise;   *)
(* that run() settles at all is the assumption that git, Docker and the    *)
(* build process return.  Nobody is obliged to enqueue.                    *)
(***************************************************************************)
QueueFairness == \A j \in Job : WF_queueVars(Settle(j))

QueueSpec == QueueInit /\ [][QueueNext]_queueVars

FairQueueSpec == QueueSpec /\ QueueFairness

-----------------------------------------------------------------------------
Waiting == {queue[i] : i \in 1..Len(queue)}

QueueTypeOK ==
    /\ queue \in Seq(Job)
    /\ running \in SUBSET Service
    /\ executing \in SUBSET Job
    /\ enqueued \in 0..MaxJobs

(***************************************************************************)
(* "Jobs are processed one-at-a-time per service to avoid concurrent       *)
(* builds" (queue.ts:4): no two unsettled run() calls share a service, and *)
(* the running set is exactly the services of those calls, so isRunning()  *)
(* never lies to deploy.queueStatus.                                       *)
(***************************************************************************)
OneJobPerService ==
    /\ running = {j.service : j \in executing}
    /\ \A j, k \in executing : j.service = k.service => j = k

(***************************************************************************)
(* processNext() starts at most one job per call.  That is enough: a job   *)
(* only waits behind a running job of its OWN service, so no startable job *)
(* is ever left in the queue and a slow build of one service never delays  *)
(* another service.                                                        *)
(***************************************************************************)
NoStartableJobWaits == \A j \in Waiting : j.service \in running

(***************************************************************************)
(* Deployments of one service start in the order they were requested: what *)
(* executes is older than everything of that service that still waits, and *)
(* the queue itself is in request order.                                   *)
(***************************************************************************)
StartsInOrder ==
    /\ \A j \in executing, k \in Waiting : j.service = k.service => j.id < k.id
    /\ \A a, b \in 1..Len(queue) : a < b => queue[a].id < queue[b].id

(***************************************************************************)
(* The queue implements independent per-service lanes (ServiceLanes): the  *)
(* shared array and the single find() are not observable.                  *)
(***************************************************************************)
Lanes == INSTANCE ServiceLanes WITH waiting <- Waiting, submitted <- enqueued
ImplementsLanes == Lanes!Spec

\* Every job that waits is eventually run, however many others arrive.
EveryJobRuns ==
    \A id \in 1..MaxJobs :
        (\E j \in Waiting : j.id = id) ~> (\E j \in executing : j.id = id)
=============================================================================
