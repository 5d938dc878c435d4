-------------------------- MODULE DeployQueueProofs --------------------------
(***************************************************************************)
(* Proofs about the deployment queue, for any set of services and any      *)
(* number of jobs.                                                         *)
(***************************************************************************)
EXTENDS TLAPS, DeployQueue

(***************************************************************************)
(* The state processNext() is called in, with queue q, running set `busy', *)
(* `live' jobs in run() and n jobs enqueued so far: one job per service,   *)
(* the queue in request order, and every job that may start now belongs to *)
(* one and the same service s.  That is why starting a single job is       *)
(* enough.                                                                 *)
(***************************************************************************)
Ready(q, busy, live, n, s) ==
    /\ q \in Seq(Job)
    /\ busy \in SUBSET Service
    /\ live \in SUBSET Job
    /\ n \in 0..MaxJobs
    /\ busy = {j.service : j \in live}
    /\ \A j, k \in live : j.service = k.service => j = k
    /\ \A j \in live, i \in 1..Len(q) : j.service = q[i].service => j.id < q[i].id
    /\ \A a, b \in 1..Len(q) : a < b => q[a].id < q[b].id
    /\ \A i \in 1..Len(q) : q[i].id <= n
    /\ \A j \in live : j.id <= n
    /\ \A i \in 1..Len(q) : q[i].service \in busy \/ q[i].service = s

(***************************************************************************)
(* The inductive invariant: the checked properties, and ids bounded by the *)
(* count of enqueue calls, which makes the next id the largest.            *)
(***************************************************************************)
QueueInv ==
    /\ QueueTypeOK
    /\ OneJobPerService
    /\ NoStartableJobWaits
    /\ StartsInOrder
    /\ \A j \in Waiting \union executing : j.id <= enqueued

\* Dropping an element keeps the others, in their order.
LEMMA DropFacts ==
    ASSUME NEW S, NEW q \in Seq(S), NEW i \in 1..Len(q)
    PROVE  /\ Drop(q, i) \in Seq(S)
           /\ Len(Drop(q, i)) = Len(q) - 1
           /\ \A k \in 1..(Len(q) - 1) :
                 Drop(q, i)[k] = q[IF k < i THEN k ELSE k + 1]
           /\ \A k \in 1..Len(q) : k # i =>
                 \E m \in 1..(Len(q) - 1) : Drop(q, i)[m] = q[k]
<1>1. Len(q) - 1 \in Nat
  OBVIOUS
<1>2. \A k \in 1..(Len(q) - 1) : Drop(q, i)[k] = q[IF k < i THEN k ELSE k + 1]
  BY <1>1 DEF Drop
<1>3. Drop(q, i) \in [1..(Len(q) - 1) -> S]
  BY <1>1 DEF Drop
<1>4. Drop(q, i) \in Seq(S) /\ Len(Drop(q, i)) = Len(q) - 1
  BY <1>1, <1>3
<1>5. ASSUME NEW k \in 1..Len(q), k # i
      PROVE  \E m \in 1..(Len(q) - 1) : Drop(q, i)[m] = q[k]
  <2>1. CASE k < i
    <3>1. k \in 1..(Len(q) - 1) /\ Drop(q, i)[k] = q[k]
      BY <2>1, <1>2
    <3>2. QED  BY <3>1
  <2>2. CASE k > i
    <3>1. k - 1 \in 1..(Len(q) - 1) /\ Drop(q, i)[k - 1] = q[k]
      BY <2>2, <1>2
    <3>2. QED  BY <3>1
  <2>3. QED  BY <1>5, <2>1, <2>2
<1>6. QED  BY <1>2, <1>4, <1>5

(***************************************************************************)
(* processNext() re-establishes the invariant.                             *)
(***************************************************************************)
LEMMA ProcessNextFacts ==
    ASSUME NEW q, NEW busy, NEW live, NEW s,
           enqueued' \in 0..MaxJobs,
           Ready(q, busy, live, enqueued', s),
           ProcessNext(q, busy, live)
    PROVE  QueueInv'
<1> USE MaxJobsAssumption
<1>1. CASE /\ Startable(q, busy) = {}
           /\ queue' = q
           /\ running' = busy
           /\ executing' = live
  <2>1. q \in Seq(Job) /\ Len(q) \in Nat
    BY DEF Ready
  <2>2. \A i \in 1..Len(q) : q[i].service \in busy
    BY <1>1, <2>1 DEF Startable
  <2>3. QueueTypeOK'
    BY <1>1 DEF Ready, QueueTypeOK
  <2>4. OneJobPerService'
    BY <1>1 DEF Ready, OneJobPerService
  <2>5. NoStartableJobWaits'
    BY <1>1, <2>2 DEF NoStartableJobWaits, Waiting
  <2>6. StartsInOrder'
    BY <1>1 DEF Ready, StartsInOrder, Waiting
  <2>7. \A j \in (Waiting \union executing)' : j.id <= enqueued'
    BY <1>1 DEF Ready, Waiting
  <2>8. QED  BY <2>3, <2>4, <2>5, <2>6, <2>7 DEF QueueInv
<1>2. ASSUME NEW i \in Startable(q, busy), IsFirst(i, Startable(q, busy)),
             Start(q, busy, live, i)
      PROVE  QueueInv'
  <2> DEFINE job == q[i]
             r == Drop(q, i)
  <2>1. /\ i \in 1..Len(q)
        /\ job \in Job
        /\ job.service \in Service
        /\ job.service \notin busy
        /\ job.service = s
    <3>1. i \in 1..Len(q) /\ q[i].service \notin busy
      BY <1>2 DEF Startable
    <3>2. q \in Seq(Job)
      BY DEF Ready
    <3>3. job \in Job
      BY <3>1, <3>2
    <3>4. job.service = s
      BY <3>1 DEF Ready
    <3>5. QED  BY <3>1, <3>3, <3>4 DEF Job
  <2>2. /\ queue' = r
        /\ running' = busy \union {s}
        /\ executing' = live \union {job}
    BY <1>2, <2>1 DEF Start
  <2>3. /\ r \in Seq(Job)
        /\ Len(r) = Len(q) - 1
        /\ \A k \in 1..Len(r) : r[k] = q[IF k < i THEN k ELSE k + 1]
    <3>1. q \in Seq(Job)
      BY DEF Ready
    <3>2. QED  BY <2>1, <3>1, DropFacts
  <2>4. \A k \in 1..Len(r) : \E m \in 1..Len(q) : m # i /\ r[k] = q[m]
    <3>1. Len(q) \in Nat
      BY DEF Ready
    <3>2. ASSUME NEW k \in 1..Len(r)
          PROVE  \E m \in 1..Len(q) : m # i /\ r[k] = q[m]
      <4>1. (IF k < i THEN k ELSE k + 1) \in 1..Len(q) /\ (IF k < i THEN k ELSE k + 1) # i
        BY <2>1, <2>3, <3>1
      <4>2. QED  BY <2>3, <4>1
    <3>3. QED  BY <3>2
  <2>5. QueueTypeOK'
    BY <2>1, <2>2, <2>3 DEF QueueTypeOK, Ready
  <2>6. OneJobPerService'
    BY <2>1, <2>2 DEF OneJobPerService, Ready
  <2>7. NoStartableJobWaits'
    BY <2>2, <2>4 DEF NoStartableJobWaits, Waiting, Ready
  <2>8. StartsInOrder'
    <3>1. ASSUME NEW k \in 1..Len(r), r[k].service = s
          PROVE  job.id < r[k].id
      <4>1. PICK m \in 1..Len(q) : m # i /\ r[k] = q[m]
        BY <2>4
      <4>2. m \in Startable(q, busy)
        BY <2>1, <3>1, <4>1 DEF Startable
      <4>3. i < m
        BY <1>2, <2>1, <4>1, <4>2 DEF IsFirst
      <4>4. QED  BY <2>1, <4>1, <4>3 DEF Ready
    <3>2. ASSUME NEW j \in live, NEW k \in 1..Len(r), j.service = r[k].service
          PROVE  j.id < r[k].id
      BY <2>4, <3>2 DEF Ready
    <3>3. ASSUME NEW a \in 1..Len(r), NEW b \in 1..Len(r), a < b
          PROVE  r[a].id < r[b].id
      <4>1. Len(q) \in Nat
        BY DEF Ready
      <4>2. PICK m \in 1..Len(q), n \in 1..Len(q) : m < n /\ r[a] = q[m] /\ r[b] = q[n]
        <5> DEFINE f(k) == IF k < i THEN k ELSE k + 1
        <5>1. f(a) \in 1..Len(q) /\ f(b) \in 1..Len(q) /\ f(a) < f(b)
          BY <2>1, <2>3, <3>3, <4>1
        <5>2. r[a] = q[f(a)] /\ r[b] = q[f(b)]
          BY <2>3
        <5>3. QED  BY <5>1, <5>2
      <4>3. QED  BY <4>2 DEF Ready
    <3>4. QED  BY <2>1, <2>2, <3>1, <3>2, <3>3 DEF StartsInOrder, Waiting
  <2>9. \A j \in Waiting' \union executing' : j.id <= enqueued'
    BY <2>1, <2>2, <2>4 DEF Waiting, Ready
  <2>10. QED  BY <2>5, <2>6, <2>7, <2>8, <2>9 DEF QueueInv
<1>3. QED  BY <1>1, <1>2 DEF ProcessNext

LEMMA QueueInit_Inv == QueueInit => QueueInv
BY MaxJobsAssumption DEF QueueInit, QueueInv, QueueTypeOK, OneJobPerService,
   NoStartableJobWaits, StartsInOrder, Waiting

\* enqueue(): the appended job is the newest, and no other may start.
LEMMA Enqueue_Inv ==
    ASSUME QueueInv, NEW s \in Service, Enqueue(s)
    PROVE  QueueInv'
<1> USE MaxJobsAssumption
<1> DEFINE job == [id |-> enqueued + 1, service |-> s]
           q == Append(queue, job)
<1>1. /\ enqueued \in Nat
      /\ enqueued' = enqueued + 1
      /\ enqueued' \in 0..MaxJobs
      /\ job \in Job
      /\ queue \in Seq(Job)
  BY DEF QueueInv, QueueTypeOK, Enqueue, Job
<1>2. /\ q \in Seq(Job)
      /\ Len(q) = Len(queue) + 1
      /\ \A i \in 1..Len(queue) : q[i] = queue[i] /\ queue[i] \in Waiting
      /\ q[Len(q)] = job
  BY <1>1 DEF Waiting
<1>3. \A i \in 1..Len(q) : i \in 1..Len(queue) \/ i = Len(q)
  BY <1>1, <1>2
<1>ids. \A i \in 1..Len(queue) : queue[i] \in Job /\ queue[i].id \in Nat
                                /\ queue[i].id <= enqueued
  <2>1. \A i \in 1..Len(queue) : queue[i] \in Job
    BY <1>1
  <2>2. \A i \in 1..Len(queue) : queue[i].id <= enqueued
    BY <1>2 DEF QueueInv
  <2>3. QED  BY <2>1, <2>2 DEF Job
<1>4. \A i \in 1..Len(q) : q[i].id <= enqueued'
  <2>1. \A i \in 1..Len(queue) : q[i].id <= enqueued'
    BY <1>1, <1>2, <1>ids
  <2>2. q[Len(q)].id <= enqueued'
    BY <1>1, <1>2
  <2>3. QED  BY <1>3, <2>1, <2>2
<1>5. \A a, b \in 1..Len(q) : a < b => q[a].id < q[b].id
  <2>1. \A i \in 1..Len(queue) : queue[i] \in Job /\ queue[i].id < job.id
    BY <1>1, <1>ids
  <2>2. ASSUME NEW a \in 1..Len(q), NEW b \in 1..Len(q), a < b
        PROVE  q[a].id < q[b].id
    <3>1. a \in 1..Len(queue)
      BY <1>1, <1>2, <2>2
    <3>2. CASE b \in 1..Len(queue)
      BY <1>2, <2>2, <3>1, <3>2 DEF QueueInv, StartsInOrder
    <3>3. CASE b = Len(q)
      BY <1>2, <2>1, <3>1, <3>3
    <3>4. QED  BY <1>3, <3>2, <3>3
  <2>3. QED  BY <2>2
<1>6. \A j \in executing, i \in 1..Len(q) : j.service = q[i].service => j.id < q[i].id
  BY <1>1, <1>2, <1>3 DEF QueueInv, QueueTypeOK, StartsInOrder, Job
<1>7. \A i \in 1..Len(q) : q[i].service \in running \/ q[i].service = s
  BY <1>1, <1>2, <1>3 DEF QueueInv, NoStartableJobWaits
<1>8. Ready(q, running, executing, enqueued', s)
  <2>1. \A j \in executing : j.id <= enqueued'
    BY <1>1 DEF QueueInv, QueueTypeOK, Job
  <2>2. QED
    BY <1>1, <1>2, <1>4, <1>5, <1>6, <1>7, <2>1
    DEF Ready, QueueInv, QueueTypeOK, OneJobPerService
<1>9. ProcessNext(q, running, executing)
  BY DEF Enqueue
<1>10. QED  BY <1>1, <1>8, <1>9, ProcessNextFacts

\* The finally block: only jobs of the service that became free may start.
LEMMA Settle_Inv ==
    ASSUME QueueInv, NEW j \in executing, Settle(j)
    PROVE  QueueInv'
<1> USE MaxJobsAssumption
<1> DEFINE busy == running \ {j.service}
           live == executing \ {j}
<1>1. enqueued' \in 0..MaxJobs /\ enqueued' = enqueued
  BY DEF QueueInv, QueueTypeOK, Settle
<1>2. busy = {k.service : k \in live}
  BY DEF QueueInv, OneJobPerService
<1>3. \A i \in 1..Len(queue) : queue[i] \in Waiting
  BY DEF Waiting
<1>4. Ready(queue, busy, live, enqueued', j.service)
  BY <1>1, <1>2, <1>3 DEF Ready, QueueInv, QueueTypeOK, OneJobPerService,
                         NoStartableJobWaits, StartsInOrder
<1>5. ProcessNext(queue, busy, live)
  BY DEF Settle
<1>6. QED  BY <1>1, <1>4, <1>5, ProcessNextFacts

LEMMA Queue_Step == QueueInv /\ [QueueNext]_queueVars => QueueInv'
<1> SUFFICES ASSUME QueueInv, [QueueNext]_queueVars
             PROVE  QueueInv'
  OBVIOUS
<1>1. ASSUME NEW s \in Service, Enqueue(s) PROVE QueueInv'
  BY <1>1, Enqueue_Inv
<1>2. ASSUME NEW j \in executing, Settle(j) PROVE QueueInv'
  BY <1>2, Settle_Inv
<1>3. CASE UNCHANGED queueVars
  BY <1>3 DEF queueVars, QueueInv, QueueTypeOK, OneJobPerService,
              NoStartableJobWaits, StartsInOrder, Waiting
<1>4. QED  BY <1>1, <1>2, <1>3 DEF QueueNext

(***************************************************************************)
(* The invariant holds in every reachable state of the queue: types, one   *)
(* job in run() per service, no startable job waiting, request order.      *)
(***************************************************************************)
THEOREM QueueInvariant == QueueSpec => []QueueInv
BY QueueInit_Inv, Queue_Step, PTL DEF QueueSpec

\* The queue's variables keep their types.
THEOREM QueueTypeCorrect == QueueSpec => []QueueTypeOK
<1>1. QueueInv => QueueTypeOK
  BY DEF QueueInv
<1>2. QED  BY <1>1, QueueInvariant, PTL

\* At most one build per service, and the running set tells which.
THEOREM OneJobPerServiceHolds == QueueSpec => []OneJobPerService
<1>1. QueueInv => OneJobPerService
  BY DEF QueueInv
<1>2. QED  BY <1>1, QueueInvariant, PTL

\* A job only ever waits for a job of its own service.
THEOREM NoStartableJobWaitsHolds == QueueSpec => []NoStartableJobWaits
<1>1. QueueInv => NoStartableJobWaits
  BY DEF QueueInv
<1>2. QED  BY <1>1, QueueInvariant, PTL

\* Deployments of a service start in the order of the requests.
THEOREM StartsInOrderHolds == QueueSpec => []StartsInOrder
<1>1. QueueInv => StartsInOrder
  BY DEF QueueInv
<1>2. QED  BY <1>1, QueueInvariant, PTL

-----------------------------------------------------------------------------
(* The queue implements the lanes. *)

\* The waiting set loses exactly the started job.
LEMMA StartEffect ==
    ASSUME NEW q \in Seq(Job), NEW i \in 1..Len(q),
           \A a, b \in 1..Len(q) : a < b => q[a].id < q[b].id,
           queue' = Drop(q, i)
    PROVE  Waiting' = {q[k] : k \in 1..Len(q)} \ {q[i]}
<1> USE MaxJobsAssumption
<1> DEFINE r == Drop(q, i)
           old == {q[k] : k \in 1..Len(q)}
<1>1. /\ Len(q) \in Nat
      /\ Len(r) = Len(q) - 1
      /\ \A k \in 1..Len(r) : r[k] = q[IF k < i THEN k ELSE k + 1]
      /\ \A k \in 1..Len(q) : k # i => \E m \in 1..Len(r) : r[m] = q[k]
  <2>1. Len(q) \in Nat
    OBVIOUS
  <2>2. /\ r \in Seq(Job)
        /\ Len(r) = Len(q) - 1
        /\ \A k \in 1..(Len(q) - 1) : r[k] = q[IF k < i THEN k ELSE k + 1]
        /\ \A k \in 1..Len(q) : k # i => \E m \in 1..(Len(q) - 1) : r[m] = q[k]
    <3>1. q \in Seq(Job) /\ i \in 1..Len(q)
      OBVIOUS
    <3> HIDE DEF r, old
    <3>2. r = Drop(q, i)
      BY DEF r
    <3>3. QED  BY ONLY <3>1, <3>2, DropFacts
  <2>3. QED  BY <2>1, <2>2
<1>2. \A k \in 1..Len(q) : q[k].id \in Nat
  <2>1. \A k \in 1..Len(q) : q[k] \in Job
    OBVIOUS
  <2>2. QED  BY <2>1 DEF Job
<1>3. ASSUME NEW k \in 1..Len(q), k # i
      PROVE  q[k] # q[i]
  <2>1. CASE k < i
    BY <1>2, <2>1
  <2>2. CASE i < k
    BY <1>2, <2>2
  <2>3. QED  BY <1>3, <2>1, <2>2
<1>4. ASSUME NEW m \in 1..Len(r)
      PROVE  r[m] \in old \ {q[i]}
  <2>1. (IF m < i THEN m ELSE m + 1) \in 1..Len(q) /\ (IF m < i THEN m ELSE m + 1) # i
    BY <1>1
  <2>2. QED  BY <1>1, <1>3, <2>1
<1>5. ASSUME NEW x \in old \ {q[i]}
      PROVE  \E m \in 1..Len(r) : r[m] = x
  <2>1. PICK k \in 1..Len(q) : x = q[k] /\ k # i
    BY <1>5
  <2>2. QED  BY <1>1, <2>1
<1>6. Waiting' = {r[m] : m \in 1..Len(r)}
  BY DEF Waiting
<1>7. QED  BY <1>4, <1>5, <1>6

LEMMA Enqueue_Submits ==
    ASSUME QueueInv, NEW s \in Service, Enqueue(s)
    PROVE  Lanes!Submit(s)
<1> USE MaxJobsAssumption
<1> DEFINE job == [id |-> enqueued + 1, service |-> s]
           q == Append(queue, job)
<1>1. /\ enqueued \in Nat
      /\ enqueued < MaxJobs
      /\ enqueued' = enqueued + 1
      /\ job \in Job
      /\ queue \in Seq(Job)
      /\ ProcessNext(q, running, executing)
  BY DEF QueueInv, QueueTypeOK, Enqueue, Job
<1>2. /\ q \in Seq(Job)
      /\ Len(queue) \in Nat
      /\ Len(q) = Len(queue) + 1
      /\ \A i \in 1..Len(queue) : q[i] = queue[i] /\ queue[i] \in Waiting
      /\ q[Len(q)] = job
  BY <1>1 DEF Waiting
<1>3. {q[k] : k \in 1..Len(q)} = Waiting \union {job}
  BY <1>1, <1>2 DEF Waiting
<1>4. \A i \in Startable(q, running) : i = Len(q)
  BY <1>2 DEF Startable, QueueInv, NoStartableJobWaits
<1>5. Lanes!Lane(s, executing) = {} <=> s \notin running
  BY DEF Lanes!Lane, QueueInv, OneJobPerService
<1>6. CASE s \in running
  <2>1. Len(q) \notin Startable(q, running)
    BY <1>2, <1>6 DEF Startable
  <2>2. queue' = q /\ executing' = executing
    BY <1>1, <1>4, <2>1 DEF ProcessNext
  <2>3. Waiting' = Waiting \union {job}
    BY <1>3, <2>2 DEF Waiting
  <2>4. QED  BY <1>1, <1>5, <1>6, <2>2, <2>3 DEF Lanes!Submit
<1>7. CASE s \notin running
  <2>1. Len(q) \in Startable(q, running)
    BY <1>2, <1>7 DEF Startable
  <2>2. Start(q, running, executing, Len(q))
    BY <1>1, <1>4, <2>1 DEF ProcessNext
  <2>3. executing' = executing \union {job} /\ queue' = Drop(q, Len(q))
    BY <1>2, <2>2 DEF Start
  <2>4. \A a, b \in 1..Len(q) : a < b => q[a].id < q[b].id
    <3>1. \A a, b \in 1..Len(queue) : a < b => q[a].id < q[b].id
      BY <1>2 DEF QueueInv, StartsInOrder
    <3>2. \A a \in 1..Len(queue) : q[a].id < q[Len(q)].id
      <4>1. \A a \in 1..Len(queue) : queue[a].id <= enqueued
        BY <1>2 DEF QueueInv
      <4>2. \A a \in 1..Len(queue) : queue[a].id \in Nat
        <5>1. \A a \in 1..Len(queue) : queue[a] \in Job
          BY <1>1
        <5>2. QED  BY <5>1 DEF Job
      <4>3. QED  BY <1>1, <1>2, <4>1, <4>2
    <3>3. ASSUME NEW a \in 1..Len(q), NEW b \in 1..Len(q), a < b
          PROVE  q[a].id < q[b].id
      <4>1. a \in 1..Len(queue)
        BY <1>2, <3>3
      <4>2. b \in 1..Len(queue) \/ b = Len(q)
        BY <1>2
      <4>3. QED  BY <3>1, <3>2, <3>3, <4>1, <4>2
    <3>4. QED  BY <3>3
  <2>5. Len(q) \in 1..Len(q)
    BY <1>2
  <2>6. Waiting' = (Waiting \union {job}) \ {job}
    BY <1>2, <1>3, <2>3, <2>4, <2>5, StartEffect
  <2>7. job \notin Waiting
    BY <1>1 DEF QueueInv
  <2>8. Waiting' = Waiting
    BY <2>6, <2>7
  <2>9. QED  BY <1>1, <1>5, <1>7, <2>3, <2>8 DEF Lanes!Submit
<1>8. QED  BY <1>6, <1>7

LEMMA Settle_Completes ==
    ASSUME QueueInv, NEW j \in executing, Settle(j)
    PROVE  Lanes!Complete(j)
<1> USE MaxJobsAssumption
<1> DEFINE busy == running \ {j.service}
           live == executing \ {j}
           next == Lanes!Lane(j.service, Waiting)
<1>1. /\ enqueued' = enqueued
      /\ queue \in Seq(Job)
      /\ Len(queue) \in Nat
      /\ ProcessNext(queue, busy, live)
  BY DEF QueueInv, QueueTypeOK, Settle
<1>2. \A i \in 1..Len(queue) : /\ queue[i] \in Waiting
                               /\ queue[i].service \in running
  BY DEF Waiting, QueueInv, NoStartableJobWaits
<1>3. \A i \in 1..Len(queue) : i \in Startable(queue, busy) <=> queue[i].service = j.service
  BY <1>2 DEF Startable
<1>4. next = {k \in Waiting : k.service = j.service}
  BY DEF Lanes!Lane
<1>5. CASE Startable(queue, busy) = {} /\ queue' = queue /\ executing' = live
  <2>1. next = {}
    BY <1>3, <1>4, <1>5 DEF Waiting
  <2>2. Waiting' = Waiting
    BY <1>5 DEF Waiting
  <2>3. QED  BY <1>1, <1>5, <2>1, <2>2 DEF Lanes!Complete
<1>6. ASSUME NEW i \in Startable(queue, busy), IsFirst(i, Startable(queue, busy)),
             Start(queue, busy, live, i)
      PROVE  Lanes!Complete(j)
  <2>1. i \in 1..Len(queue)
    BY DEF Startable
  <2>2. queue[i] \in next
    BY <1>2, <1>3, <1>4, <2>1
  <2>3. executing' = live \union {queue[i]} /\ queue' = Drop(queue, i)
    BY <1>6 DEF Start
  <2>4. Waiting' = Waiting \ {queue[i]}
    <3>1. \A a, b \in 1..Len(queue) : a < b => queue[a].id < queue[b].id
      BY DEF QueueInv, StartsInOrder
    <3>2. Waiting' = {queue[k] : k \in 1..Len(queue)} \ {queue[i]}
      BY <1>1, <2>1, <2>3, <3>1, StartEffect
    <3>3. QED  BY <3>2 DEF Waiting
  <2>5. Lanes!IsOldest(queue[i], next)
    <3>1. ASSUME NEW k \in next
          PROVE  queue[i].id <= k.id
      <4>1. PICK m \in 1..Len(queue) : k = queue[m]
        BY <1>4, <3>1 DEF Waiting
      <4>2. m \in Startable(queue, busy)
        BY <1>3, <1>4, <3>1, <4>1
      <4>3. i <= m
        BY <1>6, <4>2 DEF IsFirst
      <4>4. queue[i].id \in Nat /\ queue[m].id \in Nat
        <5>1. queue[i] \in Job /\ queue[m] \in Job
          BY <1>1, <2>1
        <5>2. QED  BY <5>1 DEF Job
      <4>5. QED  BY <2>1, <4>1, <4>3, <4>4 DEF QueueInv, StartsInOrder
    <3>2. QED  BY <2>2, <3>1 DEF Lanes!IsOldest
  <2>6. QED  BY <1>1, <2>2, <2>3, <2>4, <2>5 DEF Lanes!Complete
<1>7. QED  BY <1>1, <1>5, <1>6 DEF ProcessNext

(***************************************************************************)
(* The array and the single find() of queue.ts are unobservable: the queue *)
(* behaves as one independent first-come-first-served lane per service.    *)
(***************************************************************************)
THEOREM QueueImplementsLanes == QueueSpec => ImplementsLanes
<1>1. QueueInit => Lanes!Init
  BY DEF QueueInit, Lanes!Init, Waiting
<1>2. QueueInv /\ [QueueNext]_queueVars => [Lanes!Next]_(Lanes!vars)
  <2> SUFFICES ASSUME QueueInv, [QueueNext]_queueVars
               PROVE  [Lanes!Next]_(Lanes!vars)
    OBVIOUS
  <2>1. ASSUME NEW s \in Service, Enqueue(s) PROVE Lanes!Next
    BY <2>1, Enqueue_Submits DEF Lanes!Next
  <2>2. ASSUME NEW j \in executing, Settle(j) PROVE Lanes!Next
    BY <2>2, Settle_Completes DEF Lanes!Next
  <2>3. CASE UNCHANGED queueVars
    BY <2>3 DEF queueVars, Lanes!vars, Waiting
  <2>4. QED  BY <2>1, <2>2, <2>3 DEF QueueNext
<1>3. QED  BY <1>1, <1>2, QueueInvariant, PTL DEF QueueSpec, Lanes!Spec, ImplementsLanes
=============================================================================
