---------------------------- MODULE ServiceLanes ----------------------------
(***************************************************************************)
(* What the deployment queue promises, without a queue: every service has  *)
(* its own lane, a lane runs one job at a time, oldest first, and is never *)
(* idle while a job waits in it.  Lanes do not influence each other.       *)
(***************************************************************************)
EXTENDS Integers

CONSTANTS Service, MaxJobs

VARIABLES
    waiting,    \* accepted jobs that have not started
    executing,  \* started jobs
    submitted   \* number of jobs accepted; the newest job's id

vars == <<waiting, executing, submitted>>

Lane(s, jobs) == {j \in jobs : j.service = s}

IsOldest(j, jobs) == j \in jobs /\ \A k \in jobs : j.id <= k.id

Init ==
    /\ waiting = {}
    /\ executing = {}
    /\ submitted = 0

Submit(s) ==
    LET job == [id |-> submitted + 1, service |-> s]
    IN  /\ submitted < MaxJobs
        /\ submitted' = submitted + 1
        /\ IF Lane(s, executing) = {}
           THEN executing' = executing \union {job} /\ UNCHANGED waiting
           ELSE waiting' = waiting \union {job} /\ UNCHANGED executing

Complete(j) ==
    LET next == Lane(j.service, waiting)
    IN  /\ j \in executing
        /\ UNCHANGED submitted
        /\ \/ /\ next = {}
              /\ executing' = executing \ {j}
              /\ UNCHANGED waiting
           \/ \E k \in next :
                 /\ IsOldest(k, next)
                 /\ executing' = (executing \ {j}) \union {k}
                 /\ waiting' = waiting \ {k}

Next ==
    \/ \E s \in Service : Submit(s)
    \/ \E j \in executing : Complete(j)

Spec == Init /\ [][Next]_vars
=============================================================================
