------------------------------ MODULE Webhooks ------------------------------
(***************************************************************************)
(* The push webhooks of index.ts: githubWebhookHandler, which finds the    *)
(* services of the pushed repository, and hookHandler, which has them from *)
(* its endpoint.  Both create and enqueue a deployment for one service     *)
(* after the other, an await between two of them.                          *)
(*                                                                         *)
(* One repository; services are numbered in the order the query returns    *)
(* them.  Signatures, payloads and the events that are skipped are left    *)
(* out: a delivery here is a push, and the secret it is signed with.       *)
(***************************************************************************)
EXTENDS Naturals, FiniteSets

CONSTANTS HookServices,   \* numbers
          HookBranches,
          HookDeliveries,
          HookTries,      \* bound: times a delivery is sent
          HookEdits       \* bound: edits of services and of the secret

ASSUME HookAssumption == /\ HookServices \subseteq Nat /\ HookTries \in Nat /\ HookEdits \in Nat
                         /\ IsFiniteSet(HookServices)

VARIABLES
  hookSvc,   \* Service rows
  hookSecret,\* number of the current secret, 0 when none is stored
  hookMail,  \* deliveries and their handlers
  hookRow,   \* deployments created: how many, per service and delivery
  hookJob,   \* deployments enqueued
  hookEdits

HookVars == <<hookSvc, hookSecret, hookMail, hookRow, hookJob, hookEdits>>

HookNone == [s \in HookServices |-> [d \in HookDeliveries |-> 0]]
HookAdd(count, s, d) == [count EXCEPT ![s][d] = @ + 1]

HookInit ==
  /\ hookSvc \in [HookServices -> [here : {TRUE}, active : {TRUE}, branch : HookBranches]]
  /\ hookSecret \in {0, 1}
  /\ hookMail = [d \in HookDeliveries |->
                  [step |-> "unsent", kind |-> "app", branch |-> "none", key |-> 0, todo |-> {},
                   wanted |-> {}, tries |-> 0]]
  /\ hookRow = HookNone /\ hookJob = HookNone
  /\ hookEdits = 0

HookAt(d, step) == hookMail[d].step = step
HookBecomes(d, rec) == hookMail' = [hookMail EXCEPT ![d] = rec]
HookReplies(d, reply) == HookBecomes(d, [hookMail[d] EXCEPT !.step = reply])

(* GitHub sends a push, signed with the secret it knows. *)
HookSend(d) ==
  /\ HookAt(d, "unsent")
  /\ \E kind \in {"app", "hook"}, b \in HookBranches, key \in {0, hookSecret} :
       HookBecomes(d, [hookMail[d] EXCEPT !.step = "sent", !.kind = kind, !.branch = b,
                                          !.key = key, !.tries = 1])
  /\ UNCHANGED <<hookSvc, hookSecret, hookRow, hookJob, hookEdits>>

(* It is sent again by hand after a failure. *)
HookRedeliver(d) ==
  /\ HookAt(d, "error") /\ hookMail[d].tries < HookTries
  /\ HookBecomes(d, [hookMail[d] EXCEPT !.step = "sent", !.key = hookSecret, !.tries = @ + 1])
  /\ UNCHANGED <<hookSvc, hookSecret, hookRow, hookJob, hookEdits>>

(* Faulty variant: the loop ends at the first service on another branch. *)
HookMatchesBreak(branch) ==
  {s \in HookServices : \A t \in HookServices :
     t <= s /\ hookSvc[t].here /\ hookSvc[t].active => hookSvc[t].branch = branch}

HookMatches(branch) ==
  {s \in HookServices : hookSvc[s].here /\ hookSvc[s].active /\ hookSvc[s].branch = branch}

(* The services are read: the loop will visit those that match. *)
HookLoops(d) ==
  LET found == HookMatches(hookMail[d].branch)
  IN HookBecomes(d, [hookMail[d] EXCEPT
       !.step = IF found = {} THEN "ok" ELSE "create", !.todo = found,
       !.wanted = {s \in HookServices : hookSvc[s].here /\ hookSvc[s].active
                                          /\ hookSvc[s].branch = hookMail[d].branch}])

(* The secret is read.  An endpoint without one accepts everything and comes
   with its services; without an App secret nothing is accepted. *)
HookVerify(d) ==
  LET m == hookMail[d] IN
  /\ HookAt(d, "sent")
  /\ IF m.kind = "app"
     THEN IF hookSecret = 0 THEN HookReplies(d, "error")
          ELSE HookReplies(d, IF m.key = hookSecret THEN "services" ELSE "refused")
     ELSE IF hookSecret = 0 \/ m.key = hookSecret THEN HookLoops(d) ELSE HookReplies(d, "refused")
  /\ UNCHANGED <<hookSvc, hookSecret, hookRow, hookJob, hookEdits>>

HookServicesRead(d) ==
  /\ HookAt(d, "services")
  /\ HookLoops(d)
  /\ UNCHANGED <<hookSvc, hookSecret, hookRow, hookJob, hookEdits>>

HookNextOf(d) == CHOOSE s \in hookMail[d].todo : \A t \in hookMail[d].todo : s <= t

(* The row is created; it cannot be when the service is gone, or when the
   database refuses, and the handler throws. *)
HookCreate(d) ==
  LET s == HookNextOf(d) IN
  /\ HookAt(d, "create")
  /\ \/ hookSvc[s].here /\ HookReplies(d, "created") /\ hookRow' = HookAdd(hookRow, s, d)
     \/ HookReplies(d, "error") /\ UNCHANGED hookRow
  /\ UNCHANGED <<hookSvc, hookSecret, hookJob, hookEdits>>

(* Faulty variants: the deployments are enqueued together after the loop; the
   loop does not get past a service it has created a deployment for. *)
HookEnqueueLater(d) ==
  LET rest == hookMail[d].todo \ {HookNextOf(d)} IN
  /\ HookAt(d, "created")
  /\ hookJob' = IF rest # {} THEN hookJob
                ELSE [s \in HookServices |-> [hookJob[s] EXCEPT ![d] = hookRow[s][d]]]
  /\ HookBecomes(d, [hookMail[d] EXCEPT !.todo = rest, !.step = IF rest = {} THEN "ok" ELSE "create"])
  /\ UNCHANGED <<hookSvc, hookSecret, hookRow, hookEdits>>
HookEnqueueAgain(d) ==
  /\ HookAt(d, "created")
  /\ hookJob' = HookAdd(hookJob, HookNextOf(d), d)
  /\ HookReplies(d, "create")
  /\ UNCHANGED <<hookSvc, hookSecret, hookRow, hookEdits>>

HookEnqueue(d) ==
  LET rest == hookMail[d].todo \ {HookNextOf(d)} IN
  /\ HookAt(d, "created")
  /\ hookJob' = HookAdd(hookJob, HookNextOf(d), d)
  /\ HookBecomes(d, [hookMail[d] EXCEPT !.todo = rest, !.step = IF rest = {} THEN "ok" ELSE "create"])
  /\ UNCHANGED <<hookSvc, hookSecret, hookRow, hookEdits>>

HookEdit == hookEdits < HookEdits /\ hookEdits' = hookEdits + 1

(* A service is edited, (de)activated or deleted; its deployments go with it. *)
HookEditService(s) ==
  /\ HookEdit /\ hookSvc[s].here
  /\ \/ \E b \in HookBranches : hookSvc' = [hookSvc EXCEPT ![s].branch = b] /\ b # hookSvc[s].branch
     \/ hookSvc' = [hookSvc EXCEPT ![s].active = ~@]
     \/ hookSvc' = [hookSvc EXCEPT ![s].here = FALSE]
  /\ UNCHANGED <<hookSecret, hookMail, hookRow, hookJob>>

(* rotateWebhookSecret *)
HookRotate ==
  /\ HookEdit
  /\ hookSecret' = hookSecret + 1
  /\ UNCHANGED <<hookSvc, hookMail, hookRow, hookJob>>

HookNext ==
  \/ \E d \in HookDeliveries :
       \/ HookSend(d) \/ HookRedeliver(d) \/ HookVerify(d) \/ HookServicesRead(d)
       \/ HookCreate(d) \/ HookEnqueue(d)
  \/ \E s \in HookServices : HookEditService(s)
  \/ HookRotate

HookSpec == HookInit /\ [][HookNext]_HookVars

-----------------------------------------------------------------------------
(* Types; a delivery creates at most one deployment of a service each time it
   is sent. *)
HookTypeOK ==
  /\ hookSvc \in [HookServices -> [here : BOOLEAN, active : BOOLEAN, branch : HookBranches]]
  /\ \A d \in HookDeliveries :
       /\ hookMail[d].step \in {"unsent", "sent", "services", "create", "created", "ok",
                                "refused", "error"}
       /\ hookMail[d].todo \subseteq hookMail[d].wanted
       /\ hookMail[d].wanted \subseteq HookServices
       /\ \A s \in HookServices : hookRow[s][d] \in 0 .. hookMail[d].tries

(* Every deployment row a webhook has created is enqueued, or its handler is
   about to: also when the handler throws at a later service (index.ts:233-243). *)
HookRowHasJob ==
  \A d \in HookDeliveries, s \in HookServices :
    hookRow[s][d] = hookJob[s][d] + (IF HookAt(d, "created") /\ HookNextOf(d) = s THEN 1 ELSE 0)

(* A push that is answered "ok" has got a deployment of each service that was
   active on its branch when the services were read, however they are edited
   or deleted meanwhile (index.ts:229-250, 315-340). *)
HookOkIsComplete ==
  \A d \in HookDeliveries : HookAt(d, "ok") => \A s \in hookMail[d].wanted : hookJob[s][d] > 0

(* Together: a push deploys every service it should, once for each time it is
   sent, also when statements throw in the middle. *)
PushIsDeployed == HookTypeOK /\ HookRowHasJob /\ HookOkIsComplete

=============================================================================
