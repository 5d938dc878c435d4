----------------------------- MODULE MCProgress -----------------------------
(***************************************************************************)
(* TLC instance of the parts whose promise is progress.  They share no     *)
(* state: a behaviour is one of a single part, chosen at the start, while  *)
(* the others rest and have none of the steps that fairness asks for.      *)
(***************************************************************************)
EXTENDS DeployQueue, SelfUpdate, ServicePage

VARIABLE part

(* Bounds: a service with a webhook starts without deployments, Sitey was never
   updated before. *)
MCInit ==
  /\ part \in {"queue", "update", "page"}
  /\ QueueInit /\ UpdInit
  /\ updFile = "none"
  /\ PgInit /\ pgHook = (pgDeps = <<>>)
  /\ part # "page" => pgHook

(* Bounds: the page asks for one interval at a time, its dialog opens while
   none of its queries is under way, and the server restarts, loses a stream
   or hears of another administrator, whose call does not meet the page's; *)
UpdSingly ==
  /\ ~updPage.met /\ updAsk["second"] = "idle"
  /\ updRestarts + updLost + (IF updAsk["other"] = "idle" THEN 0 ELSE 1) <= 1
  /\ updPage.dialog => updPage.mount = "none" /\ updPage.sent = 0 /\ updPage.answers = {}
  /\ updAsk["other"] # "idle" => updPage.asks = {} /\ updPage.mount = "none" /\ ~updPage.dialog

(* or it asks for several, nothing else happens, and while the dialog is open
   or an interval asked for no script is between its first step and its end. *)
UpdDoubly ==
  LET at(steps) == \A n \in 1 .. UpdRuns : updRun[n].step \in steps
  IN /\ updRestarts + updLost = 0 /\ updAsk["other"] = "idle" /\ ~\E n \in 1 .. UpdRuns : updRun[n].step = "failed"
     /\ at({"none", "pull"}) \/ updRun[1].step = "done" \/ updRun[2].step \in {"none", "pull"}
     /\ updPage.asks # {} \/ updPage.mount # "none" \/ updPage.dialog => at({"none", "pull", "done"})

MCNext ==
  \/ part = "queue" /\ QueueNext /\ UNCHANGED <<part, UpdVars, PgVars>>
  \/ part = "update" /\ UpdNext /\ (UpdSingly' \/ UpdDoubly')
     /\ UNCHANGED <<part, queueVars, PgVars>>
  \/ part = "page" /\ PgNext /\ UNCHANGED <<part, queueVars, UpdVars>>

MCVars == <<part, queueVars, UpdVars, PgVars>>

MCSpec == MCInit /\ [][MCNext]_MCVars /\ QueueFairness /\ UpdFairness /\ PgFairness
=============================================================================
