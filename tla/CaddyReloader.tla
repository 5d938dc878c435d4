---------------------------- MODULE CaddyReloader ----------------------------
(***************************************************************************)
(* The class CaddyReloader of server/src/services/caddy.ts together with   *)
(* what its promises depend on: the handlers that commit a change and then *)
(* call reload(), the build that reads the database with several queries,  *)
(* the push to Caddy's admin API with its 30 s time-out, and the           *)
(* management origin committed by afterPush.                               *)
(*                                                                         *)
(* The configuration is abstracted to a version number per part: a part is *)
(* what one of the parallel database queries of buildCaddyConfig reads     *)
(* (domains, routes and services; the public site URL; the protected       *)
(* service).  A version is the number of changes committed to the part.    *)
(* The list of running containers is no part: it is not committed by       *)
(* anyone who then calls reload(), and a failing Docker reads as no        *)
(* container at all (Deployment models that).                              *)
(***************************************************************************)
EXTENDS Integers, Sequences

CONSTANTS
    Part,        \* parts of the configuration, each read by its own query
    Caller,      \* handlers and background tasks that call reloadCaddy()
    MaxVersion,  \* bound: changes committed to one part
    MaxBacklog   \* bound: posted configurations Caddy has not processed

ASSUME VersionAssumption == MaxVersion \in Nat
ASSUME BacklogAssumption == MaxBacklog \in Nat \ {0}

VARIABLES
    db,            \* version of each part that is committed
    caller,        \* what each caller is doing
    need,          \* versions committed when the caller called reload()
    phase,         \* the reload loop; "idle" iff inFlight is null
    reloadQueued,
    readSet,       \* parts the current build has read
    built,         \* versions read by the current (or last) build
    inbox,         \* external: configurations posted to Caddy, oldest first
    reply,         \* external: Caddy's answer to the push in flight
    active,        \* external: the configuration Caddy runs
    committed      \* lastPushedCaddyfile, and _lastManagementOrigin

loopVars == <<phase, reloadQueued, readSet, built>>
caddyVars == <<inbox, active>>
vars == <<db, caller, need, phase, reloadQueued, readSet, built, inbox, reply,
          active, committed>>

Config == [Part -> 0..MaxVersion]
Blank == [p \in Part |-> 0]
AtMost(a, b) == \A p \in Part : a[p] <= b[p]

Waiting == {c \in Caller : caller[c] = "waiting"}

-----------------------------------------------------------------------------
(* Callers *)

\* A handler commits its change; it calls reload() in a later step.
Change(c, p) ==
    /\ caller[c] = "idle"
    /\ db[p] < MaxVersion
    /\ db' = [db EXCEPT ![p] = @ + 1]
    /\ caller' = [caller EXCEPT ![c] = "changed"]
    /\ UNCHANGED <<need, loopVars, caddyVars, reply, committed>>

\* Faulty variant: a caller that finds a reload in flight just joins it.
CallJoins(c) ==
    /\ caller[c] \in {"idle", "changed"}
    /\ caller' = [caller EXCEPT ![c] = "waiting"]
    /\ need' = [need EXCEPT ![c] = db]
    /\ phase' = IF phase = "idle" THEN "scheduled" ELSE phase
    /\ readSet' = IF phase = "idle" THEN {} ELSE readSet
    /\ UNCHANGED <<db, reloadQueued, built, caddyVars, reply, committed>>

\* Faulty variant: reloadQueued keeps the caller.
CallStoresCaller(c) ==
    /\ caller[c] \in {"idle", "changed"}
    /\ caller' = [caller EXCEPT ![c] = "waiting"]
    /\ need' = [need EXCEPT ![c] = db]
    /\ IF phase = "idle"
       THEN phase' = "scheduled" /\ readSet' = {} /\ UNCHANGED reloadQueued
       ELSE reloadQueued' = c /\ UNCHANGED <<phase, readSet>>
    /\ UNCHANGED <<db, built, caddyVars, reply, committed>>

\* reload(): start the loop (in a microtask) or queue another turn of it.  All
\* callers wait on the same promise.  Start-up, refreshCaddy and retryRouteTls
\* call it without having changed anything.
Call(c) ==
    /\ caller[c] \in {"idle", "changed"}
    /\ caller' = [caller EXCEPT ![c] = "waiting"]
    /\ need' = [need EXCEPT ![c] = db]
    /\ IF phase = "idle"
       THEN /\ phase' = "scheduled"
            /\ readSet' = {}
            /\ UNCHANGED reloadQueued
       ELSE /\ reloadQueued' = TRUE
            /\ UNCHANGED <<phase, readSet>>
    /\ UNCHANGED <<db, built, caddyVars, reply, committed>>

\* The caller's await returns (routingWarning and the like handle both).
Resume(c) ==
    /\ caller[c] \in {"ok", "failed"}
    /\ caller' = [caller EXCEPT ![c] = "idle"]
    /\ UNCHANGED <<db, need, loopVars, caddyVars, reply, committed>>

-----------------------------------------------------------------------------
(* The loop *)

\* A turn of do { ... } while (reloadQueued) starts.
StartTurn ==
    /\ phase' = "building"
    /\ reloadQueued' = FALSE
    /\ readSet' = {}

\* Faulty variant: one promise per caller, and only one of them settles.
SettleOne(how) ==
    /\ phase' = "idle"
    /\ IF Waiting = {} THEN UNCHANGED caller
       ELSE caller' = [caller EXCEPT ![CHOOSE c \in Waiting : TRUE] = how]

\* The promise of all waiting callers settles; finally clears inFlight.
SettleAll(how) ==
    /\ phase' = "idle"
    /\ caller' = [c \in Caller |-> IF caller[c] = "waiting" THEN how ELSE caller[c]]

Begin ==
    /\ phase = "scheduled"
    /\ StartTurn
    /\ UNCHANGED <<db, caller, need, built, caddyVars, reply, committed>>

\* One query of buildCaddyConfig's Promise.all.
ReadPart(p) ==
    /\ phase = "building"
    /\ p \notin readSet
    /\ readSet' = readSet \union {p}
    /\ built' = [built EXCEPT ![p] = db[p]]
    /\ UNCHANGED <<db, caller, need, phase, reloadQueued, caddyVars, reply, committed>>

BuildFails ==
    /\ phase = "building"
    /\ SettleAll("failed")
    /\ UNCHANGED <<db, need, reloadQueued, readSet, built, caddyVars, reply, committed>>

\* Faulty variant: pushes lastPushedCaddyfile instead of the new build.
PushLast ==
    /\ phase = "building"
    /\ readSet = Part
    /\ Len(inbox) < MaxBacklog
    /\ phase' = "pushing"
    /\ inbox' = Append(inbox, committed)
    /\ reply' = "none"
    /\ UNCHANGED <<db, caller, need, reloadQueued, readSet, built, active, committed>>

\* doPush: the request is sent.
Push ==
    /\ phase = "building"
    /\ readSet = Part
    /\ Len(inbox) < MaxBacklog
    /\ phase' = "pushing"
    /\ inbox' = Append(inbox, built)
    /\ reply' = "none"
    /\ UNCHANGED <<db, caller, need, reloadQueued, readSet, built, active, committed>>

\* Faulty variant: the loop does not look at reloadQueued again.
PushSucceedsOnce ==
    /\ phase = "pushing"
    /\ reply = "ok"
    /\ committed' = built
    /\ SettleAll("ok")
    /\ UNCHANGED <<db, need, reloadQueued, readSet, built, caddyVars, reply>>

\* Faulty variant: pushFn is not awaited.
PushUnawaited ==
    /\ phase = "pushing"
    /\ committed' = built
    /\ IF reloadQueued
       THEN StartTurn /\ UNCHANGED caller
       ELSE SettleAll("ok") /\ UNCHANGED <<reloadQueued, readSet>>
    /\ UNCHANGED <<db, need, built, caddyVars, reply>>

\* Caddy's 2xx arrives: afterPush, bookkeeping, and another turn if queued.
PushSucceeds ==
    /\ phase = "pushing"
    /\ reply = "ok"
    /\ committed' = built
    /\ IF reloadQueued
       THEN StartTurn /\ UNCHANGED caller
       ELSE SettleAll("ok") /\ UNCHANGED <<reloadQueued, readSet>>
    /\ UNCHANGED <<db, need, built, caddyVars, reply>>

\* Caddy refused the configuration, or the client gave up after 30 s: Caddy may
\* still process the request.  The queued turn is dropped with the promise.
PushFails ==
    /\ phase = "pushing"
    /\ reply # "ok"
    /\ SettleAll("failed")
    /\ UNCHANGED <<db, need, reloadQueued, readSet, built, caddyVars, reply, committed>>

-----------------------------------------------------------------------------
(* Caddy, external: processes requests in order and answers the last one    *)
(* if its client still waits.                                               *)

Answers(answer) ==
    reply' = IF phase = "pushing" /\ Len(inbox) = 1 THEN answer ELSE reply

CaddyApplies ==
    /\ inbox # <<>>
    /\ active' = Head(inbox)
    /\ inbox' = Tail(inbox)
    /\ Answers("ok")
    /\ UNCHANGED <<db, caller, need, loopVars, committed>>

CaddyRejects ==
    /\ inbox # <<>>
    /\ inbox' = Tail(inbox)
    /\ Answers("rejected")
    /\ UNCHANGED <<db, caller, need, loopVars, active, committed>>

\* The server process restarts; its memory and its callers are gone.  The
\* start-up reload is a Call by any caller.
Restart ==
    /\ phase' = "idle"
    /\ reloadQueued' = FALSE
    /\ caller' = [c \in Caller |-> "idle"]
    /\ committed' = Blank
    /\ UNCHANGED <<db, need, readSet, built, caddyVars, reply>>

-----------------------------------------------------------------------------
Init ==
    /\ db = Blank
    /\ caller = [c \in Caller |-> "idle"]
    /\ need = [c \in Caller |-> Blank]
    /\ phase = "idle"
    /\ reloadQueued = FALSE
    /\ readSet = {}
    /\ built = Blank
    /\ inbox = <<>>
    /\ reply = "none"
    /\ active = Blank
    /\ committed = Blank

LoopStep == Begin \/ (\E p \in Part : ReadPart(p)) \/ BuildFails \/ Push
            \/ PushSucceeds \/ PushFails

Next ==
    \/ \E c \in Caller : (\E p \in Part : Change(c, p)) \/ Call(c) \/ Resume(c)
    \/ Begin
    \/ \E p \in Part : ReadPart(p)
    \/ BuildFails
    \/ Push
    \/ PushSucceeds
    \/ PushFails
    \/ CaddyApplies
    \/ CaddyRejects
    \/ Restart

Spec == Init /\ [][Next]_vars

(***************************************************************************)
(* Fairness: the loop's own continuations run, and a push ends, by Caddy's *)
(* answer or by the time-out.  Nothing is assumed of Caddy, of the callers *)
(* or of restarts.                                                         *)
(***************************************************************************)
FairSpec == Spec /\ WF_vars(LoopStep)

-----------------------------------------------------------------------------
TypeOK ==
    /\ db \in Config
    /\ caller \in [Caller -> {"idle", "changed", "waiting", "ok", "failed"}]
    /\ need \in [Caller -> Config]
    /\ phase \in {"idle", "scheduled", "building", "pushing"}
    /\ reloadQueued \in BOOLEAN
    /\ readSet \in SUBSET Part
    /\ built \in Config
    /\ inbox \in Seq(Config)
    /\ reply \in {"none", "ok", "rejected"}
    /\ active \in Config
    /\ committed \in Config

(***************************************************************************)
(* A reload() that resolves has delivered every change committed before    *)
(* the call, also when the caller only joined a reload that had started    *)
(* before its change was written.                                          *)
(***************************************************************************)
ReloadDelivers == \A c \in Caller : caller[c] = "ok" => AtMost(need[c], active)

(***************************************************************************)
(* "concurrent callers never overwrite a newer config with an older one"   *)
(* (caddy.ts:1040-1041), also with late requests of pushes that timed out  *)
(* and with a restart between two pushes.                                  *)
(***************************************************************************)
NeverOlder == [][AtMost(active, active')]_vars

(***************************************************************************)
(* The management origin is committed only after Caddy accepted the        *)
(* configuration it belongs to (caddy.ts:645-647).                         *)
(***************************************************************************)
CommittedWasAccepted == AtMost(committed, active)

(***************************************************************************)
(* The reloader implements what reloadCaddy() promises (ConfigDelivery).   *)
(***************************************************************************)
Delivery == INSTANCE ConfigDelivery WITH desired <- db
ImplementsDelivery == Delivery!Spec

(***************************************************************************)
(* Every caller of reload() gets an answer: the loop cannot be kept going  *)
(* forever, because each of finitely many callers queues at most one turn. *)
(***************************************************************************)
EveryCallerAnswered == \A c \in Caller : caller[c] = "waiting" ~> caller[c] # "waiting"

(* Together: what was promised to callers and what is recorded is with Caddy. *)
ReloadIsSound == TypeOK /\ ReloadDelivers /\ CommittedWasAccepted

=============================================================================
