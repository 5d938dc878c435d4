----------------------------- MODULE SelfUpdate -----------------------------
(***************************************************************************)
(* Updating Sitey itself: triggerUpdate, runUpdate and getUpdateStatus of  *)
(* routers/system.ts, the script deploy/updater/update-docker.sh that runs *)
(* in the updater's container and survives the server it restarts, and the *)
(* update section of the page web/src/pages/Settings.vue.                  *)
(*                                                                         *)
(* Runs are numbered in the order they start; output is abstracted to      *)
(* whether there is any, the log file to what its last line says.  A       *)
(* request is sent, served and answered in steps of their own, and may be  *)
(* lost.  What the page asked for before it was opened anew is answered to *)
(* nobody.                                                                 *)
(***************************************************************************)
EXTENDS Naturals, FiniteSets

CONSTANTS UpdRuns,     \* bound: scripts started
          UpdRestarts, \* bound: restarts of the server
          UpdLost,     \* bound: exec streams lost
          UpdAnswers   \* bound: polls of the page under way

ASSUME UpdAssumption == {UpdRuns, UpdRestarts, UpdLost, UpdAnswers} \subseteq Nat

VARIABLES
  updState,     \* updateState: lost when the server restarts
  updRun,       \* the scripts, whether the server reads their output, and
                \* whether no other was active at their start
  updFile,      \* last line of /data/.update.log
  updAsk,       \* triggerUpdate calls: the page's and another administrator's
  updPage,      \* the page: its refs, its intervals, calls and answers under way
  updRestarts, updLost

UpdVars == <<updState, updRun, updFile, updAsk, updPage, updRestarts, updLost>>

UpdFresh == [running |-> FALSE, lines |-> FALSE, finished |-> FALSE, exit |-> "null"]
UpdClicks == {"first", "second"}
UpdAskers == UpdClicks \cup {"other"}
UpdIdle == {"none", "done", "failed"}
UpdActive == {n \in 1 .. UpdRuns : updRun[n].step \notin UpdIdle}

UpdAttached == {n \in 1 .. UpdRuns : updRun[n].attached}

\* The page: the update it started (observer), what it shows, the intervals
\* that fire and whether it holds the handle of the last; the confirmation
\* dialog, calls of triggerUpdate, onMounted's query, polls, their answers;
\* and whether it asked for an interval beside another (observer).
UpdOpened == [run |-> 0, running |-> FALSE, finished |-> FALSE, exit |-> "null",
              timers |-> 0, handle |-> FALSE, dialog |-> FALSE, asks |-> {}, mount |-> "sent",
              sent |-> 0, answers |-> {}, met |-> FALSE]

UpdInit ==
  /\ updState = UpdFresh
  /\ updRun = [n \in 1 .. UpdRuns |-> [step |-> "none", attached |-> FALSE, alone |-> TRUE]]
  /\ updFile \in {"none", "complete"}
  /\ updAsk = [a \in UpdAskers |-> "idle"]
  /\ updPage = UpdOpened
  /\ updRestarts = 0 /\ updLost = 0

-----------------------------------------------------------------------------
(* Server *)

(* The check, then the listing of the containers. *)
UpdTrigger(a) ==
  /\ updAsk[a] = "sent"
  /\ updAsk' = [updAsk EXCEPT ![a] = IF updState.running THEN "refused" ELSE "listed"]
  /\ UNCHANGED <<updState, updRun, updFile, updPage, updRestarts, updLost>>

(* No running updater: refused.  Otherwise runUpdate starts the script. *)
UpdStart(a) ==
  /\ updAsk[a] = "listed"
  /\ \/ \E n \in 1 .. UpdRuns :
          /\ updRun[n].step = "none" /\ \A m \in 1 .. n - 1 : updRun[m].step # "none"
          /\ updRun' = [updRun EXCEPT ![n] = [step |-> "pull", attached |-> TRUE,
                                                     alone |-> UpdActive \cup UpdAttached = {}]]
          /\ updState' = [UpdFresh EXCEPT !.running = TRUE]
          /\ updAsk' = [updAsk EXCEPT ![a] = "started"]
          /\ updPage' = IF a \in updPage.asks THEN [updPage EXCEPT !.run = n] ELSE updPage
     \/ updAsk' = [updAsk EXCEPT ![a] = "refused"] /\ UNCHANGED <<updRun, updState, updPage>>
  /\ UNCHANGED <<updFile, updRestarts, updLost>>

(* The script prints: memory gets the lines while the server reads them. *)
UpdPrints(n) == updState' = [updState EXCEPT !.lines = @ \/ updRun[n].attached]

UpdStep(n, from, to) ==
  /\ updRun[n].step = from
  /\ updRun' = [updRun EXCEPT ![n].step = to]
  /\ UpdPrints(n)
  /\ UNCHANGED <<updAsk, updPage, updRestarts, updLost>>

(* Faulty variant: the log of an update is appended to the last one's. *)
UpdClearKeeps(n) == UpdStep(n, "pull", "build") /\ UNCHANGED updFile

(* git pull, then ": > $LOG" and the first lines. *)
UpdClear(n) == UpdStep(n, "pull", "build") /\ updFile' = "partial"
UpdBuild(n) == UpdStep(n, "build", "web") /\ updFile' = "partial"
UpdWeb(n) == UpdStep(n, "web", "up") /\ updFile' = "partial"
UpdUp(n) == UpdStep(n, "up", "done") /\ updFile' = "complete"

(* set -e: git pull fails before the log is touched, the others after. *)
UpdFails(n) ==
  \E from \in {"pull", "build", "web", "up"} :
    /\ UpdStep(n, from, "failed")
    /\ updFile' = IF from = "pull" THEN updFile ELSE "partial"

(* Faulty variant: the state of the script is kept in place of its exit code. *)
UpdEndedRaw(exit) == [updState EXCEPT !.running = FALSE, !.finished = TRUE,
                        !.exit = IF exit = "ok" THEN "done" ELSE exit]

UpdEnded(exit) == [updState EXCEPT !.running = FALSE, !.finished = TRUE, !.exit = exit]

(* Faulty variant: a failure skips the reset of the flag. *)
UpdFinishKeeps(n) ==
  /\ updRun[n].attached /\ updRun[n].step \in {"done", "failed"}
  /\ updState' = IF updRun[n].step = "done" THEN UpdEnded("ok") ELSE [updState EXCEPT !.exit = "failed"]
  /\ updRun' = [updRun EXCEPT ![n].attached = FALSE]
  /\ UNCHANGED <<updFile, updAsk, updPage, updRestarts, updLost>>

(* The stream ends, exec.inspect() gives the exit code. *)
UpdFinish(n) ==
  /\ updRun[n].attached /\ updRun[n].step \in {"done", "failed"}
  /\ updState' = UpdEnded(IF updRun[n].step = "done" THEN "ok" ELSE "failed")
  /\ updRun' = [updRun EXCEPT ![n].attached = FALSE]
  /\ UNCHANGED <<updFile, updAsk, updPage, updRestarts, updLost>>

(* The stream breaks while the script runs (inspect() has no code yet, which
   reads as 0), inspect() fails, or the exec cannot be started. *)
UpdStreamLost(n) ==
  /\ updLost < UpdLost /\ updLost' = updLost + 1
  /\ updRun[n].attached
  /\ \/ /\ updState' = UpdEnded("ok")
        /\ updRun' = [updRun EXCEPT ![n].attached = FALSE]
     \/ /\ updRun[n].step = "pull"
        /\ updState' = [UpdEnded("failed") EXCEPT !.lines = TRUE]
        /\ updRun' = [updRun EXCEPT ![n].step = "failed", ![n].attached = FALSE]
  /\ UNCHANGED <<updFile, updAsk, updPage, updRestarts>>

(* "up -d" recreates the server, or it crashes: the script goes on. *)
UpdRestart ==
  /\ updRestarts < UpdRestarts /\ updRestarts' = updRestarts + 1
  /\ updState' = UpdFresh
  /\ updRun' = [n \in 1 .. UpdRuns |-> [updRun[n] EXCEPT !.attached = FALSE]]
  /\ updAsk' = [a \in UpdAskers |-> IF updAsk[a] = "listed" THEN "refused" ELSE updAsk[a]]
  /\ UNCHANGED <<updFile, updPage, updLost>>

(* getUpdateStatus: memory if it has any output, else the file. *)
UpdStatus ==
  IF updState.lines
  THEN [running |-> updState.running, finished |-> updState.finished, exit |-> updState.exit]
  ELSE [running |-> FALSE, finished |-> updFile = "complete",
        exit |-> CASE updFile = "complete" -> "ok" [] updFile = "partial" -> "failed"
                   [] updFile = "none" -> "null"]

-----------------------------------------------------------------------------
(* Page *)

(* The dialog opens unless an update is known to run. *)
UpdDialog ==
  /\ ~updPage.running /\ updPage' = [updPage EXCEPT !.dialog = TRUE]
  /\ UNCHANGED <<updState, updRun, updFile, updAsk, updRestarts, updLost>>

UpdMeets == updPage.met \/ updPage.asks # {} \/ updPage.mount # "none" \/ updPage.handle

(* triggerUpdate of the page, or another administrator's. *)
UpdConfirm(a) ==
  /\ updAsk[a] = "idle" /\ updAsk' = [updAsk EXCEPT ![a] = "sent"]
  /\ a \in UpdClicks => updPage.dialog
  /\ updPage' = IF a \in UpdClicks
                THEN [updPage EXCEPT !.finished = FALSE, !.exit = "null", !.run = 0, !.dialog = FALSE,
                        !.asks = @ \cup {a}, !.met = UpdMeets]
                ELSE updPage
  /\ UNCHANGED <<updState, updRun, updFile, updRestarts, updLost>>

(* startUpdatePolling: another interval, whose handle replaces the last one. *)
UpdPolls(page) == [page EXCEPT !.running = TRUE, !.timers = @ + 1, !.handle = TRUE]

UpdTriggered(a) ==
  /\ updAsk[a] \in {"started", "refused"}
  /\ updAsk' = [updAsk EXCEPT ![a] = "idle"]
  /\ LET page == [updPage EXCEPT !.asks = @ \ {a}]
     IN updPage' = IF a \in updPage.asks /\ updAsk[a] = "started" THEN UpdPolls(page) ELSE page
  /\ UNCHANGED <<updState, updRun, updFile, updRestarts, updLost>>

UpdPageOnly == UNCHANGED <<updState, updRun, updFile, updAsk, updRestarts, updLost>>

(* An interval fires; the server answers; answers come in any order. *)
UpdPoll ==
  /\ updPage.timers > 0 /\ updPage.sent + Cardinality(updPage.answers) < UpdAnswers
  /\ updPage' = [updPage EXCEPT !.sent = @ + 1] /\ UpdPageOnly

UpdServe ==
  /\ updPage.sent > 0
  /\ updPage' = [updPage EXCEPT !.sent = @ - 1, !.answers = @ \cup {UpdStatus}] /\ UpdPageOnly

(* Faulty variant: polling stops only on a finished update. *)
UpdStopsPollingFinished(status) == ~status.running /\ status.finished

UpdStopsPolling(status) == ~status.running

(* stopUpdatePolling clears the interval whose handle is held. *)
UpdAnswer ==
  \E s \in updPage.answers :
    LET stops == UpdStopsPolling(s) /\ updPage.handle
    IN /\ updPage' = [updPage EXCEPT !.answers = @ \ {s}, !.running = s.running,
                         !.finished = s.finished, !.exit = s.exit,
                         !.timers = IF stops THEN @ - 1 ELSE @, !.handle = @ /\ ~stops]
       /\ UpdPageOnly

(* The page is opened again: it asks, and polls if an update is running. *)
UpdOpen == updPage' = UpdOpened /\ UpdPageOnly

UpdMount ==
  /\ updPage.mount = "sent" /\ UpdPageOnly
  /\ updPage' = [updPage EXCEPT !.mount = IF UpdStatus.running THEN "running" ELSE "none"]

UpdMounted ==
  /\ updPage.mount = "running" /\ UpdPageOnly
  /\ updPage' = UpdPolls([updPage EXCEPT !.mount = "none"])

(* A request or its answer is lost. *)
UpdUnanswered ==
  \/ \E s \in updPage.answers : updPage' = [updPage EXCEPT !.answers = @ \ {s}] /\ UpdPageOnly
  \/ updPage.mount # "none" /\ updPage' = [updPage EXCEPT !.mount = "none"] /\ UpdPageOnly
  \/ \E a \in UpdAskers :
       /\ updAsk[a] = "started" /\ updAsk' = [updAsk EXCEPT ![a] = "refused"]
       /\ UNCHANGED <<updState, updRun, updFile, updPage, updRestarts, updLost>>

UpdScript(n) == UpdClear(n) \/ UpdBuild(n) \/ UpdWeb(n) \/ UpdUp(n) \/ UpdFails(n)

UpdNext ==
  \/ \E a \in UpdAskers : UpdConfirm(a) \/ UpdTrigger(a) \/ UpdStart(a) \/ UpdTriggered(a)
  \/ \E n \in 1 .. UpdRuns : UpdScript(n) \/ UpdFinish(n) \/ UpdStreamLost(n)
  \/ UpdRestart \/ UpdDialog \/ UpdPoll \/ UpdServe \/ UpdAnswer
  \/ UpdOpen \/ UpdMount \/ UpdMounted \/ UpdUnanswered

UpdSpec == UpdInit /\ [][UpdNext]_UpdVars

(* The script runs, its stream ends, intervals fire and are served, and not
   every answer is lost. *)
UpdFairRun(n) == UpdScript(n) \/ UpdFinish(n)
UpdFairness == /\ WF_UpdVars(UpdPoll) /\ WF_UpdVars(UpdServe) /\ SF_UpdVars(UpdAnswer)
               /\ \A n \in 1 .. UpdRuns : WF_UpdVars(UpdFairRun(n))

UpdFairSpec == UpdSpec /\ UpdFairness

-----------------------------------------------------------------------------
UpdStatuses == [running : BOOLEAN, finished : BOOLEAN, exit : {"null", "ok", "failed"}]

(* Types. *)
UpdTypeOK ==
  /\ updState \in [running : BOOLEAN, lines : BOOLEAN, finished : BOOLEAN,
                   exit : {"null", "ok", "failed"}]
  /\ updRun \in [1 .. UpdRuns -> [step : {"none", "pull", "build", "web", "up", "done", "failed"},
                                  attached : BOOLEAN, alone : BOOLEAN]]
  /\ updFile \in {"none", "partial", "complete"}
  /\ updAsk \in [UpdAskers -> {"idle", "sent", "listed", "started", "refused"}]
  /\ updPage.run \in 0 .. UpdRuns /\ updPage.answers \subseteq UpdStatuses

(* A status that says "complete" is not given while a script that has begun
   its own log is at work, across restarts of the server; two scripts at a
   time and lost streams are excepted (system.ts:311-331, update-docker.sh:24). *)
CompleteMeansEnded ==
  UpdStatus.finished /\ UpdStatus.exit = "ok" /\ updLost = 0
    /\ (\A n \in 1 .. UpdRuns : updRun[n].alone)
  => \A n \in UpdActive : updRun[n].step = "pull"

(* The flag that refuses further updates is never left set by an update that
   is over (system.ts:274-280, 139-145). *)
FlagHasRun == updState.running => UpdAttached # {}

(* The intervals of the page, as long as it asks for no second one beside the
   first: that of the handle, or none.  startUpdatePolling overwrites the
   handle without clearing it (Settings.vue:889-898). *)
IntervalIsHeld == ~updPage.met => updPage.timers = IF updPage.handle THEN 1 ELSE 0

(* The page that started or found an update stops polling in the end, even
   when the server that ran it is gone: no interval is left, or only ones that
   a second start beside the first made the page forget (Settings.vue:876-898;
   system.ts:311-331). *)
PollingEnds == updPage.timers > 0 ~> updPage.timers = 0 \/ (updPage.met /\ ~updPage.handle)

(* The page says "Update complete" of the update it started only when that
   update is (system.ts:307-310, "If we have in-memory state (update in
   progress or just finished), use it"). *)
ShownCompleteIsComplete ==
  updPage.run # 0 /\ updPage.finished /\ updPage.exit = "ok" => updRun[updPage.run].step = "done"

(* Together: flag and status tell of a run that is there, or is over, and the
   page knows the interval it has to clear. *)
UpdateIsTold == UpdTypeOK /\ CompleteMeansEnded /\ FlagHasRun /\ IntervalIsHeld

=============================================================================
