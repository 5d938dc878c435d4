----------------------------- MODULE ServicePage -----------------------------
(***************************************************************************)
(* The page of a service (ServiceDetail.vue): it loads the service with    *)
(* its deployments, shows the log of the selected one and polls it while   *)
(* the loaded list calls it unfinished.  Deploying, switching the service  *)
(* on or off and changing its routes each end with loading it again;       *)
(* requests overlap, and the server moves on in between.  A deployment is  *)
(* "ongoing" (queued or building) or "ended".                              *)
(***************************************************************************)
EXTENDS Naturals, Sequences

CONSTANTS PgButtons,     \* "deploy" and others of "toggle" and "route"
          PgDeployments, \* bound: deployments
          PgMoves,       \* bound: what the user does
          PgFaults       \* bound: requests that fail

PgNobody == "" \* who awaits a request that no handler awaits

ASSUME PgAssumption ==
  /\ "deploy" \in PgButtons /\ PgButtons \cap {PgNobody, "open"} = {}
  /\ {PgDeployments, PgMoves, PgFaults} \subseteq Nat

VARIABLES pgDeps,    \* the service's deployments, oldest first: their statuses
          pgHook,    \* the service uses a webhook (githubMode)
          pgView,    \* their statuses as loaded, <<>> before
          pgSel,     \* selectedDeployId, 0 if none
          pgLines,   \* the lines shown: of which deployment, and its status when they were read
          pgAsked,   \* requests for logs
          pgJob,     \* what each button's handler awaits
          pgFlag,    \* the refs loading, error, logsLoading, and whether a service was ever loaded
          pgMissed,  \* history: the last wish for logs was not fulfilled
          pgCount    \* moves and faults so far

PgVars == <<pgDeps, pgHook, pgView, pgSel, pgLines, pgAsked, pgJob, pgFlag, pgMissed, pgCount>>

PgHandlers == PgButtons \cup {"open"}
PgIdle == [step |-> "idle", snap |-> <<>>]
PgStep(b, step) == [pgJob EXCEPT ![b] = [PgIdle EXCEPT !.step = step]]
PgServer == <<pgDeps, pgHook>>
PgLog == <<pgSel, pgLines, pgAsked, pgMissed>>

PgInit ==
  /\ pgDeps \in {<<>>, <<"ended">>} /\ pgHook \in BOOLEAN /\ pgView = <<>>
  /\ pgSel = 0 /\ pgLines = [of |-> 0, at |-> "none"] /\ pgAsked = {} /\ pgMissed = FALSE
  /\ pgJob = [b \in PgHandlers |-> IF b = "open" THEN [PgIdle EXCEPT !.step = "fetch"] ELSE PgIdle]
  /\ pgFlag = [loading |-> TRUE, error |-> FALSE, logs |-> FALSE, loaded |-> FALSE]
  /\ pgCount = [moves |-> 0, faults |-> 0]

PgShown == pgFlag.loaded /\ ~pgFlag.loading /\ ~pgFlag.error
PgMove == PgShown /\ pgCount.moves < PgMoves /\ pgCount' = [pgCount EXCEPT !.moves = @ + 1]
PgFault == pgCount.faults < PgFaults /\ pgCount' = [pgCount EXCEPT !.faults = @ + 1]

(* shouldAutoRefreshLogs; a deployment that is not in the list is as the service. *)
PgPolls ==
  /\ pgSel # 0 /\ pgView # <<>>
  /\ (IF pgSel \in DOMAIN pgView THEN pgView[pgSel] ELSE pgView[Len(pgView)]) = "ongoing"

-----------------------------------------------------------------------------
(* fetchLogs *)

\* Faulty variant: as on the page of the containers' logs, nothing is asked.
PgLogsMayStartAlways == TRUE

PgLogsMayStart == ~pgFlag.logs

(* For a deployment, awaited by a handler or by PgNobody. *)
PgAskLogs(sel, b) ==
  LET own == b # PgNobody
  IN IF sel # 0 /\ PgLogsMayStart
     THEN /\ pgAsked' = pgAsked \cup {[of |-> sel, by |-> b, at |-> "none"]} /\ pgMissed' = FALSE
          /\ pgFlag' = [pgFlag EXCEPT !.logs = TRUE, !.loaded = @ \/ own]
          /\ pgJob' = IF own THEN PgStep(b, "logs") ELSE pgJob
     ELSE /\ pgMissed' = TRUE /\ UNCHANGED pgAsked
          /\ pgFlag' = [pgFlag EXCEPT !.loading = @ /\ ~own, !.loaded = @ \/ own]
          /\ pgJob' = IF own THEN PgStep(b, "idle") ELSE pgJob

PgPick ==
  /\ PgMove
  /\ \E d \in DOMAIN pgView : pgSel' = d /\ PgAskLogs(d, PgNobody)
  /\ UNCHANGED <<PgServer, pgView, pgLines>>

PgRefresh ==
  /\ PgMove /\ pgSel # 0 /\ ~pgFlag.logs /\ PgAskLogs(pgSel, PgNobody)
  /\ UNCHANGED <<PgServer, pgView, pgSel, pgLines>>

PgPoll ==
  /\ PgPolls /\ ~pgFlag.logs /\ PgAskLogs(pgSel, PgNobody)
  /\ UNCHANGED <<PgServer, pgView, pgSel, pgLines, pgCount>>

PgLogsRead(a) ==
  /\ a \in pgAsked /\ a.at = "none"
  /\ pgAsked' = (pgAsked \ {a}) \cup {[a EXCEPT !.at = pgDeps[a.of]]}
  /\ UNCHANGED <<PgServer, pgView, pgSel, pgLines, pgJob, pgFlag, pgMissed, pgCount>>

\* Faulty variant: a request that fails leaves the flag.
PgLogsFlagOfSuccess(failed) == failed

PgLogsFlag(failed) == FALSE

(* The handler that awaited it ends; an error of the logs is one of the page. *)
PgLogsOver(a, failed) ==
  /\ pgAsked' = pgAsked \ {a}
  /\ pgFlag' = [pgFlag EXCEPT !.loading = @ /\ a.by = PgNobody, !.error = @ \/ (failed /\ a.by # PgNobody), !.logs = PgLogsFlag(failed)]
  /\ pgJob' = IF a.by = PgNobody THEN pgJob ELSE [pgJob EXCEPT ![a.by] = PgIdle]
  /\ UNCHANGED <<PgServer, pgView, pgSel>>

PgLogsArrive(a) ==
  /\ a \in pgAsked /\ a.at # "none" /\ PgLogsOver(a, FALSE)
  /\ pgLines' = [of |-> a.of, at |-> a.at] /\ UNCHANGED <<pgMissed, pgCount>>

PgLogsFail(a) ==
  /\ a \in pgAsked /\ PgFault /\ PgLogsOver(a, TRUE)
  /\ pgMissed' = TRUE /\ UNCHANGED pgLines

-----------------------------------------------------------------------------
(* fetchService *)

PgFetch(b) == pgJob' = PgStep(b, "fetch") /\ pgFlag' = [pgFlag EXCEPT !.loading = TRUE, !.error = FALSE]

PgRead(b) ==
  /\ pgJob[b].step = "fetch"
  /\ pgJob' = [pgJob EXCEPT ![b] = [step |-> "read", snap |-> pgDeps]]
  /\ UNCHANGED <<PgServer, pgView, PgLog, pgFlag, pgCount>>

\* Faulty variant: the finally is a part of the try.
PgAfterFailureLoading(flag) == [flag EXCEPT !.error = TRUE]

PgAfterFailure(flag) == [flag EXCEPT !.error = TRUE, !.loading = FALSE]

PgFetchFails(b) ==
  /\ pgJob[b].step \in {"fetch", "read"} /\ PgFault
  /\ pgJob' = PgStep(b, "idle") /\ pgFlag' = PgAfterFailure(pgFlag)
  /\ UNCHANGED <<PgServer, pgView, PgLog>>

(* The newest deployment of what is loaded by then is selected. *)
PgSelect(b, deps) ==
  /\ pgSel' = Len(deps)
  /\ pgLines' = IF deps = <<>> THEN [of |-> 0, at |-> "none"] ELSE pgLines
  /\ PgAskLogs(Len(deps), b)

PgApply(b) ==
  /\ pgJob[b].step = "read" /\ pgView' = pgJob[b].snap
  /\ IF pgHook THEN pgJob' = PgStep(b, "hook") /\ pgFlag' = [pgFlag EXCEPT !.loaded = TRUE] /\ UNCHANGED PgLog
     ELSE PgSelect(b, pgJob[b].snap)
  /\ UNCHANGED <<PgServer, pgCount>>

(* refetchWebhookInfo, whose failure is shown elsewhere. *)
PgHooked(b) ==
  /\ pgJob[b].step = "hook" /\ PgSelect(b, pgView)
  /\ UNCHANGED <<PgServer, pgView, pgCount>>

-----------------------------------------------------------------------------
(* The buttons *)

PgClick(b) ==
  /\ PgMove /\ pgJob[b].step = "idle" /\ pgJob' = PgStep(b, "call")
  /\ UNCHANGED <<PgServer, pgView, PgLog, pgFlag>>

(* The request is refused, or its answer is lost; what the server did stays. *)
PgGivesUp(b) == PgFault /\ pgJob' = PgStep(b, "idle") /\ UNCHANGED pgFlag

PgQueued == Len(pgDeps) < PgDeployments /\ pgDeps' = Append(pgDeps, "ongoing")

(* triggerDeploy *)
PgDeployed ==
  /\ pgJob["deploy"].step = "call"
  /\ \/ PgQueued /\ PgFetch("deploy") /\ pgSel' = Len(pgDeps') /\ UNCHANGED pgCount
     \/ (PgQueued \/ UNCHANGED pgDeps) /\ PgGivesUp("deploy") /\ UNCHANGED pgSel
  /\ UNCHANGED <<pgHook, pgView, pgLines, pgAsked, pgMissed>>

(* activateService, deactivateService, addRoute and removeRoute *)
PgCalled(b) ==
  /\ b # "deploy" /\ pgJob[b].step = "call"
  /\ (PgFetch(b) /\ UNCHANGED pgCount) \/ PgGivesUp(b)
  /\ UNCHANGED <<PgServer, pgView, PgLog>>

-----------------------------------------------------------------------------
(* The server *)

PgEnds ==
  /\ \E d \in DOMAIN pgDeps : pgDeps[d] = "ongoing" /\ pgDeps' = [pgDeps EXCEPT ![d] = "ended"]
  /\ UNCHANGED <<pgHook, pgView, PgLog, pgJob, pgFlag, pgCount>>

PgOtherDeploy ==
  /\ PgQueued
  /\ UNCHANGED <<pgHook, pgView, PgLog, pgJob, pgFlag, pgCount>>

PgAnswer ==
  \/ \E b \in PgHandlers : PgRead(b) \/ PgApply(b) \/ PgHooked(b)
  \/ PgDeployed \/ \E b \in PgButtons : PgCalled(b)
PgLogAnswer == \E a \in pgAsked : PgLogsRead(a) \/ PgLogsArrive(a)

PgNext ==
  \/ PgPick \/ PgRefresh \/ PgPoll \/ (\E b \in PgButtons : PgClick(b)) \/ (\E b \in PgHandlers : PgFetchFails(b))
  \/ PgAnswer \/ PgLogAnswer \/ (\E a \in pgAsked : PgLogsFail(a)) \/ PgEnds \/ PgOtherDeploy

(* The interval fires again and again, and a request ends. *)
PgFairness == WF_PgVars(PgPoll) /\ WF_PgVars(PgLogAnswer)

PgSpec == PgInit /\ [][PgNext]_PgVars /\ PgFairness
-----------------------------------------------------------------------------
(* Types.  The page says "Loading..." only while something is being loaded,
   whatever fails and however loads overlap (ServiceDetail.vue:792-830). *)
PgTypeOK ==
  /\ pgSel \in 0 .. Len(pgDeps) /\ pgLines.of \in 0 .. Len(pgDeps) /\ Len(pgView) <= Len(pgDeps)
  /\ pgFlag.loading => \E b \in PgHandlers : pgJob[b].step \in {"fetch", "read", "hook", "logs"}

(* What is shown or will be is of the selected deployment, or the page knows
   better: the service is being loaded, or loading it failed, or the last wish
   for logs was dropped because of an older request, or failed. *)
PgFits(d) ==
  \/ pgSel = 0 \/ d \in {0, pgSel} \/ pgMissed \/ pgFlag.error
  \/ \E b \in PgHandlers : pgJob[b].step \in {"fetch", "read", "hook"}

(* Lines that do not fit are shown only while they are being replaced: an older
   answer never replaces newer lines for good (ServiceDetail.vue:1031-1049). *)
LinesAreOfSelected == pgAsked # {} \/ PgFits(pgLines.of)

(* As long as the page polls a selected deployment, it comes to show the lines
   of its end, though it never asks for the list again and however many
   requests fail before (ServiceDetail.vue:745-749, 1055-1066). *)
PolledLogsSettle ==
  \A d \in 1 .. PgDeployments :
    (pgSel = d /\ PgPolls /\ pgDeps[d] = "ended")
      ~> (pgSel # d \/ ~PgPolls \/ pgLines = [of |-> d, at |-> "ended"])

(* Together: the page shows what it says it shows, and says when it waits. *)
PageIsSound == PgTypeOK /\ LinesAreOfSelected

=============================================================================
