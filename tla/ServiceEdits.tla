---------------------------- MODULE ServiceEdits ----------------------------
(***************************************************************************)
(* Edits of a service's environment and static routing settings: the       *)
(* compare-and-swap handlers of routers/services.ts, siteyctl requests and *)
(* the two editors of the page web/src/pages/ServiceDetail.vue.            *)
(*                                                                         *)
(* Handlers run up to an await and are then interleaved.  An environment   *)
(* maps names to the request that wrote the value; a fragment is one of    *)
(* EditCfgs, "" the empty one.                                             *)
(***************************************************************************)
EXTENDS Naturals

CONSTANTS EditNames,     \* names of environment variables
          EditCfgs,      \* custom Caddy fragments, "" not among them
          EditValid,     \* those the checks accept
          EditClis,      \* requests of siteyctl, each made once
          EditAttempts,  \* attempts of editEnv (20 in the code)
          EditMoves      \* bound on what the user of the page does

ASSUME EditAssumption == /\ EditValid \subseteq EditCfgs /\ "" \notin EditCfgs
                         /\ EditClis \cap {"envSave", "formSave"} = {}
                         /\ EditAttempts \in Nat \ {0} /\ EditMoves \in Nat

VARIABLES editRow,     \* the service's row
          editServed,  \* routing settings Caddy was last given
          editReq,     \* requests in progress or answered
          editPage,    \* the page's refs
          editMoves    \* actions of its user so far

EditVars == <<editRow, editServed, editReq, editPage, editMoves>>

EditKeep == "keep"
EditModes == {"spa", "caddy"}
EditFragments == EditCfgs \cup {""}
EditSlots == EditClis \cup {"envSave", "formSave"}
EditEnvs == [EditNames -> EditClis \cup {"none", "page"}]
EditRoutings == [mode : EditModes, cfg : EditFragments]
EditUntouched == [env |-> <<>>, mode |-> EditKeep, cfg |-> EditKeep]
RoutingOf(s) == [mode |-> s.mode, cfg |-> s.cfg]
EditWanted(f, s) == [mode |-> IF f.mode = EditKeep THEN s.mode ELSE f.mode,
                 cfg |-> IF f.cfg = EditKeep THEN s.cfg ELSE f.cfg]

EditNewRow == [alive |-> TRUE, env |-> [n \in EditNames |-> "none"], mode |-> "spa", cfg |-> ""]
EditIdle == [step |-> "idle", result |-> "", op |-> "", name |-> "", fields |-> EditUntouched,
         seen |-> EditNewRow, tries |-> 0]

(* A service that has kept a checked fragment, or has none. *)
EditInit ==
  /\ editRow \in {[EditNewRow EXCEPT !.cfg = c] : c \in EditValid \cup {""}}
  /\ editServed = RoutingOf(editRow)
  /\ editReq = [r \in EditSlots |-> EditIdle]
  /\ editPage = [view |-> editRow, text |-> editRow.env, form |-> RoutingOf(editRow),
                 fetched |-> <<>>, warning |-> FALSE, edited |-> FALSE, plain |-> FALSE,
                 again |-> FALSE, dropped |-> FALSE]
  /\ editMoves = 0

(***************************************************************************)
(* Handlers                                                                *)
(***************************************************************************)
EditBecome(r, rec) == editReq' = [editReq EXCEPT ![r] = rec]
EditFinish(r, result) == EditBecome(r, [EditIdle EXCEPT !.step = "done", !.result = result])
EditAt(r, step) == editReq[r].step = step

EnvEditStart(r) ==
  /\ EditAt(r, "idle")
  /\ \E op \in {"set", "unset"}, n \in EditNames :
       EditBecome(r, [editReq[r] EXCEPT !.step = "read", !.op = op, !.name = n])
  /\ UNCHANGED <<editRow, editServed, editPage, editMoves>>

(* findServiceOrThrow and the edit of the text it returned. *)
EnvEditRead(r) ==
  /\ EditAt(r, "read")
  /\ IF editRow.alive
     THEN EditBecome(r, [editReq[r] EXCEPT !.step = "swap", !.seen = editRow])
     ELSE EditFinish(r, "not_found")
  /\ UNCHANGED <<editRow, editServed, editPage, editMoves>>

Edited(r) ==
  [editReq[r].seen.env EXCEPT ![editReq[r].name] = IF editReq[r].op = "set" THEN r ELSE "none"]

(* Faulty variant: the row is written without comparing the text. *)
SwapHoldsAlways(r) == editRow.alive

SwapHolds(r) == editRow.alive /\ editRow.env = editReq[r].seen.env

(* Faulty variant: one attempt too many. *)
EditMayRetryOnceMore(r) == editReq[r].tries < EditAttempts

EditMayRetry(r) == editReq[r].tries + 1 < EditAttempts

EnvEditSwap(r) ==
  /\ EditAt(r, "swap")
  /\ \/ /\ SwapHolds(r)
        /\ editRow' = [editRow EXCEPT !.env = Edited(r)]
        /\ EditFinish(r, "ok")
     \/ /\ ~SwapHolds(r)
        /\ EditMayRetry(r)
        /\ EditBecome(r, [editReq[r] EXCEPT !.step = "read", !.tries = @ + 1])
        /\ UNCHANGED editRow
     \/ /\ ~SwapHolds(r)
        /\ ~EditMayRetry(r)
        /\ EditFinish(r, "conflict")
        /\ UNCHANGED editRow
  /\ UNCHANGED <<editServed, editPage, editMoves>>

(* siteyctl's edit of the routing flags goes through update(). *)
CliUpdate(r) ==
  /\ EditAt(r, "idle")
  /\ \E m \in EditModes \cup {EditKeep}, c \in EditFragments \cup {EditKeep} :
       /\ {m, c} # {EditKeep}
       /\ EditBecome(r, [editReq[r] EXCEPT !.step = "load", !.op = "update",
                       !.fields = [EditUntouched EXCEPT !.mode = m, !.cfg = c]])
  /\ UNCHANGED <<editRow, editServed, editPage, editMoves>>

(* update(): the row is read and the routing settings after the write checked. *)
UpdateLoad(r) ==
  LET next == EditWanted(editReq[r].fields, editRow)
      cfgChanged == next.cfg # editRow.cfg
      changed == cfgChanged \/ next.mode # editRow.mode
  IN /\ EditAt(r, "load")
     /\ IF ~editRow.alive THEN EditFinish(r, "not_found")
        ELSE IF cfgChanged /\ next.cfg # "" /\ next.mode # "caddy" THEN EditFinish(r, "bad_request")
        ELSE EditBecome(r, [editReq[r] EXCEPT !.seen = editRow,
                          !.step = IF next.mode = "caddy" /\ changed THEN "check" ELSE "write"])
     /\ UNCHANGED <<editRow, editServed, editPage, editMoves>>

(* assertStaticRouting: the fragment is refused, or Caddy cannot be asked. *)
UpdateCheck(r) ==
  /\ EditAt(r, "check")
  /\ \/ /\ EditWanted(editReq[r].fields, editReq[r].seen).cfg \in EditValid
        /\ EditBecome(r, [editReq[r] EXCEPT !.step = "write"])
     \/ EditFinish(r, "rejected")
  /\ UNCHANGED <<editRow, editServed, editPage, editMoves>>

(* Faulty variant: the write is not conditional on the validated settings. *)
RoutingUnchangedIgnored(r) == editRow.alive

RoutingUnchanged(r) == editRow.alive /\ RoutingOf(editRow) = RoutingOf(editReq[r].seen)

(* Faulty variant: naming a setting that has its value asks for no delivery. *)
RoutingRequestedIfNew(f) == EditWanted(f, editRow) # RoutingOf(editRow)

RoutingRequested(f) == f.mode # EditKeep \/ f.cfg # EditKeep

UpdateWrite(r) ==
  LET f == editReq[r].fields
      w == EditWanted(f, editRow)
  IN /\ EditAt(r, "write")
     /\ IF RoutingUnchanged(r)
        THEN /\ editRow' = [editRow EXCEPT !.env = IF f.env = <<>> THEN @ ELSE f.env[1],
                                           !.mode = w.mode, !.cfg = w.cfg]
             /\ IF RoutingRequested(f)
                THEN EditBecome(r, [editReq[r] EXCEPT !.step = "deliver"])
                ELSE EditFinish(r, "ok")
        ELSE EditFinish(r, "conflict") /\ UNCHANGED editRow
     /\ UNCHANGED <<editServed, editPage, editMoves>>

(* routingWarning: the reload delivers what is stored now, or fails. *)
UpdateDeliver(r) ==
  /\ EditAt(r, "deliver")
  /\ \/ editServed' = RoutingOf(editRow) /\ EditFinish(r, "ok")
     \/ UNCHANGED editServed /\ EditFinish(r, "warning")
  /\ UNCHANGED <<editRow, editPage, editMoves>>

EditDelete ==
  /\ editRow.alive
  /\ editRow' = [editRow EXCEPT !.alive = FALSE]
  /\ UNCHANGED <<editServed, editReq, editPage, editMoves>>

(***************************************************************************)
(* The page                                                                *)
(***************************************************************************)
PageMoves == editMoves < EditMoves /\ editMoves' = editMoves + 1

TypeEnv ==
  /\ PageMoves /\ editPage.fetched = <<>>
  /\ \E n \in EditNames, v \in {"none", "page"} :
       editPage' = [editPage EXCEPT !.text[n] = v]
  /\ UNCHANGED <<editRow, editServed, editReq>>

PickRouting ==
  /\ PageMoves /\ editPage.fetched = <<>>
  /\ \E w \in EditRoutings : /\ w # editPage.form
                         /\ editPage' = [editPage EXCEPT !.form = w, !.edited = TRUE]
  /\ UNCHANGED <<editRow, editServed, editReq>>

(* saveEnvVars: the whole text, while the button is enabled. *)
SaveEnv ==
  /\ EditAt("envSave", "idle") /\ editPage.text # editPage.view.env
  /\ PageMoves
  /\ EditBecome("envSave", [EditIdle EXCEPT !.step = "load", !.op = "update",
                          !.fields = [EditUntouched EXCEPT !.env = <<editPage.text>>]])
  /\ UNCHANGED <<editRow, editServed, editPage>>

EnvSaved ==
  /\ EditAt("envSave", "done")
  /\ EditBecome("envSave", EditIdle)
  /\ editPage' = IF editReq["envSave"].result = "ok"
                 THEN [editPage EXCEPT !.view.env = editPage.text] ELSE editPage
  /\ UNCHANGED <<editRow, editServed, editMoves>>

(* Faulty variant: the form sends every field it shows. *)
FormFieldsAll ==
  [EditUntouched EXCEPT !.mode = editPage.form.mode,
                    !.cfg = IF editPage.form.mode = "caddy" THEN editPage.form.cfg ELSE EditKeep]

(* The routing fields the form sends: those the user changed, all of them to
   apply again after a warning. *)
FormFields ==
  LET again == editPage.warning
      form == editPage.form
  IN [EditUntouched EXCEPT
        !.mode = IF again \/ form.mode # editPage.view.mode THEN form.mode ELSE EditKeep,
        !.cfg = IF form.mode = "caddy" /\ (again \/ form.cfg # editPage.view.cfg)
                THEN form.cfg ELSE EditKeep]

(* The form has other fields, so it may be sent with the routing untouched. *)
SaveForm ==
  /\ EditAt("formSave", "idle")
  /\ PageMoves
  /\ EditBecome("formSave", [EditIdle EXCEPT !.step = "load", !.op = "update", !.fields = FormFields])
  /\ editPage' = [editPage EXCEPT !.warning = FALSE,
                                  !.plain = ~editPage.warning /\ ~editPage.edited,
                                  !.again = editPage.warning]
  /\ UNCHANGED <<editRow, editServed>>

(* The answer: the service is fetched again and shown, with the warning.  A
   refusal shows an error and the warning is gone, which the observer
   "dropped" remembers. *)
FormSaved ==
  LET result == editReq["formSave"].result
  IN /\ EditAt("formSave", "done")
     /\ EditBecome("formSave", EditIdle)
     /\ editPage' =
          IF result \in {"ok", "warning"} /\ editRow.alive
          THEN [editPage EXCEPT !.view = editRow, !.form = RoutingOf(editRow), !.edited = FALSE,
                                !.warning = (result = "warning"), !.again = FALSE]
          ELSE [editPage EXCEPT !.dropped = @ \/ editPage.again, !.again = FALSE]
     /\ UNCHANGED <<editRow, editServed, editMoves>>

(* fetchService, on mount and after adding a route, deploying and the like. *)
PageFetch ==
  /\ PageMoves /\ editPage.fetched = <<>> /\ editRow.alive
  /\ editPage' = [editPage EXCEPT !.fetched = <<editRow>>]
  /\ UNCHANGED <<editRow, editServed, editReq>>

PageShow ==
  /\ editPage.fetched # <<>>
  /\ LET svc == editPage.fetched[1]
     IN editPage' = [editPage EXCEPT !.view = svc, !.text = svc.env, !.form = RoutingOf(svc),
                                     !.fetched = <<>>, !.edited = FALSE]
  /\ UNCHANGED <<editRow, editServed, editReq, editMoves>>

EditHandles(r) ==
  \/ EnvEditRead(r) \/ EnvEditSwap(r)
  \/ UpdateLoad(r) \/ UpdateCheck(r) \/ UpdateWrite(r) \/ UpdateDeliver(r)

EditNext ==
  \/ \E r \in EditClis : EnvEditStart(r) \/ CliUpdate(r)
  \/ \E r \in EditSlots : EditHandles(r)
  \/ EditDelete
  \/ TypeEnv \/ PickRouting \/ SaveEnv \/ EnvSaved \/ SaveForm \/ FormSaved \/ PageFetch \/ PageShow

EditSpec == EditInit /\ [][EditNext]_EditVars

-----------------------------------------------------------------------------
EditRows == [alive : BOOLEAN, env : EditEnvs, mode : EditModes, cfg : EditFragments]

(* Types of the rows, requests and the page. *)
EditTypeOK ==
  /\ editRow \in EditRows /\ editServed \in EditRoutings
  /\ \A r \in EditSlots :
       /\ editReq[r].step \in {"idle", "read", "swap", "load", "check", "write", "deliver", "done"}
       /\ \A i \in DOMAIN editReq[r].fields.env : editReq[r].fields.env[i] \in EditEnvs
       /\ editReq[r].fields.mode \in EditModes \cup {EditKeep}
       /\ editReq[r].fields.cfg \in EditFragments \cup {EditKeep}
       /\ editReq[r].seen \in EditRows
       /\ editReq[r].tries \in 0 .. EditAttempts - 1
  /\ editPage.view \in EditRows /\ editPage.text \in EditEnvs /\ editPage.form \in EditRoutings

(* The active custom fragment passed the checks, whatever edits of mode and
   fragment were interleaved (services.ts:199-201, 620-627). *)
ActiveConfigChecked == editRow.mode = "caddy" => editRow.cfg \in EditValid

(* When Caddy does not have the stored routing settings, a delivery is under
   way or somebody has been told to retry (services.ts:55-63, 609-613;
   ServiceDetail.vue:836-869).  A second save that is refused takes the page's
   warning away and is excepted. *)
FailureIsShown ==
  \/ RoutingOf(editRow) = editServed
  \/ editPage.warning \/ editPage.again \/ editPage.dropped
  \/ \E r \in EditSlots : EditAt(r, "deliver") \/ editReq[r].result = "warning"
  \/ ~editRow.alive

(* Setting or removing one variable never changes another one, though the
   whole text is read, edited and written back (services.ts:69-86). *)
EditLeavesOtherNames ==
  \A r \in EditClis : EditAt(r, "swap") =>
    \A n \in EditNames \ {editReq[r].name} :
      EditAt(r, "done")' => editRow'.env[n] = editRow.env[n]

(* A save of the settings form by a user who left the routing as displayed
   writes no routing setting, even if another administrator changed it
   meanwhile; applying again after a warning is the exception
   (ServiceDetail.vue:848-859). *)
FormLeavesRouting ==
  EditAt("formSave", "write") /\ ~EditAt("formSave", "write")' /\ editPage.plain
    => RoutingOf(editRow') = RoutingOf(editRow)

(* No edit touches what it was not asked to: neither of the two above. *)
EditKeepsOthers == [][EditLeavesOtherNames /\ FormLeavesRouting]_EditVars

(* Together: what edits leave behind is well formed, checked and either
   delivered or complained of. *)
EditsAreSound == EditTypeOK /\ ActiveConfigChecked /\ FailureIsShown

=============================================================================
