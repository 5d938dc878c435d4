---------------------------- MODULE ServerProofs ----------------------------
(***************************************************************************)
(* Proofs about parts of the server that share no state, each for any      *)
(* constants its assumption allows and any bounds. A part's names begin    *)
(* with its prefix: Edit is the editing of a service's settings            *)
(* (ServiceEdits), Boot the start of the server (StartUp), Tok the API     *)
(* tokens (ApiTokens), Img the images of a service (ImageRetention), Upd   *)
(* the update of Sitey itself (SelfUpdate), App the GitHub App             *)
(* (GithubApp), Hook the push webhooks (Webhooks).                         *)
(***************************************************************************)
EXTENDS TLAPS, ServiceEdits, StartUp, ApiTokens, ImageRetention, SelfUpdate, GithubApp, Webhooks,
        FiniteSetTheorems, WellFoundedInduction

-----------------------------------------------------------------------------
(***************************************************************************)
(* ServiceEdits                                                            *)
(***************************************************************************)

(* A request's record. *)
EditSteps == {"idle", "read", "swap", "load", "check", "write", "deliver", "done"}
EditResults == {"", "ok", "not_found", "conflict", "bad_request", "rejected", "warning"}
EditFields == [env : {<<>>} \cup {<<e>> : e \in EditEnvs}, mode : EditModes \cup {EditKeep},
               cfg : EditFragments \cup {EditKeep}]
EditRequests == [step : EditSteps, result : EditResults, op : {"", "set", "unset", "update"},
                 name : EditNames \cup {""}, fields : EditFields, seen : EditRows,
                 tries : 0 .. EditAttempts - 1]
EditPages == [view : EditRows, text : EditEnvs, form : EditRoutings,
              fetched : {<<>>} \cup {<<w>> : w \in EditRows}, warning : BOOLEAN,
              edited : BOOLEAN, plain : BOOLEAN, again : BOOLEAN, dropped : BOOLEAN]

(* What a request is about to write to an unchanged row was checked, or is
   what the row has. *)
EditMayWrite(q) ==
  LET w == EditWanted(q.fields, q.seen)
  IN w.mode = "caddy" => w.cfg \in EditValid \/ w = RoutingOf(q.seen)

(* A request by itself.  The editor of the environment asks for no routing. *)
EditRequestSound(r, q) ==
  /\ q \in EditRequests
  /\ q.result # "" => q.step = "done"
  /\ q.step \in {"read", "swap"} => r \in EditClis /\ q.name \in EditNames
  /\ q.step = "write" => EditMayWrite(q)
  /\ r = "envSave" =>
       ~RoutingRequested(q.fields) /\ q.step # "deliver" /\ q.result # "warning"

EditRequestsSound ==
  /\ editRow \in EditRows /\ editServed \in EditRoutings /\ editPage \in EditPages
  /\ editReq = [r \in EditSlots |-> editReq[r]]
  /\ \A r \in EditSlots : EditRequestSound(r, editReq[r])

(* The form in flight, and what it takes over from the page. *)
EditFormSound ==
  LET q == editReq["formSave"]
  IN /\ q.step # "idle" => ~editPage.warning
     /\ editPage.again =>
          q.step # "idle" /\ (q.step # "done" => q.fields.mode # EditKeep)
     /\ editPage.plain /\ q.step \notin {"idle", "done"} => ~RoutingRequested(q.fields)
     /\ ~editPage.edited => editPage.form = RoutingOf(editPage.view)

(* FailureIsShown with the answer that applying again may still bring. *)
EditToldOf(r) == editReq[r].step = "deliver" \/ editReq[r].result = "warning"
EditTold ==
  \/ RoutingOf(editRow) = editServed
  \/ editPage.warning \/ editPage.dropped
  \/ editPage.again /\ editReq["formSave"].result # "ok"
  \/ \E r \in EditSlots : EditToldOf(r)
  \/ ~editRow.alive

EditInv == EditRequestsSound /\ ActiveConfigChecked /\ EditFormSound /\ EditTold

-----------------------------------------------------------------------------

LEMMA EditSlotFacts ==
  /\ "formSave" \in EditSlots /\ "envSave" \in EditSlots /\ EditClis \subseteq EditSlots
  /\ "formSave" \notin EditClis /\ "envSave" \notin EditClis
BY EditAssumption DEF EditSlots

LEMMA EditRoutingType ==
  ASSUME NEW s \in EditRows
  PROVE  RoutingOf(s) \in EditRoutings
BY DEF RoutingOf, EditRows, EditRoutings

LEMMA EditWantedType ==
  ASSUME NEW s \in EditRows, NEW f \in EditFields
  PROVE  EditWanted(f, s) \in EditRoutings
BY DEF EditWanted, EditRows, EditRoutings, EditFields

(* Records of requests that begin or end. *)
LEMMA EditIdleType ==
  /\ EditNewRow \in EditRows /\ EditUntouched \in EditFields /\ EditIdle \in EditRequests
  /\ ~RoutingRequested(EditUntouched) /\ EditIdle.fields = EditUntouched
  /\ EditIdle.step = "idle" /\ EditIdle.result = ""
<1>1. EditNewRow \in EditRows
  BY DEF EditNewRow, EditRows, EditEnvs, EditFragments, EditModes
<1>2. EditUntouched \in EditFields /\ ~RoutingRequested(EditUntouched)
  BY DEF EditUntouched, EditFields, RoutingRequested
<1>3. 0 \in 0 .. EditAttempts - 1
  <2>1. EditAttempts \in Nat /\ EditAttempts # 0
    BY EditAssumption
  <2> QED
    BY <2>1
<1> QED
  BY <1>1, <1>2, <1>3 DEF EditIdle, EditRequests, EditSteps, EditResults

LEMMA EditFinished ==
  ASSUME NEW r, NEW x \in EditResults \ {""}, x = "warning" => r # "envSave"
  PROVE  LET q == [EditIdle EXCEPT !.step = "done", !.result = x]
         IN EditRequestSound(r, q) /\ q.step = "done" /\ q.result = x
<1> DEFINE q == [EditIdle EXCEPT !.step = "done", !.result = x]
<1>1. /\ q \in EditRequests /\ q.step = "done" /\ q.result = x /\ q.fields = EditUntouched
  BY EditIdleType DEF EditRequests, EditSteps
<1> HIDE DEF q
<1>2. EditRequestSound(r, q)
  BY <1>1, EditIdleType DEF EditRequestSound
<1> QED
  BY <1>1, <1>2 DEF q

LEMMA EditIdleSound ==
  ASSUME NEW r
  PROVE  EditRequestSound(r, EditIdle)
BY EditIdleType DEF EditRequestSound

LEMMA EditBecomes ==
  ASSUME EditRequestsSound, NEW r \in EditSlots, NEW q, EditBecome(r, q)
  PROVE  /\ editReq' = [p \in EditSlots |-> editReq'[p]]
         /\ editReq'[r] = q /\ \A p \in EditSlots \ {r} : editReq'[p] = editReq[p]
BY DEF EditRequestsSound, EditBecome

(* What a step of request r, which becomes q, does to the rest. *)
EditMoved(r, q) ==
  /\ EditBecome(r, q) /\ EditRequestSound(r, q)
  /\ editRow' \in EditRows /\ editServed' \in EditRoutings /\ editPage' = editPage
  /\ editRow'.alive = editRow.alive
  /\ q.step # "idle"
  /\ r = "formSave" =>
       /\ editReq[r].step \notin {"idle", "done"}
       /\ q.step # "done" => q.fields = editReq[r].fields
  /\ ActiveConfigChecked'
  /\ \/ /\ RoutingOf(editRow') = RoutingOf(editRow) /\ editServed' = editServed
        /\ ~EditToldOf(r)
        /\ r = "formSave" /\ q.result = "ok" => ~RoutingRequested(editReq[r].fields)
     \/ q.step = "deliver"
     \/ editServed' = RoutingOf(editRow')
     \/ q.result = "warning"

(* Any step of a request that leaves the row and what is served alone. *)
LEMMA EditQuiet ==
  ASSUME EditInv, NEW r \in EditSlots, NEW q, EditBecome(r, q), EditRequestSound(r, q),
         UNCHANGED <<editRow, editServed, editPage>>,
         q.step # "idle", q.result # "ok", editReq[r].step \notin {"deliver", "done"},
         r = "formSave" =>
           editReq[r].step # "idle" /\ (q.step # "done" => q.fields = editReq[r].fields)
  PROVE  EditMoved(r, q)
<1>1. editRow' = editRow /\ editServed' = editServed /\ editPage' = editPage
  OBVIOUS
<1>2. editReq[r].result = ""
  BY DEF EditInv, EditRequestsSound, EditRequestSound
<1>3. ~EditToldOf(r)
  BY <1>2 DEF EditToldOf
<1> QED
  BY <1>1, <1>3 DEF EditMoved, EditInv, EditRequestsSound, ActiveConfigChecked

LEMMA EditStarts ==
  ASSUME EditInv, NEW r \in EditClis, EnvEditStart(r) \/ CliUpdate(r)
  PROVE  \E q : EditMoved(r, q)
<1>1. /\ r \in EditSlots /\ r # "formSave" /\ r # "envSave"
      /\ EditRequestSound(r, editReq[r]) /\ editReq[r].step = "idle"
      /\ UNCHANGED <<editRow, editServed, editPage>>
  BY EditSlotFacts DEF EditInv, EditRequestsSound, EnvEditStart, CliUpdate, EditAt
<1>2. editReq[r] \in EditRequests /\ editReq[r].result = ""
  BY <1>1 DEF EditRequestSound
<1>3. CASE EnvEditStart(r)
  <2>1. PICK op \in {"set", "unset"}, n \in EditNames :
          EditBecome(r, [editReq[r] EXCEPT !.step = "read", !.op = op, !.name = n])
    BY <1>3 DEF EnvEditStart
  <2> DEFINE q == [editReq[r] EXCEPT !.step = "read", !.op = op, !.name = n]
  <2>2. q \in EditRequests /\ q.step = "read" /\ q.name = n /\ q.result = ""
    BY <1>2 DEF EditRequests, EditSteps
  <2> HIDE DEF q
  <2>3. EditRequestSound(r, q)
    BY <1>1, <2>2 DEF EditRequestSound
  <2>4. EditBecome(r, q)
    BY <2>1 DEF q
  <2> QED
    BY <1>1, <2>2, <2>3, <2>4, EditQuiet
<1>4. CASE CliUpdate(r)
  <2>1. PICK m \in EditModes \cup {EditKeep}, c \in EditFragments \cup {EditKeep} :
          EditBecome(r, [editReq[r] EXCEPT !.step = "load", !.op = "update",
                           !.fields = [EditUntouched EXCEPT !.mode = m, !.cfg = c]])
    BY <1>4 DEF CliUpdate
  <2> DEFINE q == [editReq[r] EXCEPT !.step = "load", !.op = "update",
                     !.fields = [EditUntouched EXCEPT !.mode = m, !.cfg = c]]
  <2>2. [EditUntouched EXCEPT !.mode = m, !.cfg = c] \in EditFields
    BY DEF EditUntouched, EditFields
  <2>3. q \in EditRequests /\ q.step = "load" /\ q.result = ""
    BY <1>2, <2>2 DEF EditRequests, EditSteps
  <2> HIDE DEF q
  <2>4. EditRequestSound(r, q)
    BY <1>1, <2>3 DEF EditRequestSound
  <2>5. EditBecome(r, q)
    BY <2>1 DEF q
  <2> QED
    BY <1>1, <2>3, <2>4, <2>5, EditQuiet
<1> QED
  BY <1>3, <1>4

LEMMA EnvEditMoves ==
  ASSUME EditInv, NEW r \in EditSlots, EnvEditRead(r) \/ EnvEditSwap(r)
  PROVE  \E q : EditMoved(r, q)
<1>1. /\ EditRequestSound(r, editReq[r]) /\ editReq[r].step \in {"read", "swap"}
      /\ UNCHANGED <<editServed, editPage>>
  BY DEF EditInv, EditRequestsSound, EnvEditRead, EnvEditSwap, EditAt
<1>2. /\ editReq[r] \in EditRequests /\ editReq[r].result = "" /\ r \in EditClis
      /\ editReq[r].name \in EditNames /\ r # "formSave" /\ r # "envSave"
  BY <1>1, EditSlotFacts DEF EditRequestSound
<1>3. /\ editRow \in EditRows /\ editServed \in EditRoutings
      /\ ~EditToldOf(r) /\ editReq[r].seen \in EditRows
  BY <1>1, <1>2 DEF EditInv, EditRequestsSound, EditToldOf, EditRequests
<1>4. ASSUME NEW x \in {"not_found", "conflict"}, EditFinish(r, x), editRow' = editRow
      PROVE  \E q : EditMoved(r, q)
  <2> DEFINE q == [EditIdle EXCEPT !.step = "done", !.result = x]
  <2>1. EditRequestSound(r, q) /\ q.step = "done" /\ q.result = x
    BY <1>2, EditFinished DEF EditResults
  <2>2. EditBecome(r, q)
    BY <1>4 DEF EditFinish
  <2> HIDE DEF q
  <2> QED
    BY <1>1, <1>4, <2>1, <2>2, EditQuiet
<1>5. CASE EnvEditRead(r)
  <2>1. CASE editRow.alive
    <3> DEFINE q == [editReq[r] EXCEPT !.step = "swap", !.seen = editRow]
    <3>1. q \in EditRequests /\ q.step = "swap" /\ q.name = editReq[r].name /\ q.result = ""
      BY <1>2, <1>3 DEF EditRequests, EditSteps
    <3>2. EditBecome(r, q) /\ editRow' = editRow
      BY <1>5, <2>1 DEF EnvEditRead
    <3> HIDE DEF q
    <3>3. EditRequestSound(r, q)
      BY <1>2, <3>1 DEF EditRequestSound
    <3> QED
      BY <1>1, <1>2, <3>1, <3>2, <3>3, EditQuiet
  <2>2. CASE ~editRow.alive
    BY <1>4, <1>5, <2>2 DEF EnvEditRead
  <2> QED
    BY <2>1, <2>2
<1>6. CASE EnvEditSwap(r)
  <2>1. CASE SwapHolds(r) /\ editRow' = [editRow EXCEPT !.env = Edited(r)] /\ EditFinish(r, "ok")
    <3> DEFINE q == [EditIdle EXCEPT !.step = "done", !.result = "ok"]
    <3>1. EditRequestSound(r, q) /\ q.step = "done"
      BY EditFinished DEF EditResults
    <3>2. EditBecome(r, q)
      BY <2>1 DEF EditFinish
    <3> HIDE DEF q
    <3>3. Edited(r) \in EditEnvs
      BY <1>2, <1>3 DEF Edited, EditRows, EditEnvs
    <3>4. /\ editRow' \in EditRows /\ RoutingOf(editRow') = RoutingOf(editRow)
          /\ editRow'.alive = editRow.alive
          /\ editRow'.mode = editRow.mode /\ editRow'.cfg = editRow.cfg
      BY <1>3, <2>1, <3>3 DEF EditRows, RoutingOf
    <3> QED
      BY <1>1, <1>2, <1>3, <3>1, <3>2, <3>4 DEF EditMoved, ActiveConfigChecked, EditInv
  <2>2. CASE ~SwapHolds(r) /\ EditMayRetry(r) /\ editRow' = editRow
             /\ EditBecome(r, [editReq[r] EXCEPT !.step = "read", !.tries = @ + 1])
    <3> DEFINE q == [editReq[r] EXCEPT !.step = "read", !.tries = @ + 1]
    <3>1. editReq[r].tries + 1 \in 0 .. EditAttempts - 1
      <4>1. /\ EditAttempts \in Nat /\ editReq[r].tries \in 0 .. EditAttempts - 1
            /\ editReq[r].tries + 1 < EditAttempts
        BY <1>2, <2>2, EditAssumption DEF EditRequests, EditMayRetry
      <4> QED
        BY <4>1
    <3>2. q \in EditRequests /\ q.step = "read" /\ q.name = editReq[r].name /\ q.result = ""
      BY <1>2, <1>3, <3>1 DEF EditRequests, EditSteps
    <3>3. EditBecome(r, q)
      BY <2>2
    <3> HIDE DEF q
    <3>4. EditRequestSound(r, q)
      BY <1>2, <3>2 DEF EditRequestSound
    <3> QED
      BY <1>1, <1>2, <2>2, <3>2, <3>3, <3>4, EditQuiet
  <2>3. CASE editRow' = editRow /\ EditFinish(r, "conflict")
    BY <1>4, <2>3
  <2> QED
    BY <1>6, <2>1, <2>2, <2>3 DEF EnvEditSwap
<1> QED
  BY <1>5, <1>6

LEMMA UpdateReads ==
  ASSUME EditInv, NEW r \in EditSlots, UpdateLoad(r) \/ UpdateCheck(r)
  PROVE  \E q : EditMoved(r, q)
<1>1. /\ EditRequestSound(r, editReq[r]) /\ editReq[r].step \in {"load", "check"}
      /\ editRow' = editRow /\ UNCHANGED <<editRow, editServed, editPage>>
  BY DEF EditInv, EditRequestsSound, UpdateLoad, UpdateCheck, EditAt
<1>2. /\ editReq[r] \in EditRequests /\ editReq[r].result = "" /\ editRow \in EditRows
      /\ r = "envSave" => ~RoutingRequested(editReq[r].fields)
  BY <1>1 DEF EditInv, EditRequestsSound, EditRequestSound
<1>3. ASSUME NEW x \in {"not_found", "bad_request", "rejected"}, EditFinish(r, x)
      PROVE  \E q : EditMoved(r, q)
  <2> DEFINE q == [EditIdle EXCEPT !.step = "done", !.result = x]
  <2>1. EditRequestSound(r, q) /\ q.step = "done" /\ q.result = x
    BY EditFinished DEF EditResults
  <2>2. EditBecome(r, q)
    BY <1>3 DEF EditFinish
  <2> HIDE DEF q
  <2> QED
    BY <1>1, <1>3, <2>1, <2>2, EditQuiet
<1>4. CASE UpdateLoad(r)
  <2> DEFINE next == EditWanted(editReq[r].fields, editRow)
             to == IF next.mode = "caddy" /\ (next.cfg # editRow.cfg \/ next.mode # editRow.mode)
                   THEN "check" ELSE "write"
             q == [editReq[r] EXCEPT !.seen = editRow, !.step = to]
  <2>1. \/ EditFinish(r, "not_found") \/ EditFinish(r, "bad_request")
        \/ EditBecome(r, q)
    BY <1>4 DEF UpdateLoad
  <2>2. /\ q \in EditRequests /\ q.step = to /\ q.seen = editRow /\ q.result = ""
        /\ q.fields = editReq[r].fields
    BY <1>2 DEF EditRequests, EditSteps
  <2>3. next \in EditRoutings
    BY <1>2, EditWantedType DEF EditRequests
  <2>4. to = "write" => EditMayWrite(q)
    <3> SUFFICES ASSUME to = "write", next.mode = "caddy"
                 PROVE  next = RoutingOf(editRow)
      BY <2>2 DEF EditMayWrite
    <3>1. next.cfg = editRow.cfg /\ next.mode = editRow.mode
      OBVIOUS
    <3> HIDE DEF next
    <3> QED
      BY <2>3, <3>1 DEF RoutingOf, EditRoutings
  <2>5. to \in {"check", "write"}
    OBVIOUS
  <2> HIDE DEF q, to
  <2>6. EditRequestSound(r, q)
    BY <1>2, <2>2, <2>4, <2>5 DEF EditRequestSound
  <2> QED
    BY <1>1, <1>3, <2>1, <2>2, <2>5, <2>6, EditQuiet
<1>5. CASE UpdateCheck(r)
  <2>1. CASE EditFinish(r, "rejected")
    BY <1>3, <2>1
  <2>2. CASE /\ EditWanted(editReq[r].fields, editReq[r].seen).cfg \in EditValid
             /\ EditBecome(r, [editReq[r] EXCEPT !.step = "write"])
    <3> DEFINE q == [editReq[r] EXCEPT !.step = "write"]
    <3>1. /\ q \in EditRequests /\ q.step = "write" /\ q.result = ""
          /\ q.fields = editReq[r].fields /\ q.seen = editReq[r].seen
      BY <1>2 DEF EditRequests, EditSteps
    <3>2. EditBecome(r, q)
      BY <2>2
    <3> HIDE DEF q
    <3>3. EditMayWrite(q)
      BY <2>2, <3>1 DEF EditMayWrite
    <3>4. EditRequestSound(r, q)
      BY <1>2, <3>1, <3>3 DEF EditRequestSound
    <3> QED
      BY <1>1, <3>1, <3>2, <3>4, EditQuiet
  <2> QED
    BY <1>5, <2>1, <2>2 DEF UpdateCheck
<1> QED
  BY <1>4, <1>5

(* The write: the row still has the settings that were validated. *)
LEMMA UpdateWrites ==
  ASSUME EditInv, NEW r \in EditSlots, UpdateWrite(r)
  PROVE  \E q : EditMoved(r, q)
<1> DEFINE f == editReq[r].fields
           w == EditWanted(f, editRow)
<1>1. /\ EditRequestSound(r, editReq[r]) /\ editReq[r].step = "write"
      /\ editServed' = editServed /\ editPage' = editPage
  BY DEF EditInv, EditRequestsSound, UpdateWrite, EditAt
<1>2. /\ editReq[r] \in EditRequests /\ editReq[r].result = "" /\ editRow \in EditRows
      /\ f \in EditFields /\ editReq[r].seen \in EditRows /\ EditMayWrite(editReq[r])
      /\ r = "envSave" => ~RoutingRequested(f)
      /\ editServed \in EditRoutings
  BY <1>1 DEF EditInv, EditRequestsSound, EditRequestSound, EditRequests
<1>3. ~EditToldOf(r)
  BY <1>1, <1>2 DEF EditToldOf
<1>4. CASE ~RoutingUnchanged(r)
  <2> DEFINE q == [EditIdle EXCEPT !.step = "done", !.result = "conflict"]
  <2>1. EditRequestSound(r, q) /\ q.step = "done" /\ q.result = "conflict"
    BY EditFinished DEF EditResults
  <2>2. EditBecome(r, q) /\ editRow' = editRow
    BY <1>4 DEF EditFinish, UpdateWrite
  <2> HIDE DEF q
  <2> QED
    BY <1>1, <2>1, <2>2, EditQuiet
<1>5. CASE RoutingUnchanged(r)
  <2>1. editRow' = [editRow EXCEPT !.env = IF f.env = <<>> THEN @ ELSE f.env[1],
                                   !.mode = w.mode, !.cfg = w.cfg]
    BY <1>5 DEF UpdateWrite
  <2>2. w \in EditRoutings
    BY <1>2, EditWantedType
  <2>3. f.env = <<>> \/ f.env[1] \in EditEnvs
    <3>1. f.env = <<>> \/ \E e \in EditEnvs : f.env = <<e>>
      <4>1. f.env \in {<<>>} \cup {<<e>> : e \in EditEnvs}
        BY <1>2 DEF EditFields
      <4> HIDE DEF f
      <4> QED
        BY <4>1
    <3> QED
      BY <3>1
  <2>4. f.env # <<>> => f.env[1] \in EditEnvs
    BY <2>3
  <2>5. w = EditWanted(f, editReq[r].seen) /\ RoutingOf(editRow) = RoutingOf(editReq[r].seen)
    BY <1>5 DEF RoutingUnchanged, RoutingOf, EditWanted
  <2>6. ~RoutingRequested(f) => w = RoutingOf(editRow)
    BY DEF RoutingRequested, EditWanted, RoutingOf
  <2> HIDE DEF w
  <2>7. /\ editRow' \in EditRows /\ RoutingOf(editRow') = w /\ editRow'.alive = editRow.alive
        /\ editRow'.mode = w.mode /\ editRow'.cfg = w.cfg
    <3> DEFINE env == IF f.env = <<>> THEN editRow.env ELSE f.env[1]
    <3>1. env \in EditEnvs
      BY <1>2, <2>4 DEF EditRows
    <3>2. editRow' = [editRow EXCEPT !.env = env, !.mode = w.mode, !.cfg = w.cfg]
      BY <2>1
    <3> HIDE DEF env
    <3> QED
      BY <1>2, <2>2, <3>1, <3>2 DEF EditRows, EditRoutings, RoutingOf
  <2>8. ActiveConfigChecked'
    <3> SUFFICES ASSUME w.mode = "caddy"
                 PROVE  w.cfg \in EditValid
      BY <2>7 DEF ActiveConfigChecked
    <3>1. w.cfg \in EditValid \/ w = RoutingOf(editRow)
      BY <1>2, <2>5 DEF EditMayWrite
    <3>2. w = RoutingOf(editRow) => editRow.mode = w.mode /\ editRow.cfg = w.cfg
      BY DEF RoutingOf
    <3> QED
      BY <3>1, <3>2 DEF EditInv, ActiveConfigChecked
  <2>9. CASE RoutingRequested(f)
    <3> DEFINE q == [editReq[r] EXCEPT !.step = "deliver"]
    <3>1. /\ q \in EditRequests /\ q.step = "deliver" /\ q.result = "" /\ q.fields = f
      BY <1>2 DEF EditRequests, EditSteps
    <3>2. EditBecome(r, q)
      BY <1>5, <2>9 DEF UpdateWrite
    <3> HIDE DEF q
    <3>3. EditRequestSound(r, q)
      BY <1>2, <2>9, <3>1 DEF EditRequestSound
    <3> QED
      BY <1>1, <1>2, <2>7, <2>8, <3>1, <3>2, <3>3 DEF EditMoved
  <2>10. CASE ~RoutingRequested(f)
    <3> DEFINE q == [EditIdle EXCEPT !.step = "done", !.result = "ok"]
    <3>1. EditRequestSound(r, q) /\ q.step = "done"
      BY EditFinished DEF EditResults
    <3>2. EditBecome(r, q)
      BY <1>5, <2>10 DEF EditFinish, UpdateWrite
    <3> HIDE DEF q
    <3> QED
      BY <1>1, <1>2, <1>3, <2>6, <2>7, <2>8, <2>10, <3>1, <3>2 DEF EditMoved
  <2> QED
    BY <2>9, <2>10
<1> QED
  BY <1>4, <1>5

LEMMA UpdateDelivers ==
  ASSUME EditInv, NEW r \in EditSlots, UpdateDeliver(r)
  PROVE  \E q : EditMoved(r, q)
<1>1. /\ EditRequestSound(r, editReq[r]) /\ editReq[r].step = "deliver"
      /\ editRow' = editRow /\ editPage' = editPage
  BY DEF EditInv, EditRequestsSound, UpdateDeliver, EditAt
<1>2. r # "envSave" /\ editRow \in EditRows /\ editServed \in EditRoutings
      /\ RoutingOf(editRow) \in EditRoutings
  BY <1>1, EditRoutingType DEF EditInv, EditRequestsSound, EditRequestSound
<1>3. ActiveConfigChecked'
  BY <1>1 DEF EditInv, ActiveConfigChecked
<1>4. PICK x \in {"ok", "warning"} :
        /\ EditFinish(r, x)
        /\ editServed' = RoutingOf(editRow) \/ (editServed' = editServed /\ x = "warning")
  BY DEF UpdateDeliver
<1> DEFINE q == [EditIdle EXCEPT !.step = "done", !.result = x]
<1>5. EditRequestSound(r, q) /\ q.step = "done" /\ q.result = x
  BY <1>2, EditFinished DEF EditResults
<1>6. EditBecome(r, q)
  BY <1>4 DEF EditFinish
<1> HIDE DEF q
<1> QED
  BY <1>1, <1>2, <1>3, <1>4, <1>5, <1>6 DEF EditMoved


(* A step of a request keeps the invariant. *)
LEMMA EditMovedInv ==
  ASSUME EditInv, NEW r \in EditSlots, NEW q, EditMoved(r, q)
  PROVE  EditInv'
<1>1. /\ editPage' = editPage /\ editReq'[r] = q
      /\ editReq' = [p \in EditSlots |-> editReq'[p]]
      /\ \A p \in EditSlots \ {r} : editReq'[p] = editReq[p]
  BY EditBecomes DEF EditMoved, EditInv
<1>2. EditRequestsSound'
  BY <1>1 DEF EditMoved, EditInv, EditRequestsSound
<1>3. EditFormSound'
  <2>1. CASE r = "formSave"
    <3> DEFINE p == editReq[r]
    <3>1. /\ p.step \notin {"idle", "done"} /\ q.step # "idle"
          /\ q.step # "done" => q.fields = p.fields
      BY <2>1 DEF EditMoved
    <3>2. /\ ~editPage.warning
          /\ editPage.again => p.fields.mode # EditKeep
          /\ editPage.plain => ~RoutingRequested(p.fields)
          /\ ~editPage.edited => editPage.form = RoutingOf(editPage.view)
      BY <2>1, <3>1 DEF EditInv, EditFormSound
    <3>3. editReq'["formSave"] = q
      BY <1>1, <2>1
    <3> HIDE DEF p
    <3> QED
      BY <1>1, <3>1, <3>2, <3>3 DEF EditFormSound
  <2>2. CASE r # "formSave"
    BY <1>1, <2>2, EditSlotFacts DEF EditInv, EditFormSound
  <2> QED
    BY <2>1, <2>2
<1>4. EditTold'
  <2>1. CASE q.step = "deliver" \/ q.result = "warning"
    BY <1>1, <2>1 DEF EditTold, EditToldOf
  <2>2. CASE editServed' = RoutingOf(editRow')
    BY <2>2 DEF EditTold
  <2>3. CASE /\ RoutingOf(editRow') = RoutingOf(editRow) /\ editServed' = editServed
             /\ ~EditToldOf(r)
             /\ r = "formSave" /\ q.result = "ok" => ~RoutingRequested(editReq[r].fields)
    <3>1. ASSUME NEW p \in EditSlots, EditToldOf(p)
          PROVE  EditTold'
      BY <1>1, <2>3, <3>1 DEF EditTold, EditToldOf
    <3>2. ASSUME editPage.again, editReq["formSave"].result # "ok"
          PROVE  editReq'["formSave"].result # "ok"
      <4> SUFFICES ASSUME r = "formSave", q.result = "ok"
                   PROVE  FALSE
        BY <1>1, <3>2, EditSlotFacts
      <4> QED
        BY <2>3, <3>2 DEF EditMoved, EditInv, EditFormSound, RoutingRequested
    <3> QED
      BY <1>1, <2>3, <3>1, <3>2 DEF EditMoved, EditInv, EditTold
  <2> QED
    BY <2>1, <2>2, <2>3 DEF EditMoved
<1> QED
  BY <1>2, <1>3, <1>4 DEF EditMoved, EditInv


LEMMA EditHandlesStep ==
  ASSUME EditInv,
         \/ \E r \in EditClis : EnvEditStart(r) \/ CliUpdate(r)
         \/ \E r \in EditSlots : EditHandles(r)
  PROVE  EditInv'
<1>1. CASE \E r \in EditClis : EnvEditStart(r) \/ CliUpdate(r)
  <2>1. PICK r \in EditClis : EnvEditStart(r) \/ CliUpdate(r)
    BY <1>1
  <2> QED
    BY <2>1, EditStarts, EditMovedInv, EditSlotFacts
<1>2. CASE \E r \in EditSlots : EditHandles(r)
  <2>1. PICK r \in EditSlots : EditHandles(r)
    BY <1>2
  <2>2. \E q : EditMoved(r, q)
    BY <2>1, EnvEditMoves, UpdateReads, UpdateWrites, UpdateDelivers DEF EditHandles
  <2> QED
    BY <2>2, EditMovedInv
<1> QED
  BY <1>1, <1>2

(* The page's own moves. *)
LEMMA EditPageStep ==
  ASSUME EditInv, TypeEnv \/ PickRouting \/ PageFetch \/ PageShow \/ EditDelete
  PROVE  EditInv'
<1>1. /\ editReq' = editReq /\ editServed' = editServed
      /\ editRow \in EditRows /\ editPage \in EditPages
  BY DEF TypeEnv, PickRouting, PageFetch, PageShow, EditDelete, EditInv, EditRequestsSound
<1>2. CASE EditDelete
  <2>1. /\ editPage' = editPage /\ editRow' \in EditRows /\ ~editRow'.alive
        /\ editRow'.mode = editRow.mode /\ editRow'.cfg = editRow.cfg
    BY <1>1, <1>2 DEF EditDelete, EditRows
  <2> QED
    BY <1>1, <2>1
       DEF EditInv, EditRequestsSound, ActiveConfigChecked, EditFormSound, EditTold
<1>3. CASE ~EditDelete
  <2>1. editRow' = editRow
    BY <1>3 DEF TypeEnv, PickRouting, PageFetch, PageShow
  <2>2. /\ editPage' \in EditPages
        /\ editPage'.warning = editPage.warning /\ editPage'.again = editPage.again
        /\ editPage'.dropped = editPage.dropped /\ editPage'.plain = editPage.plain
        /\ ~editPage'.edited => \/ editPage'.form = RoutingOf(editPage'.view)
                                \/ /\ ~editPage.edited /\ editPage'.form = editPage.form
                                   /\ editPage'.view = editPage.view
    <3>1. CASE TypeEnv
      <4>1. PICK n \in EditNames, v \in {"none", "page"} :
              editPage' = [editPage EXCEPT !.text[n] = v]
        BY <3>1 DEF TypeEnv
      <4>2. [editPage.text EXCEPT ![n] = v] \in EditEnvs
        BY <1>1 DEF EditPages, EditEnvs
      <4>3. editPage' = [editPage EXCEPT !.text = [editPage.text EXCEPT ![n] = v]]
        BY <4>1
      <4> QED
        BY <1>1, <4>2, <4>3 DEF EditPages
    <3>2. CASE PickRouting
      BY <1>1, <3>2 DEF PickRouting, EditPages
    <3>3. CASE PageFetch
      BY <1>1, <3>3 DEF PageFetch, EditPages
    <3>4. CASE PageShow
      <4> DEFINE svc == editPage.fetched[1]
      <4>1. svc \in EditRows
        <5>1. editPage.fetched # <<>> /\ editPage.fetched \in {<<>>} \cup {<<x>> : x \in EditRows}
          BY <1>1, <3>4 DEF PageShow, EditPages
        <5>2. PICK x \in EditRows : editPage.fetched = <<x>>
          BY <5>1
        <5> QED
          BY <5>2
      <4>2. editPage' = [editPage EXCEPT !.view = svc, !.text = svc.env, !.form = RoutingOf(svc),
                                         !.fetched = <<>>, !.edited = FALSE]
        BY <3>4 DEF PageShow
      <4> HIDE DEF svc
      <4>3. svc.env \in EditEnvs /\ RoutingOf(svc) \in EditRoutings
        BY <4>1, EditRoutingType DEF EditRows
      <4> QED
        BY <1>1, <4>1, <4>2, <4>3 DEF EditPages
    <3> QED
      BY <1>3, <3>1, <3>2, <3>3, <3>4
  <2>3. EditFormSound'
    BY <1>1, <2>2 DEF EditInv, EditFormSound
  <2> QED
    BY <1>1, <2>1, <2>2, <2>3 DEF EditInv, EditRequestsSound, ActiveConfigChecked, EditTold, EditToldOf
<1> QED
  BY <1>2, <1>3

(* Saves of the page and their answers. *)
LEMMA EditEnvSaveStep ==
  ASSUME EditInv, SaveEnv \/ EnvSaved
  PROVE  EditInv'
<1>1. /\ editServed' = editServed /\ editRow' = editRow
      /\ editRow \in EditRows /\ editPage \in EditPages
      /\ EditRequestSound("envSave", editReq["envSave"])
  BY EditSlotFacts DEF SaveEnv, EnvSaved, EditInv, EditRequestsSound
<1>2. ~EditToldOf("envSave")
  BY <1>1 DEF EditToldOf, EditRequestSound
<1>3. \E q : EditBecome("envSave", q) /\ EditRequestSound("envSave", q)
  <2>1. CASE EnvSaved
    BY <2>1, EditIdleSound DEF EnvSaved
  <2>2. CASE SaveEnv
    <3> DEFINE f == [EditUntouched EXCEPT !.env = <<editPage.text>>]
               q == [EditIdle EXCEPT !.step = "load", !.op = "update", !.fields = f]
    <3>1. f \in EditFields /\ ~RoutingRequested(f)
      BY <1>1 DEF EditUntouched, EditFields, RoutingRequested, EditPages
    <3> HIDE DEF f
    <3>2. q \in EditRequests /\ q.step = "load" /\ q.fields = f /\ q.result = ""
      BY <3>1, EditIdleType DEF EditRequests, EditSteps
    <3>3. EditBecome("envSave", q)
      BY <2>2 DEF SaveEnv, f
    <3> HIDE DEF q
    <3>4. EditRequestSound("envSave", q)
      BY <3>1, <3>2, EditSlotFacts DEF EditRequestSound
    <3> QED
      BY <3>3, <3>4
  <2> QED
    BY <2>1, <2>2
<1>4. PICK q : EditBecome("envSave", q) /\ EditRequestSound("envSave", q)
  BY <1>3
<1>5. /\ editReq' = [p \in EditSlots |-> editReq'[p]] /\ editReq'["envSave"] = q
      /\ \A p \in EditSlots \ {"envSave"} : editReq'[p] = editReq[p]
  BY <1>4, EditBecomes, EditSlotFacts DEF EditInv
<1>6. /\ editPage' \in EditPages
      /\ editPage'.warning = editPage.warning /\ editPage'.again = editPage.again
      /\ editPage'.dropped = editPage.dropped /\ editPage'.plain = editPage.plain
      /\ editPage'.edited = editPage.edited /\ editPage'.form = editPage.form
      /\ RoutingOf(editPage'.view) = RoutingOf(editPage.view)
  <2>1. CASE editPage' = editPage
    BY <1>1, <2>1
  <2>2. CASE editPage' = [editPage EXCEPT !.view.env = editPage.text]
    <3>1. [editPage.view EXCEPT !.env = editPage.text] \in EditRows
      BY <1>1 DEF EditPages, EditRows
    <3>2. editPage' = [editPage EXCEPT !.view = [editPage.view EXCEPT !.env = editPage.text]]
      BY <2>2
    <3>3. RoutingOf([editPage.view EXCEPT !.env = editPage.text]) = RoutingOf(editPage.view)
      BY <1>1 DEF EditPages, EditRows, RoutingOf
    <3> QED
      BY <1>1, <3>1, <3>2, <3>3 DEF EditPages
  <2> QED
    BY <2>1, <2>2 DEF SaveEnv, EnvSaved
<1>7. EditRequestsSound'
  BY <1>1, <1>4, <1>5, <1>6 DEF EditInv, EditRequestsSound
<1>8. editReq'["formSave"] = editReq["formSave"]
  BY <1>5, EditSlotFacts
<1>9. EditFormSound'
  BY <1>6, <1>8 DEF EditInv, EditFormSound
<1>10. EditTold'
  <2>1. ASSUME NEW p \in EditSlots, EditToldOf(p)
        PROVE  EditTold'
    BY <1>2, <1>5, <2>1 DEF EditTold, EditToldOf
  <2> QED
    BY <1>1, <1>6, <1>8, <2>1 DEF EditInv, EditTold
<1> QED
  BY <1>1, <1>7, <1>9, <1>10 DEF EditInv, ActiveConfigChecked


LEMMA EditFormFieldsType ==
  ASSUME EditInv
  PROVE  /\ FormFields \in EditFields
         /\ editPage.warning => FormFields.mode # EditKeep
         /\ ~editPage.warning /\ ~editPage.edited => ~RoutingRequested(FormFields)
<1>1. editPage \in EditPages
  BY DEF EditInv, EditRequestsSound
<1>2. /\ editPage.form.mode \in EditModes /\ editPage.form.cfg \in EditFragments
  BY <1>1 DEF EditPages, EditRoutings
<1>3. editPage.form.mode # EditKeep
  BY <1>2 DEF EditModes, EditKeep
<1> DEFINE m == IF editPage.warning \/ editPage.form.mode # editPage.view.mode
                THEN editPage.form.mode ELSE EditKeep
           c == IF editPage.form.mode = "caddy"
                     /\ (editPage.warning \/ editPage.form.cfg # editPage.view.cfg)
                THEN editPage.form.cfg ELSE EditKeep
<1>4. FormFields = [EditUntouched EXCEPT !.mode = m, !.cfg = c]
  BY DEF FormFields
<1>5. ~editPage.edited =>
        editPage.form.mode = editPage.view.mode /\ editPage.form.cfg = editPage.view.cfg
  BY DEF EditInv, EditFormSound, RoutingOf
<1>6. /\ m \in EditModes \cup {EditKeep} /\ c \in EditFragments \cup {EditKeep}
      /\ editPage.warning => m # EditKeep
      /\ ~editPage.warning /\ ~editPage.edited => m = EditKeep /\ c = EditKeep
  BY <1>2, <1>3, <1>5
<1> HIDE DEF m, c
<1>7. FormFields \in EditFields /\ FormFields.mode = m /\ FormFields.cfg = c
  BY <1>4, <1>6 DEF EditUntouched, EditFields
<1> QED
  BY <1>6, <1>7 DEF RoutingRequested

LEMMA EditFormSaveStep ==
  ASSUME EditInv, SaveForm
  PROVE  EditInv'
<1> DEFINE q == [EditIdle EXCEPT !.step = "load", !.op = "update", !.fields = FormFields]
<1>1. /\ editServed' = editServed /\ editRow' = editRow
      /\ editRow \in EditRows /\ editPage \in EditPages
      /\ EditRequestSound("formSave", editReq["formSave"])
      /\ editReq["formSave"].step = "idle"
  BY EditSlotFacts DEF SaveForm, EditInv, EditRequestsSound, EditAt
<1>2. ~EditToldOf("formSave") /\ ~editPage.again
  BY <1>1 DEF EditToldOf, EditRequestSound, EditInv, EditFormSound
<1>3. q \in EditRequests /\ q.step = "load" /\ q.fields = FormFields /\ q.result = ""
  BY EditFormFieldsType, EditIdleType DEF EditRequests, EditSteps
<1>4. EditBecome("formSave", q)
  BY DEF SaveForm
<1> HIDE DEF q
<1>5. EditRequestSound("formSave", q)
  BY <1>3 DEF EditRequestSound
<1>6. /\ editReq' = [p \in EditSlots |-> editReq'[p]] /\ editReq'["formSave"] = q
      /\ \A p \in EditSlots \ {"formSave"} : editReq'[p] = editReq[p]
  BY <1>4, EditBecomes, EditSlotFacts DEF EditInv
<1>7. /\ editPage' \in EditPages /\ ~editPage'.warning
      /\ editPage'.again = editPage.warning /\ editPage'.dropped = editPage.dropped
      /\ editPage'.plain => ~editPage.warning /\ ~editPage.edited
      /\ editPage'.edited = editPage.edited /\ editPage'.form = editPage.form
      /\ editPage'.view = editPage.view
  BY <1>1 DEF SaveForm, EditPages
<1>8. EditRequestsSound'
  BY <1>1, <1>5, <1>6, <1>7 DEF EditInv, EditRequestsSound
<1>9. EditFormSound'
  BY <1>3, <1>6, <1>7, EditFormFieldsType DEF EditInv, EditFormSound
<1>10. EditTold'
  <2>1. ASSUME NEW p \in EditSlots, EditToldOf(p)
        PROVE  EditTold'
    BY <1>2, <1>6, <2>1 DEF EditTold, EditToldOf
  <2> QED
    BY <1>1, <1>2, <1>3, <1>6, <1>7, <2>1 DEF EditInv, EditTold
<1> QED
  BY <1>1, <1>8, <1>9, <1>10 DEF EditInv, ActiveConfigChecked

LEMMA EditFormSavedStep ==
  ASSUME EditInv, FormSaved
  PROVE  EditInv'
<1> DEFINE q == editReq["formSave"]
<1>1. /\ editServed' = editServed /\ editRow' = editRow
      /\ editRow \in EditRows /\ editPage \in EditPages
      /\ q.step = "done" /\ ~editPage.warning
  BY EditSlotFacts DEF FormSaved, EditInv, EditRequestsSound, EditAt, EditFormSound
<1>2. EditBecome("formSave", EditIdle)
  BY DEF FormSaved
<1>3. /\ editReq' = [p \in EditSlots |-> editReq'[p]] /\ editReq'["formSave"] = EditIdle
      /\ \A p \in EditSlots \ {"formSave"} : editReq'[p] = editReq[p]
  BY <1>2, EditBecomes, EditSlotFacts DEF EditInv
<1>4. CASE q.result \in {"ok", "warning"} /\ editRow.alive
  <2>1. editPage' = [editPage EXCEPT !.view = editRow, !.form = RoutingOf(editRow),
                                     !.edited = FALSE, !.warning = (q.result = "warning"),
                                     !.again = FALSE]
    BY <1>4 DEF FormSaved
  <2>2. /\ editPage' \in EditPages /\ ~editPage'.again
        /\ editPage'.warning <=> q.result = "warning"
        /\ editPage'.dropped = editPage.dropped
        /\ editPage'.form = RoutingOf(editPage'.view)
    BY <1>1, <2>1, EditRoutingType DEF EditPages
  <2>3. EditTold'
    <3>1. ASSUME NEW p \in EditSlots, EditToldOf(p)
          PROVE  EditTold'
      <4>1. CASE p = "formSave"
        BY <1>1, <2>2, <3>1, <4>1 DEF EditTold, EditToldOf
      <4>2. CASE p # "formSave"
        BY <1>3, <3>1, <4>2 DEF EditTold, EditToldOf
      <4> QED
        BY <4>1, <4>2
    <3>2. q.result # "ok" => EditToldOf("formSave")
      BY <1>4 DEF EditToldOf
    <3> QED
      BY <1>1, <2>2, <3>1, <3>2, EditSlotFacts DEF EditInv, EditTold
  <2>4. EditFormSound'
    BY <1>3, <2>2, EditIdleType DEF EditFormSound
  <2>5. EditRequestsSound'
    BY <1>1, <1>3, <2>2, EditIdleSound DEF EditInv, EditRequestsSound
  <2> QED
    BY <1>1, <2>3, <2>4, <2>5 DEF EditInv, ActiveConfigChecked
<1>5. CASE ~(q.result \in {"ok", "warning"} /\ editRow.alive)
  <2>1. editPage' = [editPage EXCEPT !.dropped = editPage.dropped \/ editPage.again,
                                     !.again = FALSE]
    BY <1>5 DEF FormSaved
  <2>2. /\ editPage' \in EditPages /\ ~editPage'.again /\ ~editPage'.warning
        /\ editPage'.dropped <=> editPage.dropped \/ editPage.again
        /\ editPage'.form = editPage.form /\ editPage'.view = editPage.view
        /\ editPage'.edited = editPage.edited
    BY <1>1, <2>1 DEF EditPages
  <2>3. EditTold'
    <3>1. ASSUME NEW p \in EditSlots, EditToldOf(p)
          PROVE  EditTold'
      <4>1. CASE p = "formSave"
        BY <1>1, <1>5, <3>1, <4>1 DEF EditTold, EditToldOf
      <4>2. CASE p # "formSave"
        BY <1>3, <3>1, <4>2 DEF EditTold, EditToldOf
      <4> QED
        BY <4>1, <4>2
    <3> QED
      BY <1>1, <2>2, <3>1 DEF EditInv, EditTold
  <2>4. EditFormSound'
    BY <1>3, <2>2, EditIdleType DEF EditInv, EditFormSound
  <2>5. EditRequestsSound'
    BY <1>1, <1>3, <2>2, EditIdleSound DEF EditInv, EditRequestsSound
  <2> QED
    BY <1>1, <2>3, <2>4, <2>5 DEF EditInv, ActiveConfigChecked
<1> QED
  BY <1>4, <1>5

LEMMA EditInvInit == EditInit => EditInv
<1> SUFFICES ASSUME EditInit PROVE EditInv
  OBVIOUS
<1>1. PICK c \in EditValid \cup {""} : editRow = [EditNewRow EXCEPT !.cfg = c]
  BY DEF EditInit
<1>2. /\ editServed = RoutingOf(editRow)
      /\ editReq = [r \in EditSlots |-> EditIdle]
      /\ editPage = [view |-> editRow, text |-> editRow.env, form |-> RoutingOf(editRow),
                     fetched |-> <<>>, warning |-> FALSE, edited |-> FALSE, plain |-> FALSE,
                     again |-> FALSE, dropped |-> FALSE]
  BY DEF EditInit
<1>3. editRow \in EditRows /\ editRow.mode = "spa"
  BY <1>1, EditIdleType, EditAssumption DEF EditRows, EditFragments, EditNewRow
<1>4. RoutingOf(editRow) \in EditRoutings /\ editRow.env \in EditEnvs
  BY <1>3, EditRoutingType DEF EditRows
<1>5. editPage \in EditPages
  BY <1>2, <1>3, <1>4 DEF EditPages
<1>6. EditRequestsSound
  <2>1. \A r \in EditSlots : editReq[r] = EditIdle
    BY <1>2
  <2>2. editReq = [r \in EditSlots |-> editReq[r]]
    BY <1>2
  <2>3. \A r \in EditSlots : EditRequestSound(r, editReq[r])
    BY <2>1, EditIdleSound
  <2> QED
    BY <1>2, <1>3, <1>4, <1>5, <2>2, <2>3 DEF EditRequestsSound
<1>7. EditFormSound
  BY <1>2, EditSlotFacts, EditIdleType DEF EditFormSound
<1>8. ActiveConfigChecked /\ EditTold
  BY <1>2, <1>3 DEF ActiveConfigChecked, EditTold
<1> QED
  BY <1>6, <1>7, <1>8 DEF EditInv

LEMMA EditInvStep == EditInv /\ [EditNext]_EditVars => EditInv'
<1> SUFFICES ASSUME EditInv, [EditNext]_EditVars
             PROVE  EditInv'
  OBVIOUS
<1>1. CASE UNCHANGED EditVars
  BY <1>1
     DEF EditVars, EditInv, EditRequestsSound, ActiveConfigChecked, EditFormSound, EditTold,
         EditToldOf
<1>2. CASE EditNext
  BY <1>2, EditHandlesStep, EditPageStep, EditEnvSaveStep, EditFormSaveStep, EditFormSavedStep
     DEF EditNext
<1> QED
  BY <1>1, <1>2

LEMMA EditInvSound == EditInv => EditsAreSound
<1> SUFFICES ASSUME EditInv PROVE EditsAreSound
  OBVIOUS
<1>1. /\ editRow \in EditRows /\ editServed \in EditRoutings /\ editPage \in EditPages
      /\ \A r \in EditSlots : editReq[r] \in EditRequests
  BY DEF EditInv, EditRequestsSound, EditRequestSound
<1>2. ASSUME NEW r \in EditSlots, NEW i \in DOMAIN editReq[r].fields.env
      PROVE  editReq[r].fields.env[i] \in EditEnvs
  <2> DEFINE env == editReq[r].fields.env
  <2>1. env \in {<<>>} \cup {<<e>> : e \in EditEnvs}
    BY <1>1 DEF EditRequests, EditFields
  <2>2. i \in DOMAIN env
    BY <1>2
  <2> HIDE DEF env
  <2>3. PICK e \in EditEnvs : env = <<e>>
    BY <2>1, <2>2
  <2>4. env[i] = e
    BY <2>2, <2>3
  <2> QED
    BY <2>4 DEF env
<1>3. EditTypeOK
  <2>1. ASSUME NEW r \in EditSlots
        PROVE  /\ editReq[r].step \in EditSteps /\ editReq[r].fields \in EditFields
               /\ editReq[r].seen \in EditRows /\ editReq[r].tries \in 0 .. EditAttempts - 1
    BY <1>1 DEF EditRequests
  <2> QED
    BY <1>1, <1>2, <2>1 DEF EditTypeOK, EditSteps, EditPages, EditFields
<1>4. FailureIsShown
  BY DEF EditInv, EditTold, EditToldOf, FailureIsShown, EditAt
<1> QED
  BY <1>3, <1>4 DEF EditInv, EditsAreSound

(* In every interleaving of edits, deletion and the page: the active fragment
   was checked, and what Caddy was not given is being delivered or complained
   of (editEnv, update and the editors of ServiceDetail.vue). *)
THEOREM EditsAreSoundHolds == EditSpec => []EditsAreSound
BY EditInvInit, EditInvStep, EditInvSound, PTL DEF EditSpec


(* A request that is at a swap leaves it by its own step only. *)
LEMMA EditSwapKeeps ==
  ASSUME EditInv, [EditNext]_EditVars
  PROVE  EditLeavesOtherNames
<1> SUFFICES ASSUME NEW r \in EditClis, EditAt(r, "swap"), EditAt(r, "done")',
                    NEW n \in EditNames \ {editReq[r].name}
             PROVE  editRow'.env[n] = editRow.env[n]
  BY DEF EditLeavesOtherNames
<1>1. /\ r \in EditSlots /\ editReq[r].step = "swap" /\ editReq'[r].step = "done"
      /\ r # "formSave" /\ r # "envSave"
  BY EditSlotFacts DEF EditAt
<1>2. /\ editReq[r].name \in EditNames /\ editReq[r].seen.env \in EditEnvs
      /\ editRow \in EditRows
  <2>1. EditRequestSound(r, editReq[r]) /\ editRow \in EditRows
    BY <1>1 DEF EditInv, EditRequestsSound
  <2> QED
    BY <1>1, <2>1 DEF EditRequestSound, EditRequests, EditRows
<1>3. ASSUME NEW p \in EditSlots, NEW q, EditBecome(p, q), p # r
      PROVE  FALSE
  <2>1. editReq'[r] = editReq[r]
    BY <1>1, <1>3, EditBecomes DEF EditInv
  <2> QED
    BY <1>1, <2>1
<1>4. CASE EnvEditSwap(r)
  <2>1. CASE SwapHolds(r) /\ editRow' = [editRow EXCEPT !.env = Edited(r)]
    <3>1. editRow.env = editReq[r].seen.env /\ editRow'.env = Edited(r)
      BY <1>2, <2>1 DEF SwapHolds, EditRows
    <3>2. Edited(r)[n] = editReq[r].seen.env[n]
      BY <1>2 DEF Edited, EditEnvs
    <3> QED
      BY <3>1, <3>2
  <2>2. CASE editRow' = editRow
    BY <2>2
  <2> QED
    BY <1>4, <2>1, <2>2 DEF EnvEditSwap
<1>5. CASE editReq' = editReq
  BY <1>1, <1>5
<1>6. CASE editRow' = editRow
  BY <1>6
<1>7. ASSUME NEW p \in EditSlots, EnvEditSwap(p) \/ UpdateWrite(p), p # r
      PROVE  FALSE
  <2>1. EditInv /\ \E q : EditMoved(p, q)
    BY <1>7, EnvEditMoves, UpdateWrites
  <2> QED
    BY <1>3, <1>7, <2>1 DEF EditMoved
<1>8. CASE EditNext
  <2>1. CASE \E p \in EditSlots : EnvEditSwap(p) \/ UpdateWrite(p)
    <3>1. PICK p \in EditSlots : EnvEditSwap(p) \/ UpdateWrite(p)
      BY <2>1
    <3>2. p = r
      BY <1>7, <3>1
    <3> QED
      BY <1>1, <1>4, <3>1, <3>2 DEF UpdateWrite, EditAt
  <2>2. CASE EditDelete
    BY <1>5, <2>2 DEF EditDelete
  <2>3. CASE ~EditDelete /\ ~(\E p \in EditSlots : EnvEditSwap(p) \/ UpdateWrite(p))
    <3>1. editRow' = editRow
      BY <1>8, <2>3
         DEF EditNext, EditHandles, EnvEditStart, CliUpdate, EnvEditRead, UpdateLoad, UpdateCheck,
             UpdateDeliver, TypeEnv, PickRouting, SaveEnv, EnvSaved, SaveForm, FormSaved,
             PageFetch, PageShow
    <3> QED
      BY <3>1
  <2> QED
    BY <2>1, <2>2, <2>3
<1> QED
  BY <1>5, <1>8 DEF EditVars

(* So does the form; one that was left as displayed asks for no routing. *)
LEMMA EditFormKeeps ==
  ASSUME EditInv, [EditNext]_EditVars
  PROVE  FormLeavesRouting
<1> SUFFICES ASSUME EditAt("formSave", "write"), ~EditAt("formSave", "write")', editPage.plain
             PROVE  RoutingOf(editRow') = RoutingOf(editRow)
  BY DEF FormLeavesRouting
<1> DEFINE f == editReq["formSave"].fields
<1>1. editReq["formSave"].step = "write" /\ editReq'["formSave"].step # "write"
  BY DEF EditAt
<1>2. ~RoutingRequested(f) /\ editRow \in EditRows
  BY <1>1 DEF EditInv, EditFormSound, EditRequestsSound
<1>3. ASSUME NEW p \in EditSlots, EnvEditSwap(p) \/ UpdateWrite(p), p # "formSave"
      PROVE  FALSE
  <2>1. PICK q : EditMoved(p, q)
    BY <1>3, EnvEditMoves, UpdateWrites
  <2>2. editReq'["formSave"] = editReq["formSave"]
    BY <1>3, <2>1, EditBecomes, EditSlotFacts DEF EditMoved, EditInv
  <2> QED
    BY <1>1, <2>2
<1>4. CASE \E p \in EditSlots : EnvEditSwap(p) \/ UpdateWrite(p)
  <2>1. UpdateWrite("formSave")
    BY <1>1, <1>3, <1>4 DEF EnvEditSwap, EditAt
  <2>2. EditWanted(f, editRow) = RoutingOf(editRow)
    BY <1>2 DEF RoutingRequested, EditWanted, RoutingOf
  <2>3. CASE editRow' = editRow
    BY <2>3
  <2>4. CASE RoutingUnchanged("formSave")
    <3>1. editRow' = [editRow EXCEPT !.env = IF f.env = <<>> THEN @ ELSE f.env[1],
                                     !.mode = editRow.mode, !.cfg = editRow.cfg]
      BY <2>1, <2>2, <2>4 DEF UpdateWrite, RoutingOf
    <3> QED
      BY <1>2, <3>1 DEF EditRows, RoutingOf
  <2> QED
    BY <2>1, <2>3, <2>4 DEF UpdateWrite
<1>5. CASE ~(\E p \in EditSlots : EnvEditSwap(p) \/ UpdateWrite(p))
  <2>1. editRow' = editRow \/ editRow' = [editRow EXCEPT !.alive = FALSE]
    BY <1>5
       DEF EditNext, EditHandles, EnvEditStart, CliUpdate, EnvEditRead, UpdateLoad, UpdateCheck,
           UpdateDeliver, EditDelete, TypeEnv, PickRouting, SaveEnv, EnvSaved, SaveForm,
           FormSaved, PageFetch, PageShow, EditVars
  <2> QED
    BY <1>2, <2>1 DEF EditRows, RoutingOf
<1> QED
  BY <1>4, <1>5

(* An edit of one variable leaves the others as they are, and a form that was
   sent with the routing as displayed writes no routing (editEnv, update and
   the settings form of ServiceDetail.vue). *)
THEOREM EditKeepsOthersHolds == EditSpec => EditKeepsOthers
<1>1. EditInv /\ [EditNext]_EditVars => [EditLeavesOtherNames /\ FormLeavesRouting]_EditVars
  BY EditSwapKeeps, EditFormKeeps
<1> QED
  BY <1>1, EditInvInit, EditInvStep, PTL DEF EditSpec, EditKeepsOthers

-----------------------------------------------------------------------------
(***************************************************************************)
(* StartUp                                                                 *)
(***************************************************************************)

BootSteps == {"down", "renames", "forget", "find", "repo", "service", "route", "address", "list",
              "next", "policy", "stop", "remove", "create", "start", "record", "fail", "serving"}

(* A container is being replaced. *)
BootMigrating == {"policy", "stop", "remove", "create", "start", "record", "fail"}
BootMigrates(s, steps) == s = boot.service /\ boot.step \in steps

BootStatus == [status : {"running", "stopped", "failed"}, active : BOOLEAN, recorded : BOOLEAN,
               port : BOOLEAN, plain : BOOLEAN]
BootProcess == [step : BootSteps, todo : SUBSET BootServices, service : BootServices \cup {0},
                found : SUBSET BootBoxes]

BootAtMostOne(set) == \A b, c \in set : b = c
BootRunning(set) == \E b \in set : b.running

BootTypes ==
  /\ bootRow \in [BootServices -> BootStatus]
  /\ bootBox \in [BootServices -> SUBSET BootBoxes]
  /\ bootWas \in [BootServices -> SUBSET BootBoxes]
  /\ boot \in BootProcess
  /\ bootCrashes \in 0 .. BootCrashes
  /\ bootNotes \subseteq BootRenames

(* What was inspected is what the replacement will be. *)
BootFound ==
  /\ BootAtMostOne(boot.found)
  /\ \A s \in BootServices : BootAtMostOne(bootBox[s])
  /\ boot.step \in BootMigrating => boot.service \in BootServices \ boot.todo /\ boot.found # {} /\ bootRow[boot.service].plain
  /\ boot.step \in {"start", "record"} => bootBox[boot.service] # {}

(* Ports that are published belong to containers still to be inspected, to the
   one that is being replaced, or to those that are passed over. *)
BootPorts ==
  /\ boot.step \in BootMigrating \cup {"next", "serving"} =>
       \A s \in BootServices : \A b \in bootBox[s] :
         b.public => s \in boot.todo \/ BootMigrates(s, {"policy", "stop", "remove"}) \/ ~bootRow[s].plain
  /\ boot.step = "serving" => boot.todo = {}

(* What runs ran before; a replacement only of an active service. *)
BootRunsBefore(s) ==
  /\ \A b \in bootBox[s] : b.running =>
       \E w \in bootWas[s] : w.running /\ (w.public /\ ~b.public => bootRow[s].active)
  /\ BootMigrates(s, BootMigrating) /\ BootRunning(boot.found) => BootRunning(bootWas[s])

(* The service should run: it ran, is active, and no step for it failed; so
   should a container that is passed over. *)
BootShouldRun(s) ==
  /\ s \notin bootHurt /\ BootRunning(bootWas[s])
  /\ bootRow[s].plain => bootRow[s].active /\ bootRow[s].status # "failed"

(* Then it runs, or what was inspected did; and it comes back with the host. *)
BootRunsAgain(s) ==
  BootShouldRun(s) =>
    /\ BootRunning(bootBox[s]) \/ BootMigrates(s, {"remove", "create", "start", "fail"})
    /\ BootMigrates(s, {"policy", "stop", "remove", "create", "start"}) => BootRunning(boot.found)

BootPolicyKept(s) ==
  s \notin bootHurt =>
    /\ ~BootMigrates(s, {"stop", "remove"}) => \A b \in bootBox[s] : b.policy = "unless-stopped"
    /\ BootMigrates(s, BootMigrating) => \A b \in boot.found : b.policy = "unless-stopped"

BootServiceSound(s) == BootRunsBefore(s) /\ BootRunsAgain(s) /\ BootPolicyKept(s)

(* The built-in service by the step; every repetition of its first insert
   costs a crash. *)
BootBuiltInSound ==
  /\ bootBuiltIn \in [repos : Nat, services : {0, 1}, routes : {0, 1}]
  /\ bootBuiltIn.routes <= bootBuiltIn.services
  /\ boot.step \in {"repo", "service"} => bootBuiltIn.services = 0
  /\ boot.step = "route" => bootBuiltIn.services = 1 /\ bootBuiltIn.routes = 0
  /\ bootBuiltIn.services = 0 =>
       boot.step \in {"down", "renames", "forget", "find", "repo", "service"}
  /\ bootBuiltIn.services = 1 /\ boot.step # "route" =>
       bootBuiltIn.routes = 1 \/ 0 \in bootHurt
  /\ bootBuiltIn.repos <= bootCrashes
       + (IF bootBuiltIn.services = 1 \/ boot.step = "service" THEN 1 ELSE 0)

BootInv ==
  /\ BootTypes /\ BootFound /\ BootPorts /\ BootBuiltInSound /\ RenamesLogged
  /\ \A s \in BootServices : BootServiceSound(s)

-----------------------------------------------------------------------------

LEMMA BootInvInit == BootInit => BootInv
<1> SUFFICES ASSUME BootInit PROVE BootInv
  OBVIOUS
<1>1. /\ bootBox \in [BootServices -> {{}} \cup {{[public |-> p, running |-> r, policy |-> "unless-stopped"]} : p, r \in BOOLEAN}]
      /\ bootWas = bootBox /\ boot = BootDown /\ bootCrashes = 0 /\ bootHurt = {}
      /\ bootNotes = BootRenames /\ bootBuiltIn = [repos |-> 0, services |-> 0, routes |-> 0]
  BY DEF BootInit
<1>2. ASSUME NEW s \in BootServices
      PROVE  /\ bootBox[s] \in SUBSET BootBoxes /\ BootAtMostOne(bootBox[s])
             /\ \A b \in bootBox[s] : b.policy = "unless-stopped"
  <2>1. bootBox[s] = {} \/ \E p, r \in BOOLEAN : bootBox[s] = {[public |-> p, running |-> r, policy |-> "unless-stopped"]}
    BY <1>1
  <2> QED
    BY <2>1 DEF BootBoxes, BootAtMostOne
<1>3. \E plain \in SUBSET BootServices : \E active \in SUBSET plain :
        bootRow = [s \in BootServices |-> BootFirstRow(s, active, plain)]
  BY DEF BootInit
<1>4. bootRow \in [BootServices -> BootStatus]
  <2>1. ASSUME NEW plain, NEW active, NEW s \in BootServices
        PROVE  BootFirstRow(s, active, plain) \in BootStatus
    BY DEF BootStatus, BootFirstRow
  <2> QED
    BY <1>3, <2>1
<1>5. bootBox \in [BootServices -> SUBSET BootBoxes]
  BY <1>1, <1>2
<1>6. boot \in BootProcess /\ boot.step = "down" /\ boot.found = {} /\ BootAtMostOne(boot.found)
  BY <1>1 DEF BootDown, BootProcess, BootSteps, BootAtMostOne
<1>7. BootTypes
  BY <1>1, <1>4, <1>5, <1>6, BootAssumption DEF BootTypes
<1>8. BootFound /\ BootPorts
  BY <1>2, <1>6 DEF BootFound, BootPorts, BootMigrating
<1>9. BootBuiltInSound /\ RenamesLogged
  BY <1>1, <1>6 DEF BootBuiltInSound, RenamesLogged
<1>10. ASSUME NEW s \in BootServices
       PROVE  BootServiceSound(s)
  <2>1. \A steps : "down" \notin steps => ~BootMigrates(s, steps)
    BY <1>6 DEF BootMigrates
  <2>2. BootRunsBefore(s)
    BY <1>1, <1>2, <2>1 DEF BootRunsBefore, BootMigrating
  <2>3. BootRunsAgain(s)
    BY <1>1, <2>1 DEF BootRunsAgain, BootShouldRun
  <2>4. BootPolicyKept(s)
    BY <1>2, <2>1 DEF BootPolicyKept, BootMigrating
  <2> QED
    BY <2>2, <2>3, <2>4 DEF BootServiceSound
<1> QED
  BY <1>7, <1>8, <1>9, <1>10 DEF BootInv

-----------------------------------------------------------------------------

(* The steps of bootstrap touch no container. *)
LEMMA BootUntouched ==
  ASSUME BootInv, NEW next \in BootSteps \ (BootMigrating \cup {"next", "serving"}),
         bootRow' = bootRow, bootBox' = bootBox, bootWas' = bootWas,
         bootHurt' = bootHurt, BootGoes(next), boot.step \notin BootMigrating
  PROVE  /\ boot' \in BootProcess /\ boot'.step = next
         /\ BootFound' /\ BootPorts' /\ \A s \in BootServices : BootServiceSound(s)'
<1>1. boot \in BootProcess /\ boot' = [boot EXCEPT !.step = next]
  BY DEF BootInv, BootTypes, BootGoes
<1>2. /\ boot' \in BootProcess /\ boot'.step = next /\ boot'.found = boot.found
      /\ boot'.service = boot.service
  BY <1>1 DEF BootProcess
<1>3. BootFound'
  BY <1>2 DEF BootInv, BootFound, BootMigrating
<1>4. BootPorts'
  BY <1>2 DEF BootPorts
<1>5. ASSUME NEW s \in BootServices
      PROVE  BootServiceSound(s)'
  <2>1. BootServiceSound(s)
    BY DEF BootInv
  <2>2. (boot'.step \notin BootMigrating) /\ (boot.step \notin BootMigrating)
    BY <1>2
  <2> QED
    BY <1>2, <2>1, <2>2
       DEF BootServiceSound, BootRunsBefore, BootRunsAgain, BootPolicyKept, BootShouldRun,
           BootRunning, BootMigrates, BootMigrating
<1> QED
  BY <1>2, <1>3, <1>4, <1>5

(* A step of a replacement changes the row and the container of one service. *)
LEMMA BootMigrationStep ==
  ASSUME BootInv, boot.step \in BootMigrating,
         NEW next \in {"stop", "remove", "create", "start", "record", "fail", "next"}, BootGoes(next),
         NEW box \in SUBSET BootBoxes, BootAtMostOne(box), NEW row \in BootStatus,
         bootBox' = [bootBox EXCEPT ![boot.service] = box],
         bootRow' = [bootRow EXCEPT ![boot.service] = row],
         BootMoves,
         next \in {"start", "record"} => box # {}, row.plain,
         next \notin {"stop", "remove"} => \A b \in box : ~b.public,
         /\ boot.service \in BootServices /\ boot' = [boot EXCEPT !.step = next]
         /\ bootBox'[boot.service] = box /\ bootRow'[boot.service] = row
         => BootServiceSound(boot.service)'
  PROVE  BootInv'
<1>1. /\ boot \in BootProcess /\ boot' = [boot EXCEPT !.step = next]
      /\ boot.service \in BootServices
  BY DEF BootInv, BootTypes, BootGoes, BootFound
<1>2. /\ boot' \in BootProcess /\ boot'.step = next /\ boot'.found = boot.found
      /\ boot'.service = boot.service /\ boot'.todo = boot.todo
  BY <1>1 DEF BootProcess, BootSteps
<1>3. /\ bootWas' = bootWas /\ bootCrashes' = bootCrashes /\ bootHurt' = bootHurt
      /\ bootBuiltIn' = bootBuiltIn /\ bootNotes' = bootNotes /\ bootLogged' = bootLogged
  BY DEF BootMoves, BootRest, BootNames
<1>4. /\ bootBox \in [BootServices -> SUBSET BootBoxes] /\ bootRow \in [BootServices -> BootStatus]
      /\ bootBox'[boot.service] = box /\ bootRow'[boot.service] = row
      /\ \A s \in BootServices : s # boot.service =>
           bootBox'[s] = bootBox[s] /\ bootRow'[s] = bootRow[s]
  BY <1>1 DEF BootInv, BootTypes
<1>5. BootTypes'
  BY <1>1, <1>2, <1>3, <1>4 DEF BootInv, BootTypes
<1>6. BootFound'
  BY <1>1, <1>2, <1>4 DEF BootInv, BootFound, BootMigrating
<1>7. BootPorts'
  <2>1. \A s \in BootServices : \A b \in bootBox[s] :
          b.public => s \in boot.todo \/ BootMigrates(s, {"policy", "stop", "remove"}) \/ ~bootRow[s].plain
    BY DEF BootInv, BootPorts
  <2> QED
    BY <1>2, <1>4, <2>1 DEF BootPorts, BootMigrates
<1>8. BootBuiltInSound' /\ RenamesLogged'
  BY <1>2, <1>3 DEF BootInv, BootBuiltInSound, RenamesLogged, BootMigrating
<1>9. ASSUME NEW s \in BootServices
      PROVE  BootServiceSound(s)'
  <2>1. CASE s = boot.service
    BY <1>1, <1>4, <2>1
  <2>2. CASE s # boot.service
    <3>1. BootServiceSound(s) /\ bootBox'[s] = bootBox[s] /\ bootRow'[s] = bootRow[s]
      BY <1>4, <2>2 DEF BootInv
    <3>2. \A steps : ~BootMigrates(s, steps) /\ ~BootMigrates(s, steps)'
      BY <1>2, <2>2 DEF BootMigrates
    <3> QED
      BY <1>3, <3>1, <3>2
         DEF BootServiceSound, BootRunsBefore, BootRunsAgain, BootPolicyKept, BootShouldRun, BootRunning
  <2> QED
    BY <2>1, <2>2
<1> QED
  BY <1>5, <1>6, <1>7, <1>8, <1>9 DEF BootInv

(* A step of a replacement, as seen by its service. *)
LEMMA BootHere ==
  ASSUME BootInv, boot.step \in BootMigrating, NEW next \in BootSteps,
         boot' = [boot EXCEPT !.step = next], BootMoves
  PROVE  LET s == boot.service
         IN /\ s \in BootServices /\ BootServiceSound(s) /\ boot'.service = s
            /\ boot'.step = next /\ boot'.found = boot.found /\ boot.found # {}
            /\ bootWas' = bootWas /\ bootHurt' = bootHurt
            /\ bootBox[s] \in SUBSET BootBoxes /\ BootAtMostOne(bootBox[s])
            /\ bootRow[s] \in BootStatus /\ bootRow[s].plain
            /\ boot.found \in SUBSET BootBoxes /\ BootAtMostOne(boot.found)
            /\ bootBox = [bootBox EXCEPT ![s] = bootBox[s]]
            /\ bootRow = [bootRow EXCEPT ![s] = bootRow[s]]
            /\ boot.step \in {"create", "start", "record", "fail"} => \A b \in bootBox[s] : ~b.public
            /\ boot.step \in {"start", "record"} => bootBox[s] # {}
<1>1. boot \in BootProcess /\ boot.service \in BootServices
  BY DEF BootInv, BootTypes, BootFound
<1>2. /\ boot'.service = boot.service /\ boot'.step = next /\ boot'.found = boot.found
      /\ boot.found \in SUBSET BootBoxes
  BY <1>1 DEF BootProcess
<1>3. /\ bootBox \in [BootServices -> SUBSET BootBoxes] /\ bootRow \in [BootServices -> BootStatus]
      /\ bootWas' = bootWas /\ bootHurt' = bootHurt
  BY DEF BootInv, BootTypes, BootMoves, BootRest
<1>4. /\ bootBox[boot.service] \in SUBSET BootBoxes /\ bootRow[boot.service] \in BootStatus
      /\ bootBox = [bootBox EXCEPT ![boot.service] = bootBox[boot.service]]
      /\ bootRow = [bootRow EXCEPT ![boot.service] = bootRow[boot.service]]
  BY <1>1, <1>3
<1>5. boot.step \in {"create", "start", "record", "fail"} =>
        \A b \in bootBox[boot.service] : ~b.public
  <2>1. boot.step \in {"create", "start", "record", "fail"} =>
          \A b \in bootBox[boot.service] : b.public => boot.service \in boot.todo
    BY <1>1 DEF BootInv, BootFound, BootPorts, BootMigrates, BootMigrating
  <2> QED
    BY <2>1 DEF BootInv, BootFound, BootMigrating
<1>6. BootServiceSound(boot.service) /\ boot.found # {} /\ BootAtMostOne(boot.found) /\ BootAtMostOne(bootBox[boot.service])
      /\ bootRow[boot.service].plain
      /\ (boot.step \in {"start", "record"} => bootBox[boot.service] # {})
  BY <1>1 DEF BootInv, BootFound
<1> QED
  BY <1>1, <1>2, <1>3, <1>4, <1>5, <1>6

LEMMA BootPolicyKeeps == BootInv /\ BootPolicy => BootInv'
<1> SUFFICES ASSUME BootInv, BootPolicy PROVE BootInv'
  OBVIOUS
<1> DEFINE box == {[b EXCEPT !.policy = "no"] : b \in BootBox}
           s == boot.service
<1>1. /\ boot.step = "policy" /\ BootGoes("stop") /\ boot' = [boot EXCEPT !.step = "stop"]
      /\ BootMoves /\ bootRow' = bootRow /\ bootBox' = [bootBox EXCEPT ![s] = box]
  BY DEF BootPolicy, BootAt, BootGoes, BootChangesBox
<1>2. "stop" \in BootSteps /\ boot.step \in BootMigrating
  BY <1>1 DEF BootSteps, BootMigrating
<1>3. /\ BootServiceSound(s) /\ boot'.service = s /\ boot'.step = "stop" /\ boot'.found = boot.found
      /\ bootWas' = bootWas /\ bootHurt' = bootHurt /\ bootRow[s] \in BootStatus /\ bootRow[s].plain
      /\ bootBox[s] \in SUBSET BootBoxes /\ BootAtMostOne(bootBox[s])
      /\ bootRow = [bootRow EXCEPT ![s] = bootRow[s]]
  BY <1>1, <1>2, BootHere
<1>4. box \in SUBSET BootBoxes /\ BootAtMostOne(box)
  <2>1. ASSUME NEW b \in box
        PROVE  b \in BootBoxes
    <3>1. PICK c \in bootBox[s] : b = [c EXCEPT !.policy = "no"]
      BY DEF BootBox
    <3> QED
      BY <1>3, <3>1 DEF BootBoxes
  <2>2. BootAtMostOne(box)
    BY <1>3 DEF BootBox, BootAtMostOne
  <2> QED
    BY <2>1, <2>2
<1>5. ASSUME bootBox'[s] = box, bootRow'[s] = bootRow[s]
      PROVE  BootServiceSound(boot.service)'
  <2>1. ASSUME NEW b \in box
        PROVE  \E c \in bootBox[s] : b.running = c.running /\ b.public = c.public
    <3>1. PICK c \in bootBox[s] : b = [c EXCEPT !.policy = "no"]
      BY DEF BootBox
    <3>2. b.running = c.running /\ b.public = c.public
      BY <1>3, <3>1 DEF BootBoxes
    <3> QED
      BY <3>2
  <2>2. ASSUME NEW c \in bootBox[s]
        PROVE  \E b \in box : b.running = c.running
    <3>1. [c EXCEPT !.policy = "no"] \in box
      BY DEF BootBox
    <3>2. [c EXCEPT !.policy = "no"].running = c.running
      BY <1>3 DEF BootBoxes
    <3> QED
      BY <3>1, <3>2
  <2> HIDE DEF box
  <2>3. BootRunsBefore(boot.service)'
    BY <1>1, <1>3, <1>5, <2>1 DEF BootServiceSound, BootRunsBefore, BootRunning, BootMigrates, BootMigrating
  <2>4. BootRunsAgain(boot.service)'
    BY <1>1, <1>3, <1>5, <2>2 DEF BootServiceSound, BootRunsAgain, BootShouldRun, BootRunning, BootMigrates
  <2>5. BootPolicyKept(boot.service)'
    BY <1>1, <1>3, <1>5 DEF BootServiceSound, BootPolicyKept, BootMigrates, BootMigrating
  <2> QED
    BY <2>3, <2>4, <2>5 DEF BootServiceSound
<1> QED
  <2> HIDE DEF box
  <2> QED
    BY <1>1, <1>2, <1>3, <1>4, <1>5, BootMigrationStep

LEMMA BootStopKeeps == BootInv /\ BootStop => BootInv'
<1> SUFFICES ASSUME BootInv, BootStop PROVE BootInv'
  OBVIOUS
<1> DEFINE box == {[b EXCEPT !.running = FALSE] : b \in BootBox}
           s == boot.service
<1>1. /\ boot.step = "stop" /\ BootGoes("remove") /\ boot' = [boot EXCEPT !.step = "remove"]
      /\ BootMoves /\ bootRow' = bootRow /\ bootBox' = [bootBox EXCEPT ![s] = box]
  BY DEF BootStop, BootAt, BootGoes, BootChangesBox
<1>2. "remove" \in BootSteps /\ boot.step \in BootMigrating
  BY <1>1 DEF BootSteps, BootMigrating
<1>3. /\ BootServiceSound(s) /\ boot'.service = s /\ boot'.step = "remove" /\ boot'.found = boot.found
      /\ bootWas' = bootWas /\ bootHurt' = bootHurt /\ bootRow[s] \in BootStatus /\ bootRow[s].plain
      /\ bootBox[s] \in SUBSET BootBoxes /\ BootAtMostOne(bootBox[s])
      /\ boot.found \in SUBSET BootBoxes /\ BootAtMostOne(boot.found) /\ boot.found # {}
      /\ bootBox = [bootBox EXCEPT ![s] = bootBox[s]]
      /\ bootRow = [bootRow EXCEPT ![s] = bootRow[s]]
  BY <1>1, <1>2, BootHere
<1>4. box \in SUBSET BootBoxes /\ BootAtMostOne(box) /\ \A b \in box : ~b.running
  <2>1. ASSUME NEW b \in box
        PROVE  b \in BootBoxes /\ ~b.running
    <3>1. PICK c \in bootBox[s] : b = [c EXCEPT !.running = FALSE]
      BY DEF BootBox
    <3>2. c \in BootBoxes
      BY <1>3
    <3> QED
      BY <3>1, <3>2 DEF BootBoxes
  <2>2. BootAtMostOne(box)
    BY <1>3 DEF BootBox, BootAtMostOne
  <2> QED
    BY <2>1, <2>2
<1>5. ASSUME bootBox'[s] = box, bootRow'[s] = bootRow[s]
      PROVE  BootServiceSound(boot.service)'
  <2> HIDE DEF box
  <2>1. BootRunsBefore(boot.service)'
    BY <1>1, <1>3, <1>4, <1>5 DEF BootServiceSound, BootRunsBefore, BootRunning, BootMigrates, BootMigrating
  <2>2. BootRunsAgain(boot.service)'
    BY <1>1, <1>3, <1>5 DEF BootServiceSound, BootRunsAgain, BootShouldRun, BootRunning, BootMigrates
  <2>3. BootPolicyKept(boot.service)'
    BY <1>1, <1>3, <1>5 DEF BootServiceSound, BootPolicyKept, BootMigrates, BootMigrating
  <2> QED
    BY <2>1, <2>2, <2>3 DEF BootServiceSound
<1> QED
  <2> HIDE DEF box
  <2> QED
    BY <1>1, <1>2, <1>3, <1>4, <1>5, BootMigrationStep

LEMMA BootRemoveKeeps == BootInv /\ BootRemove => BootInv'
<1> SUFFICES ASSUME BootInv, BootRemove PROVE BootInv'
  OBVIOUS
<1> DEFINE s == boot.service
<1>1. /\ boot.step = "remove" /\ BootGoes("create") /\ boot' = [boot EXCEPT !.step = "create"]
      /\ BootMoves /\ bootRow' = bootRow /\ bootBox' = [bootBox EXCEPT ![s] = {}]
  BY DEF BootRemove, BootAt, BootGoes, BootChangesBox
<1>2. "create" \in BootSteps /\ boot.step \in BootMigrating
  BY <1>1 DEF BootSteps, BootMigrating
<1>3. /\ BootServiceSound(s) /\ boot'.service = s /\ boot'.step = "create" /\ boot'.found = boot.found
      /\ bootWas' = bootWas /\ bootHurt' = bootHurt /\ bootRow[s] \in BootStatus /\ bootRow[s].plain
      /\ bootBox[s] \in SUBSET BootBoxes /\ BootAtMostOne(bootBox[s])
      /\ boot.found \in SUBSET BootBoxes /\ BootAtMostOne(boot.found) /\ boot.found # {}
      /\ bootBox = [bootBox EXCEPT ![s] = bootBox[s]]
      /\ bootRow = [bootRow EXCEPT ![s] = bootRow[s]]
  BY <1>1, <1>2, BootHere
<1>4. {} \in SUBSET BootBoxes /\ BootAtMostOne({}) /\ \A b \in {} : ~b.public
  BY DEF BootAtMostOne
<1>5. ASSUME bootBox'[s] = {}, bootRow'[s] = bootRow[s]
      PROVE  BootServiceSound(boot.service)'
  <2>1. BootRunsBefore(boot.service)'
    BY <1>1, <1>3, <1>5 DEF BootServiceSound, BootRunsBefore, BootRunning, BootMigrates, BootMigrating
  <2>2. BootRunsAgain(boot.service)'
    BY <1>1, <1>3, <1>5 DEF BootServiceSound, BootRunsAgain, BootShouldRun, BootRunning, BootMigrates
  <2>3. BootPolicyKept(boot.service)'
    BY <1>1, <1>3, <1>5 DEF BootServiceSound, BootPolicyKept, BootMigrates, BootMigrating
  <2> QED
    BY <2>1, <2>2, <2>3 DEF BootServiceSound
<1> QED
  BY <1>1, <1>2, <1>3, <1>4, <1>5, BootMigrationStep

LEMMA BootReplaceKeeps == BootInv /\ BootReplace => BootInv'
<1> SUFFICES ASSUME BootInv, BootReplace PROVE BootInv'
  OBVIOUS
<1> DEFINE s == boot.service
<1>1. /\ boot.step = "create" /\ BootMoves /\ bootRow' = bootRow
      /\ \/ BootGoes("start") /\ bootBox' = [bootBox EXCEPT ![s] = BootReplacement]
         \/ BootGoes("fail") /\ bootBox' = bootBox
  BY DEF BootReplace, BootAt, BootChangesBox
<1>2. "start" \in BootSteps /\ "fail" \in BootSteps /\ boot.step \in BootMigrating
  BY <1>1 DEF BootSteps, BootMigrating
<1>3. CASE BootGoes("start") /\ bootBox' = [bootBox EXCEPT ![s] = BootReplacement]
  <2>1. boot' = [boot EXCEPT !.step = "start"]
    BY <1>3 DEF BootGoes
  <2>2. /\ BootServiceSound(s) /\ boot'.service = s /\ boot'.step = "start" /\ boot'.found = boot.found
        /\ bootWas' = bootWas /\ bootHurt' = bootHurt /\ bootRow[s] \in BootStatus /\ bootRow[s].plain
        /\ bootBox[s] \in SUBSET BootBoxes /\ BootAtMostOne(bootBox[s])
        /\ boot.found \in SUBSET BootBoxes /\ BootAtMostOne(boot.found) /\ boot.found # {}
        /\ bootBox = [bootBox EXCEPT ![s] = bootBox[s]]
        /\ bootRow = [bootRow EXCEPT ![s] = bootRow[s]]
    BY <1>1, <1>2, <2>1, BootHere
  <2>3. ASSUME NEW b \in BootReplacement
        PROVE  \E c \in boot.found : b = [public |-> FALSE, running |-> FALSE, policy |-> c.policy]
    BY DEF BootReplacement
  <2>4. /\ BootReplacement \in SUBSET BootBoxes /\ BootAtMostOne(BootReplacement)
        /\ BootReplacement # {} /\ \A b \in BootReplacement : ~b.running /\ ~b.public
    <3>1. ASSUME NEW b \in BootReplacement
          PROVE  b \in BootBoxes /\ ~b.running /\ ~b.public
      <4>1. PICK c \in boot.found : b = [public |-> FALSE, running |-> FALSE, policy |-> c.policy]
        BY <2>3
      <4>2. c.policy \in {"unless-stopped", "no"}
        BY <2>2 DEF BootBoxes
      <4> QED
        BY <4>1, <4>2 DEF BootBoxes
    <3>2. BootAtMostOne(BootReplacement)
      BY <2>2, <2>3 DEF BootAtMostOne
    <3>3. BootReplacement # {}
      <4>1. PICK c \in boot.found : TRUE
        BY <2>2
      <4>2. [public |-> FALSE, running |-> FALSE, policy |-> c.policy] \in BootReplacement
        BY DEF BootReplacement
      <4> QED
        BY <4>2
    <3> QED
      BY <3>1, <3>2, <3>3
  <2>5. ASSUME \A b \in boot.found : b.policy = "unless-stopped"
        PROVE  \A b \in BootReplacement : b.policy = "unless-stopped"
    BY <2>2, <2>3, <2>5
  <2>6. ASSUME bootBox'[s] = BootReplacement, bootRow'[s] = bootRow[s]
        PROVE  BootServiceSound(boot.service)'
    <3>1. BootRunsBefore(boot.service)'
      BY <1>1, <2>2, <2>4, <2>6 DEF BootServiceSound, BootRunsBefore, BootRunning, BootMigrates, BootMigrating
    <3>2. BootRunsAgain(boot.service)'
      BY <1>1, <2>2, <2>6 DEF BootServiceSound, BootRunsAgain, BootShouldRun, BootRunning, BootMigrates
    <3>3. BootPolicyKept(boot.service)'
      BY <1>1, <2>2, <2>5, <2>6 DEF BootServiceSound, BootPolicyKept, BootMigrates, BootMigrating
    <3> QED
      BY <3>1, <3>2, <3>3 DEF BootServiceSound
  <2> QED
    BY <1>1, <1>2, <1>3, <2>2, <2>4, <2>6, BootMigrationStep
<1>4. CASE BootGoes("fail") /\ bootBox' = bootBox
  <2>1. boot' = [boot EXCEPT !.step = "fail"]
    BY <1>4 DEF BootGoes
  <2>2. /\ BootServiceSound(s) /\ boot'.service = s /\ boot'.step = "fail" /\ boot'.found = boot.found
        /\ bootWas' = bootWas /\ bootHurt' = bootHurt /\ bootRow[s] \in BootStatus /\ bootRow[s].plain
        /\ bootBox[s] \in SUBSET BootBoxes /\ BootAtMostOne(bootBox[s])
        /\ boot.found \in SUBSET BootBoxes /\ BootAtMostOne(boot.found) /\ boot.found # {}
        /\ bootBox = [bootBox EXCEPT ![s] = bootBox[s]]
        /\ bootRow = [bootRow EXCEPT ![s] = bootRow[s]]
        /\ \A b \in bootBox[s] : ~b.public
    BY <1>1, <1>2, <2>1, BootHere
  <2>3. ASSUME bootBox'[s] = bootBox[s], bootRow'[s] = bootRow[s]
        PROVE  BootServiceSound(boot.service)'
    <3>1. BootRunsBefore(boot.service)'
      BY <1>1, <2>2, <2>3 DEF BootServiceSound, BootRunsBefore, BootRunning, BootMigrates, BootMigrating
    <3>2. BootRunsAgain(boot.service)'
      BY <1>1, <2>2, <2>3 DEF BootServiceSound, BootRunsAgain, BootShouldRun, BootRunning, BootMigrates
    <3>3. BootPolicyKept(boot.service)'
      BY <1>1, <2>2, <2>3 DEF BootServiceSound, BootPolicyKept, BootMigrates, BootMigrating
    <3> QED
      BY <3>1, <3>2, <3>3 DEF BootServiceSound
  <2> QED
    BY <1>1, <1>2, <1>4, <2>2, <2>3, BootMigrationStep
<1> QED
  BY <1>1, <1>3, <1>4

LEMMA BootStartKeeps == BootInv /\ BootStart => BootInv'
<1> SUFFICES ASSUME BootInv, BootStart PROVE BootInv'
  OBVIOUS
<1> DEFINE box == {[b EXCEPT !.running = TRUE] : b \in BootBox}
           s == boot.service
<1>1. /\ boot.step = "start" /\ BootMoves /\ bootRow' = bootRow
      /\ \/ BootStarts(s) /\ BootGoes("record") /\ bootBox' = [bootBox EXCEPT ![s] = box]
         \/ BootStarts(s) /\ BootGoes("fail") /\ bootBox' = bootBox
         \/ ~BootStarts(s) /\ BootGoes("record") /\ bootBox' = bootBox
  BY DEF BootStart, BootAt, BootChangesBox
<1>2. "record" \in BootSteps /\ "fail" \in BootSteps /\ boot.step \in BootMigrating
  BY <1>1 DEF BootSteps, BootMigrating
<1>3. CASE BootStarts(s) /\ BootGoes("record") /\ bootBox' = [bootBox EXCEPT ![s] = box]
  <2>1. boot' = [boot EXCEPT !.step = "record"]
    BY <1>3 DEF BootGoes
  <2>2. /\ BootServiceSound(s) /\ boot'.service = s /\ boot'.step = "record" /\ boot'.found = boot.found
        /\ bootWas' = bootWas /\ bootHurt' = bootHurt /\ bootRow[s] \in BootStatus /\ bootRow[s].plain
        /\ bootBox[s] \in SUBSET BootBoxes /\ BootAtMostOne(bootBox[s])
        /\ \A b \in bootBox[s] : ~b.public
        /\ boot.step \in {"start", "record"} => bootBox[s] # {}
        /\ bootBox = [bootBox EXCEPT ![s] = bootBox[s]]
        /\ bootRow = [bootRow EXCEPT ![s] = bootRow[s]]
    BY <1>1, <1>2, <2>1, BootHere
  <2>3. bootRow[s].active /\ BootRunning(boot.found)
    BY <1>3 DEF BootStarts, BootRunning
  <2>4. /\ box \in SUBSET BootBoxes /\ BootAtMostOne(box) /\ box # {}
        /\ \A b \in box : ~b.public /\ b.running
    <3>1. ASSUME NEW b \in box
          PROVE  b \in BootBoxes /\ ~b.public /\ b.running
      <4>1. PICK c \in bootBox[s] : b = [c EXCEPT !.running = TRUE]
        BY DEF BootBox
      <4>2. c \in BootBoxes /\ ~c.public
        BY <2>2
      <4> QED
        BY <4>1, <4>2 DEF BootBoxes
    <3>2. BootAtMostOne(box)
      BY <2>2 DEF BootBox, BootAtMostOne
    <3>3. box # {}
      <4>1. PICK c \in bootBox[s] : TRUE
        BY <1>1, <2>2
      <4>2. [c EXCEPT !.running = TRUE] \in box
        BY DEF BootBox
      <4> QED
        BY <4>2
    <3> QED
      BY <3>1, <3>2, <3>3
  <2>5. ASSUME \A b \in bootBox[s] : b.policy = "unless-stopped"
        PROVE  \A b \in box : b.policy = "unless-stopped"
    <3>1. ASSUME NEW b \in box
          PROVE  b.policy = "unless-stopped"
      <4>1. PICK c \in bootBox[s] : b = [c EXCEPT !.running = TRUE]
        BY DEF BootBox
      <4>2. c \in BootBoxes /\ c.policy = "unless-stopped"
        BY <2>2, <2>5
      <4> QED
        BY <4>1, <4>2 DEF BootBoxes
    <3> QED
      BY <3>1
  <2>6. ASSUME bootBox'[s] = box, bootRow'[s] = bootRow[s]
        PROVE  BootServiceSound(boot.service)'
    <3> HIDE DEF box
    <3>1. BootRunsBefore(boot.service)'
      BY <1>1, <2>2, <2>3, <2>4, <2>5, <2>6 DEF BootServiceSound, BootRunsBefore, BootRunning, BootMigrates, BootMigrating
    <3>2. BootRunsAgain(boot.service)'
      BY <1>1, <2>2, <2>3, <2>4, <2>5, <2>6 DEF BootServiceSound, BootRunsAgain, BootShouldRun, BootRunning, BootMigrates
    <3>3. BootPolicyKept(boot.service)'
      BY <1>1, <2>2, <2>3, <2>4, <2>5, <2>6 DEF BootServiceSound, BootPolicyKept, BootMigrates, BootMigrating
    <3> QED
      BY <3>1, <3>2, <3>3 DEF BootServiceSound
  <2> HIDE DEF box
  <2> QED
    BY <1>1, <1>2, <1>3, <2>2, <2>4, <2>6, BootMigrationStep
<1>4. CASE BootStarts(s) /\ BootGoes("fail") /\ bootBox' = bootBox
  <2>1. boot' = [boot EXCEPT !.step = "fail"]
    BY <1>4 DEF BootGoes
  <2>2. /\ BootServiceSound(s) /\ boot'.service = s /\ boot'.step = "fail" /\ boot'.found = boot.found
        /\ bootWas' = bootWas /\ bootHurt' = bootHurt /\ bootRow[s] \in BootStatus /\ bootRow[s].plain
        /\ bootBox[s] \in SUBSET BootBoxes /\ BootAtMostOne(bootBox[s])
        /\ \A b \in bootBox[s] : ~b.public
        /\ boot.step \in {"start", "record"} => bootBox[s] # {}
        /\ bootBox = [bootBox EXCEPT ![s] = bootBox[s]]
        /\ bootRow = [bootRow EXCEPT ![s] = bootRow[s]]
    BY <1>1, <1>2, <2>1, BootHere
  <2>3. ASSUME bootBox'[s] = bootBox[s], bootRow'[s] = bootRow[s]
        PROVE  BootServiceSound(boot.service)'
    <3>1. BootRunsBefore(boot.service)'
      BY <1>1, <2>2, <2>3 DEF BootServiceSound, BootRunsBefore, BootRunning, BootMigrates, BootMigrating
    <3>2. BootRunsAgain(boot.service)'
      BY <1>1, <2>2, <2>3 DEF BootServiceSound, BootRunsAgain, BootShouldRun, BootRunning, BootMigrates
    <3>3. BootPolicyKept(boot.service)'
      BY <1>1, <2>2, <2>3 DEF BootServiceSound, BootPolicyKept, BootMigrates, BootMigrating
    <3> QED
      BY <3>1, <3>2, <3>3 DEF BootServiceSound
  <2> QED
    BY <1>1, <1>2, <1>4, <2>2, <2>3, BootMigrationStep
<1>5. CASE ~BootStarts(s) /\ BootGoes("record") /\ bootBox' = bootBox
  <2>1. boot' = [boot EXCEPT !.step = "record"]
    BY <1>5 DEF BootGoes
  <2>2. /\ BootServiceSound(s) /\ boot'.service = s /\ boot'.step = "record" /\ boot'.found = boot.found
        /\ bootWas' = bootWas /\ bootHurt' = bootHurt /\ bootRow[s] \in BootStatus /\ bootRow[s].plain
        /\ bootBox[s] \in SUBSET BootBoxes /\ BootAtMostOne(bootBox[s])
        /\ \A b \in bootBox[s] : ~b.public
        /\ boot.step \in {"start", "record"} => bootBox[s] # {}
        /\ bootBox = [bootBox EXCEPT ![s] = bootBox[s]]
        /\ bootRow = [bootRow EXCEPT ![s] = bootRow[s]]
    BY <1>1, <1>2, <2>1, BootHere
  <2>3. ~bootRow[s].active \/ ~BootRunning(boot.found)
    BY <1>5 DEF BootStarts, BootRunning
  <2>4. ASSUME bootBox'[s] = bootBox[s], bootRow'[s] = bootRow[s]
        PROVE  BootServiceSound(boot.service)'
    <3>1. BootRunsBefore(boot.service)'
      BY <1>1, <2>2, <2>3, <2>4 DEF BootServiceSound, BootRunsBefore, BootRunning, BootMigrates, BootMigrating
    <3>2. BootRunsAgain(boot.service)'
      BY <1>1, <2>2, <2>3, <2>4 DEF BootServiceSound, BootRunsAgain, BootShouldRun, BootRunning, BootMigrates
    <3>3. BootPolicyKept(boot.service)'
      BY <1>1, <2>2, <2>3, <2>4 DEF BootServiceSound, BootPolicyKept, BootMigrates, BootMigrating
    <3> QED
      BY <3>1, <3>2, <3>3 DEF BootServiceSound
  <2> QED
    BY <1>1, <1>2, <1>5, <2>2, <2>4, BootMigrationStep
<1> QED
  BY <1>1, <1>3, <1>4, <1>5

LEMMA BootRecordKeeps == BootInv /\ BootRecord => BootInv'
<1> SUFFICES ASSUME BootInv, BootRecord PROVE BootInv'
  OBVIOUS
<1> DEFINE s == boot.service
           done == [bootRow[s] EXCEPT !.recorded = TRUE, !.port = FALSE]
<1>1. PICK next \in {"next", "fail"} :
        /\ boot.step = "record" /\ BootGoes(next) /\ boot' = [boot EXCEPT !.step = next]
        /\ BootMoves /\ bootBox' = bootBox
        /\ bootRow' = [bootRow EXCEPT ![s] = done] \/ bootRow' = bootRow
  BY DEF BootRecord, BootAt, BootGoes
<1>2. next \in BootSteps /\ boot.step \in BootMigrating
  BY <1>1 DEF BootSteps, BootMigrating
<1>3. /\ BootServiceSound(s) /\ boot'.service = s /\ boot'.step = next /\ boot'.found = boot.found
      /\ bootWas' = bootWas /\ bootHurt' = bootHurt /\ bootRow[s] \in BootStatus /\ bootRow[s].plain
      /\ bootBox[s] \in SUBSET BootBoxes /\ BootAtMostOne(bootBox[s])
      /\ \A b \in bootBox[s] : ~b.public
      /\ boot.step \in {"start", "record"} => bootBox[s] # {}
      /\ bootBox = [bootBox EXCEPT ![s] = bootBox[s]]
      /\ bootRow = [bootRow EXCEPT ![s] = bootRow[s]]
  BY <1>1, <1>2, BootHere
<1>4. PICK row \in BootStatus :
        /\ bootRow' = [bootRow EXCEPT ![s] = row]
        /\ row.active = bootRow[s].active /\ row.status = bootRow[s].status /\ row.plain
  <2>1. /\ done \in BootStatus /\ done.active = bootRow[s].active /\ done.status = bootRow[s].status
        /\ done.plain
    BY <1>3 DEF BootStatus
  <2> HIDE DEF done
  <2> QED
    BY <1>1, <1>3, <2>1
<1>5. ASSUME bootBox'[s] = bootBox[s], bootRow'[s] = row
      PROVE  BootServiceSound(boot.service)'
  <2>1. BootRunsBefore(boot.service)'
    BY <1>1, <1>3, <1>4, <1>5 DEF BootServiceSound, BootRunsBefore, BootRunning, BootMigrates, BootMigrating
  <2>2. BootRunsAgain(boot.service)'
    BY <1>1, <1>3, <1>4, <1>5 DEF BootServiceSound, BootRunsAgain, BootShouldRun, BootRunning, BootMigrates
  <2>3. BootPolicyKept(boot.service)'
    BY <1>1, <1>3, <1>4, <1>5 DEF BootServiceSound, BootPolicyKept, BootMigrates, BootMigrating
  <2> QED
    BY <2>1, <2>2, <2>3 DEF BootServiceSound
<1> QED
  BY <1>1, <1>2, <1>3, <1>4, <1>5, BootMigrationStep

LEMMA BootFailKeeps == BootInv /\ BootFail => BootInv'
<1> SUFFICES ASSUME BootInv, BootFail PROVE BootInv'
  OBVIOUS
<1> DEFINE s == boot.service
           row == [bootRow[s] EXCEPT !.recorded = FALSE, !.port = FALSE, !.status = "failed"]
<1>1. /\ boot.step = "fail" /\ BootGoes("next") /\ boot' = [boot EXCEPT !.step = "next"]
      /\ BootMoves /\ bootRow' = [bootRow EXCEPT ![s] = row] /\ bootBox' = bootBox
  <2>1. /\ boot.step = "fail" /\ BootGoes("next") /\ boot' = [boot EXCEPT !.step = "next"]
        /\ BootMoves /\ bootBox' = bootBox
    BY DEF BootFail, BootAt, BootGoes
  <2>2. bootRow' = [bootRow EXCEPT ![s] = row]
    BY DEF BootFail
  <2> QED
    BY <2>1, <2>2
<1>2. "next" \in BootSteps /\ boot.step \in BootMigrating
  BY <1>1 DEF BootSteps, BootMigrating
<1>3. /\ BootServiceSound(s) /\ boot'.service = s /\ boot'.step = "next" /\ boot'.found = boot.found
      /\ bootWas' = bootWas /\ bootHurt' = bootHurt /\ bootRow[s] \in BootStatus /\ bootRow[s].plain
      /\ bootBox[s] \in SUBSET BootBoxes /\ BootAtMostOne(bootBox[s])
      /\ \A b \in bootBox[s] : ~b.public
      /\ boot.step \in {"start", "record"} => bootBox[s] # {}
      /\ bootBox = [bootBox EXCEPT ![s] = bootBox[s]]
      /\ bootRow = [bootRow EXCEPT ![s] = bootRow[s]]
  BY <1>1, <1>2, BootHere
<1>4. row \in BootStatus /\ row.active = bootRow[s].active /\ row.status = "failed" /\ row.plain
  BY <1>3 DEF BootStatus
<1> HIDE DEF row
<1>5. ASSUME bootBox'[s] = bootBox[s], bootRow'[s] = row
      PROVE  BootServiceSound(boot.service)'
  <2>1. BootRunsBefore(boot.service)'
    BY <1>1, <1>3, <1>4, <1>5 DEF BootServiceSound, BootRunsBefore, BootRunning, BootMigrates, BootMigrating
  <2>2. BootRunsAgain(boot.service)'
    BY <1>1, <1>3, <1>4, <1>5 DEF BootServiceSound, BootRunsAgain, BootShouldRun, BootRunning, BootMigrates
  <2>3. BootPolicyKept(boot.service)'
    BY <1>1, <1>3, <1>4, <1>5 DEF BootServiceSound, BootPolicyKept, BootMigrates, BootMigrating
  <2> QED
    BY <2>1, <2>2, <2>3 DEF BootServiceSound
<1> QED
  BY <1>1, <1>2, <1>3, <1>4, <1>5, BootMigrationStep

-----------------------------------------------------------------------------

LEMMA BootListKeeps == BootInv /\ BootList => BootInv'
<1> SUFFICES ASSUME BootInv, BootList PROVE BootInv'
  OBVIOUS
<1>1. /\ boot.step = "list" /\ BootMoves /\ bootRow' = bootRow /\ bootBox' = bootBox
      /\ boot' = [boot EXCEPT !.step = "next", !.todo = {s \in BootServices : bootBox[s] # {}}]
  BY DEF BootList, BootAt, BootRows
<1>2. /\ boot \in BootProcess /\ bootWas' = bootWas /\ bootCrashes' = bootCrashes /\ bootHurt' = bootHurt
      /\ bootBuiltIn' = bootBuiltIn /\ bootNotes' = bootNotes /\ bootLogged' = bootLogged
  BY <1>1 DEF BootInv, BootTypes, BootMoves, BootRest, BootNames
<1>3. /\ boot' \in BootProcess /\ boot'.step = "next" /\ boot'.found = boot.found
      /\ boot'.service = boot.service /\ boot'.todo = {s \in BootServices : bootBox[s] # {}}
  BY <1>1, <1>2 DEF BootProcess, BootSteps
<1>4. BootTypes' /\ BootFound'
  BY <1>1, <1>2, <1>3 DEF BootInv, BootTypes, BootFound, BootMigrating
<1>5. BootPorts'
  BY <1>1, <1>3 DEF BootPorts
<1>6. BootBuiltInSound' /\ RenamesLogged'
  BY <1>1, <1>2, <1>3 DEF BootInv, BootBuiltInSound, RenamesLogged
<1>7. ASSUME NEW s \in BootServices
      PROVE  BootServiceSound(s)'
  <2>1. BootServiceSound(s)
    BY DEF BootInv
  <2>2. (boot'.step \notin BootMigrating) /\ (boot.step \notin BootMigrating)
    BY <1>1, <1>3 DEF BootMigrating
  <2> QED
    BY <1>1, <1>2, <2>1, <2>2
       DEF BootServiceSound, BootRunsBefore, BootRunsAgain, BootPolicyKept, BootShouldRun,
           BootRunning, BootMigrates, BootMigrating
<1> QED
  BY <1>4, <1>5, <1>6, <1>7 DEF BootInv

LEMMA BootInspectKeeps == ASSUME NEW s \in BootServices, BootInv, BootInspect(s) PROVE BootInv'
<1> DEFINE next == IF bootRow[s].plain /\ \E b \in bootBox[s] : BootPublishes(b) THEN "policy" ELSE "next"
<1>1. /\ boot.step = "next" /\ s \in boot.todo /\ BootMoves /\ bootRow' = bootRow /\ bootBox' = bootBox
      /\ boot' = [boot EXCEPT !.todo = @ \ {s}, !.service = s, !.found = bootBox[s], !.step = next]
  BY DEF BootInspect, BootAt, BootRows
<1>2. /\ next \in {"policy", "next"} /\ (next = "policy" => bootBox[s] # {} /\ bootRow[s].plain)
      /\ next = "next" => \A b \in bootBox[s] : b.public => ~bootRow[s].plain
  BY DEF BootPublishes
<1> HIDE DEF next
<1>3. /\ boot \in BootProcess /\ bootWas' = bootWas /\ bootCrashes' = bootCrashes /\ bootHurt' = bootHurt
      /\ bootBuiltIn' = bootBuiltIn /\ bootNotes' = bootNotes /\ bootLogged' = bootLogged
      /\ bootBox[s] \in SUBSET BootBoxes
  BY <1>1 DEF BootInv, BootTypes, BootMoves, BootRest, BootNames
<1>4. /\ boot' \in BootProcess /\ boot'.step = next /\ boot'.found = bootBox[s]
      /\ boot'.service = s /\ boot'.todo = boot.todo \ {s}
  BY <1>1, <1>2, <1>3 DEF BootProcess, BootSteps
<1>5. BootTypes' /\ BootFound'
  BY <1>1, <1>2, <1>3, <1>4 DEF BootInv, BootTypes, BootFound, BootMigrating
<1>6. BootPorts'
  <2>1. ASSUME NEW t \in BootServices, NEW b \in bootBox[t], b.public
        PROVE  t \in boot.todo \/ ~bootRow[t].plain
    BY <1>1, <2>1 DEF BootInv, BootPorts, BootMigrates
  <2> QED
    BY <1>1, <1>2, <1>4, <2>1 DEF BootPorts, BootMigrates
<1>7. BootBuiltInSound' /\ RenamesLogged'
  BY <1>1, <1>2, <1>3, <1>4 DEF BootInv, BootBuiltInSound, RenamesLogged
<1>8. ASSUME NEW t \in BootServices
      PROVE  BootServiceSound(t)'
  <2>1. BootServiceSound(t)
    BY DEF BootInv
  <2>2. \A steps : steps \subseteq BootMigrating => ~BootMigrates(t, steps)
    BY <1>1 DEF BootMigrates, BootMigrating
  <2>3. BootMigrates(t, {"policy"})' \/ \A steps : steps \subseteq BootMigrating => ~BootMigrates(t, steps)'
    BY <1>2, <1>4 DEF BootMigrates, BootMigrating
  <2>4. BootRunsBefore(t)'
    BY <1>1, <1>3, <1>4, <2>1 DEF BootServiceSound, BootRunsBefore, BootRunning, BootMigrates
  <2>5. BootRunsAgain(t)'
    <3>1. BootShouldRun(t)' => BootRunning(bootBox[t])
      BY <1>1, <1>3, <2>1, <2>2 DEF BootServiceSound, BootRunsAgain, BootShouldRun, BootMigrating, BootRunning
    <3> QED
      BY <1>1, <1>3, <1>4, <3>1 DEF BootRunsAgain, BootRunning, BootMigrates
  <2>6. BootPolicyKept(t)'
    <3>1. t \notin bootHurt => \A b \in bootBox[t] : b.policy = "unless-stopped"
      BY <2>1, <2>2 DEF BootServiceSound, BootPolicyKept, BootMigrating
    <3> QED
      BY <1>1, <1>3, <1>4, <3>1 DEF BootPolicyKept, BootMigrates
  <2> QED
    BY <2>4, <2>5, <2>6 DEF BootServiceSound
<1> QED
  BY <1>5, <1>6, <1>7, <1>8 DEF BootInv

LEMMA BootServeKeeps == BootInv /\ BootServe => BootInv'
<1> SUFFICES ASSUME BootInv, BootServe PROVE BootInv'
  OBVIOUS
<1>1. /\ boot.step = "next" /\ BootMoves /\ bootBox' = bootBox
      /\ boot' = [BootDown EXCEPT !.step = "serving"]
      /\ bootRow' = [s \in BootServices |-> [bootRow[s] EXCEPT !.port = FALSE]]
      /\ boot.todo = {}
  BY DEF BootServe, BootAt
<1>2. /\ bootWas' = bootWas /\ bootCrashes' = bootCrashes /\ bootHurt' = bootHurt
      /\ bootBuiltIn' = bootBuiltIn /\ bootNotes' = bootNotes /\ bootLogged' = bootLogged
  BY <1>1 DEF BootMoves, BootRest, BootNames
<1>3. /\ boot' \in BootProcess /\ boot'.step = "serving" /\ boot'.todo = {} /\ boot'.found = {} /\ BootAtMostOne(boot'.found)
  BY <1>1 DEF BootProcess, BootSteps, BootDown, BootAtMostOne
<1>4. ASSUME NEW s \in BootServices
      PROVE  /\ bootRow'[s] \in BootStatus /\ bootRow'[s].active = bootRow[s].active
             /\ bootRow'[s].status = bootRow[s].status /\ bootRow'[s].plain = bootRow[s].plain
  <2>1. bootRow[s] \in BootStatus /\ bootRow'[s] = [bootRow[s] EXCEPT !.port = FALSE]
    BY <1>1 DEF BootInv, BootTypes
  <2> QED
    BY <2>1 DEF BootStatus
<1>5. bootRow' \in [BootServices -> BootStatus]
  <2>1. \A s \in BootServices : [bootRow[s] EXCEPT !.port = FALSE] \in BootStatus
    BY <1>1, <1>4
  <2> QED
    BY <1>1, <2>1
<1>6. BootTypes' /\ BootFound'
  BY <1>1, <1>2, <1>3, <1>5 DEF BootInv, BootTypes, BootFound, BootMigrating
<1>7. BootPorts'
  BY <1>1, <1>3, <1>4 DEF BootInv, BootPorts, BootMigrates
<1>8. BootBuiltInSound' /\ RenamesLogged'
  BY <1>1, <1>2, <1>3 DEF BootInv, BootBuiltInSound, RenamesLogged
<1>9. ASSUME NEW s \in BootServices
      PROVE  BootServiceSound(s)'
  <2>1. BootServiceSound(s)
    BY DEF BootInv
  <2>2. (boot'.step \notin BootMigrating) /\ (boot.step \notin BootMigrating)
    BY <1>1, <1>3 DEF BootMigrating
  <2> QED
    BY <1>1, <1>2, <1>4, <2>1, <2>2
       DEF BootServiceSound, BootRunsBefore, BootRunsAgain, BootPolicyKept, BootShouldRun,
           BootRunning, BootMigrates, BootMigrating
<1> QED
  BY <1>6, <1>7, <1>8, <1>9 DEF BootInv

LEMMA BootBootstrapKeeps ==
  ASSUME BootInv,
         \/ BootMain \/ BootLogRenames \/ BootForgetRenames \/ BootFind
         \/ BootCreateRepo \/ BootCreateService \/ BootCreateRoute \/ BootAddress
  PROVE  BootInv'
<1>1. /\ bootRow' = bootRow /\ bootBox' = bootBox /\ bootWas' = bootWas
      /\ bootHurt' = bootHurt /\ bootCrashes' = bootCrashes
  BY DEF BootMain, BootLogRenames, BootForgetRenames, BootFind, BootCreateRepo, BootCreateService,
         BootCreateRoute, BootCreate, BootAddress, BootRest, BootRows
<1>2. /\ bootBuiltIn \in [repos : Nat, services : {0, 1}, routes : {0, 1}]
      /\ boot \in BootProcess /\ bootCrashes \in Nat
  BY BootAssumption DEF BootInv, BootBuiltInSound, BootTypes
<1>3. ASSUME NEW step \in BootSteps \ (BootMigrating \cup {"next", "serving"}),
             NEW next \in BootSteps \ (BootMigrating \cup {"next", "serving"}),
             BootAt(step), BootGoes(next), BootBuiltInSound', RenamesLogged', bootNotes' \subseteq BootRenames
      PROVE  BootInv'
  <2>1. boot.step \notin BootMigrating
    BY <1>3 DEF BootAt
  <2>2. /\ boot' \in BootProcess /\ BootFound' /\ BootPorts'
        /\ \A s \in BootServices : BootServiceSound(s)'
    BY <1>1, <1>3, <2>1, BootUntouched
  <2>3. BootTypes'
    BY <1>1, <1>3, <2>2 DEF BootInv, BootTypes
  <2> QED
    BY <1>3, <2>2, <2>3 DEF BootInv
<1>4. ASSUME NEW step, NEW next, BootAt(step), BootGoes(next)
      PROVE  boot.step = step /\ boot'.step = next
  BY <1>2, <1>4 DEF BootAt, BootGoes, BootProcess
<1>5. ASSUME bootNotes' = bootNotes, bootLogged' = bootLogged
      PROVE  RenamesLogged' /\ bootNotes' \subseteq BootRenames
  BY <1>5 DEF BootInv, RenamesLogged, BootTypes
<1>6. CASE BootMain
  <2>1. BootAt("down") /\ BootGoes("renames") /\ bootBuiltIn' = bootBuiltIn /\ bootNotes' = bootNotes /\ bootLogged' = bootLogged
    BY <1>6 DEF BootMain, BootNames
  <2>2. boot.step = "down" /\ boot'.step = "renames"
    BY <1>4, <2>1
  <2>3. BootBuiltInSound'
    BY <1>1, <2>1, <2>2 DEF BootInv, BootBuiltInSound
  <2> QED
    BY <1>3, <1>5, <2>1, <2>3 DEF BootSteps, BootMigrating
<1>7. CASE BootLogRenames
  <2>1. /\ BootAt("renames") /\ BootGoes("forget") /\ bootBuiltIn' = bootBuiltIn /\ bootNotes' = bootNotes
        /\ bootLogged' = bootLogged \cup bootNotes
    BY <1>7 DEF BootLogRenames
  <2>2. boot.step = "renames" /\ boot'.step = "forget"
    BY <1>4, <2>1
  <2>3. BootBuiltInSound' /\ RenamesLogged' /\ bootNotes' \subseteq BootRenames
    BY <1>1, <2>1, <2>2 DEF BootInv, BootBuiltInSound, RenamesLogged, BootTypes
  <2> QED
    BY <1>3, <2>1, <2>3 DEF BootSteps, BootMigrating
<1>8. CASE BootForgetRenames
  <2>1. /\ BootAt("forget") /\ BootGoes("find") /\ bootBuiltIn' = bootBuiltIn /\ bootNotes' = bootNotes \ bootLogged
        /\ bootLogged' = bootLogged
    BY <1>8 DEF BootForgetRenames
  <2>2. boot.step = "forget" /\ boot'.step = "find"
    BY <1>4, <2>1
  <2>3. BootBuiltInSound' /\ RenamesLogged' /\ bootNotes' \subseteq BootRenames
    BY <1>1, <2>1, <2>2 DEF BootInv, BootBuiltInSound, RenamesLogged, BootTypes
  <2> QED
    BY <1>3, <2>1, <2>3 DEF BootSteps, BootMigrating
<1>9. CASE BootFind
  <2>1. PICK next \in {"address", "repo"} : /\ next = (IF BootIsSetUp THEN "address" ELSE "repo")
        /\ BootAt("find") /\ BootGoes(next) /\ bootBuiltIn' = bootBuiltIn /\ bootNotes' = bootNotes /\ bootLogged' = bootLogged
    BY <1>9 DEF BootFind, BootNames
  <2>2. boot.step = "find" /\ boot'.step = next
    BY <1>4, <2>1
  <2>3. BootBuiltInSound'
    BY <1>1, <1>2, <2>1, <2>2 DEF BootInv, BootBuiltInSound, BootIsSetUp
  <2> QED
    BY <1>3, <1>5, <2>1, <2>3 DEF BootSteps, BootMigrating
<1>10. CASE BootCreateRepo
  <2>1. /\ BootAt("repo") /\ BootGoes("service") /\ bootNotes' = bootNotes /\ bootLogged' = bootLogged
        /\ bootBuiltIn' = [bootBuiltIn EXCEPT !["repos"] = @ + 1]
    BY <1>10 DEF BootCreateRepo, BootCreate, BootNames
  <2>2. boot.step = "repo" /\ boot'.step = "service"
    BY <1>4, <2>1
  <2>3. /\ bootBuiltIn'.repos = bootBuiltIn.repos + 1 /\ bootBuiltIn'.services = bootBuiltIn.services
        /\ bootBuiltIn'.routes = bootBuiltIn.routes
        /\ bootBuiltIn' \in [repos : Nat, services : {0, 1}, routes : {0, 1}]
    BY <1>2, <2>1
  <2>4. BootBuiltInSound'
    BY <1>1, <1>2, <2>2, <2>3 DEF BootInv, BootBuiltInSound
  <2> QED
    BY <1>3, <1>5, <2>1, <2>4 DEF BootSteps, BootMigrating
<1>11. CASE BootCreateService
  <2>1. /\ BootAt("service") /\ BootGoes("route") /\ bootNotes' = bootNotes /\ bootLogged' = bootLogged
        /\ bootBuiltIn' = [bootBuiltIn EXCEPT !["services"] = @ + 1]
    BY <1>11 DEF BootCreateService, BootCreate, BootNames
  <2>2. boot.step = "service" /\ boot'.step = "route" /\ bootBuiltIn.services = 0
    <3>1. boot.step = "service" /\ boot'.step = "route"
      BY <1>4, <2>1
    <3> QED
      BY <3>1 DEF BootInv, BootBuiltInSound
  <2>3. /\ bootBuiltIn'.repos = bootBuiltIn.repos /\ bootBuiltIn'.services = 1
        /\ bootBuiltIn'.routes = bootBuiltIn.routes
        /\ bootBuiltIn' \in [repos : Nat, services : {0, 1}, routes : {0, 1}]
    BY <1>2, <2>1, <2>2
  <2>4. BootBuiltInSound'
    BY <1>1, <1>2, <2>2, <2>3 DEF BootInv, BootBuiltInSound
  <2> QED
    BY <1>3, <1>5, <2>1, <2>4 DEF BootSteps, BootMigrating
<1>12. CASE BootCreateRoute
  <2>1. /\ BootAt("route") /\ BootGoes("address") /\ bootNotes' = bootNotes /\ bootLogged' = bootLogged
        /\ bootBuiltIn' = [bootBuiltIn EXCEPT !["routes"] = @ + 1]
    BY <1>12 DEF BootCreateRoute, BootCreate, BootNames
  <2>2. boot.step = "route" /\ boot'.step = "address" /\ bootBuiltIn.services = 1 /\ bootBuiltIn.routes = 0
    <3>1. boot.step = "route" /\ boot'.step = "address"
      BY <1>4, <2>1
    <3> QED
      BY <3>1 DEF BootInv, BootBuiltInSound
  <2>3. /\ bootBuiltIn'.repos = bootBuiltIn.repos /\ bootBuiltIn'.services = 1
        /\ bootBuiltIn'.routes = 1
        /\ bootBuiltIn' \in [repos : Nat, services : {0, 1}, routes : {0, 1}]
    BY <1>2, <2>1, <2>2
  <2>4. BootBuiltInSound'
    BY <1>1, <1>2, <2>2, <2>3 DEF BootInv, BootBuiltInSound
  <2> QED
    BY <1>3, <1>5, <2>1, <2>4 DEF BootSteps, BootMigrating
<1>13. CASE BootAddress
  <2>1. BootAt("address") /\ BootGoes("list") /\ bootBuiltIn' = bootBuiltIn /\ bootNotes' = bootNotes /\ bootLogged' = bootLogged
    BY <1>13 DEF BootAddress, BootNames
  <2>2. boot.step = "address" /\ boot'.step = "list"
    BY <1>4, <2>1
  <2>3. BootBuiltInSound'
    BY <1>1, <2>1, <2>2 DEF BootInv, BootBuiltInSound
  <2> QED
    BY <1>3, <1>5, <2>1, <2>3 DEF BootSteps, BootMigrating
<1> QED
  BY <1>6, <1>7, <1>8, <1>9, <1>10, <1>11, <1>12, <1>13

(* What a crash leaves of a container runs only if it ran, and what must come
   back with the host does. *)
LEMMA BootCrashKeeps == BootInv /\ BootCrash => BootInv'
<1> SUFFICES ASSUME BootInv, BootCrash PROVE BootInv'
  OBVIOUS
<1>1. PICK reboot \in BOOLEAN :
        bootBox' = [s \in BootServices |->
         {[b EXCEPT !.running = @ /\ (reboot => b.policy = "unless-stopped")] : b \in bootBox[s]}]
  BY DEF BootCrash
<1>2. /\ boot.step # "down" /\ bootCrashes < BootCrashes /\ bootCrashes' = bootCrashes + 1
      /\ boot' = BootDown /\ bootHurt' = bootHurt \cup BootHurtNow
      /\ bootRow' = bootRow /\ bootWas' = bootWas /\ bootBuiltIn' = bootBuiltIn
      /\ bootNotes' = bootNotes /\ bootLogged' = bootLogged
  BY DEF BootCrash, BootAt, BootNames
<1>3. /\ boot' \in BootProcess /\ boot'.step = "down" /\ boot'.found = {} /\ BootAtMostOne(boot'.found)
  BY <1>2 DEF BootProcess, BootSteps, BootDown, BootAtMostOne
<1>4. boot \in BootProcess /\ bootCrashes \in Nat
  BY BootAssumption DEF BootInv, BootTypes
<1>5. ASSUME NEW s \in BootServices, NEW b \in bootBox'[s]
      PROVE  \E c \in bootBox[s] : /\ b = [c EXCEPT !.running = @ /\ (reboot => c.policy = "unless-stopped")]
                                   /\ b \in BootBoxes /\ b.public = c.public /\ b.policy = c.policy
                                   /\ b.running => c.running
  <2>1. PICK c \in bootBox[s] : b = [c EXCEPT !.running = @ /\ (reboot => c.policy = "unless-stopped")]
    BY <1>1, <1>5
  <2>2. c \in BootBoxes
    BY DEF BootInv, BootTypes
  <2> QED
    BY <2>1, <2>2 DEF BootBoxes
<1>6. ASSUME NEW s \in BootServices, BootRunning(bootBox[s]),
             \A c \in bootBox[s] : c.policy = "unless-stopped"
      PROVE  BootRunning(bootBox[s])'
  <2>1. PICK c \in bootBox[s] : c.running
    BY <1>6 DEF BootRunning
  <2>2. [c EXCEPT !.running = @ /\ (reboot => c.policy = "unless-stopped")] \in bootBox'[s]
    BY <1>1
  <2>3. c \in BootBoxes /\ c.policy = "unless-stopped"
    BY <1>6 DEF BootInv, BootTypes
  <2>4. [c EXCEPT !.running = @ /\ (reboot => c.policy = "unless-stopped")].running
    BY <2>1, <2>3 DEF BootBoxes
  <2> QED
    BY <2>2, <2>4 DEF BootRunning
<1>7. BootTypes' /\ BootFound'
  <2>1. bootBox' \in [BootServices -> SUBSET BootBoxes]
    <3>1. \A s \in BootServices : bootBox'[s] \in SUBSET BootBoxes
      BY <1>5
    <3> QED
      BY <1>1, <3>1
  <2>2. \A s \in BootServices : BootAtMostOne(bootBox[s])'
    BY <1>5 DEF BootInv, BootFound, BootAtMostOne
  <2>3. bootCrashes' \in 0 .. BootCrashes
    BY <1>2, <1>4, BootAssumption
  <2> QED
    BY <1>2, <1>3, <2>1, <2>2, <2>3 DEF BootInv, BootTypes, BootFound, BootMigrating
<1>8. BootPorts' /\ RenamesLogged'
  BY <1>2, <1>3 DEF BootInv, BootPorts, BootMigrating, RenamesLogged
<1>9. BootBuiltInSound'
  BY <1>2, <1>3, <1>4 DEF BootInv, BootBuiltInSound, BootHurtNow
<1>10. ASSUME NEW s \in BootServices
       PROVE  BootServiceSound(s)'
  <2>1. BootServiceSound(s)
    BY DEF BootInv
  <2>2. \A steps : steps \subseteq BootMigrating => ~BootMigrates(s, steps)'
    BY <1>3 DEF BootMigrates, BootMigrating
  <2>3. s \notin bootHurt' =>
          s \notin bootHurt /\ ~BootMigrates(s, {"stop", "remove", "create", "start", "record", "fail"})
    BY <1>2 DEF BootHurtNow, BootMigrates
  <2>4. s \notin bootHurt' => \A c \in bootBox[s] : c.policy = "unless-stopped"
    BY <2>1, <2>3 DEF BootServiceSound, BootPolicyKept, BootMigrates
  <2>5. BootRunsBefore(s)'
    BY <1>2, <1>5, <2>1, <2>2 DEF BootServiceSound, BootRunsBefore
  <2>6. BootRunsAgain(s)'
    <3>1. BootShouldRun(s)' => BootShouldRun(s) /\ s \notin bootHurt'
      BY <1>2, <2>3 DEF BootShouldRun, BootRunning
    <3>2. BootShouldRun(s)' => BootRunning(bootBox[s])
      BY <2>1, <2>3, <3>1 DEF BootServiceSound, BootRunsAgain, BootMigrates
    <3>3. BootShouldRun(s)' => BootRunning(bootBox[s])'
      BY <1>6, <2>4, <3>1, <3>2
    <3> QED
      BY <2>2, <3>3 DEF BootRunsAgain, BootMigrating
  <2>7. BootPolicyKept(s)'
    BY <1>5, <2>2, <2>4 DEF BootPolicyKept
  <2> QED
    BY <2>5, <2>6, <2>7 DEF BootServiceSound
<1> QED
  BY <1>7, <1>8, <1>9, <1>10 DEF BootInv

LEMMA BootInvNext == BootInv /\ [BootNext]_BootVars => BootInv'
<1> SUFFICES ASSUME BootInv, [BootNext]_BootVars PROVE BootInv'
  OBVIOUS
<1>1. CASE \/ BootMain \/ BootLogRenames \/ BootForgetRenames \/ BootFind
           \/ BootCreateRepo \/ BootCreateService \/ BootCreateRoute \/ BootAddress
  BY <1>1, BootBootstrapKeeps
<1>2. CASE BootList
  BY <1>2, BootListKeeps
<1>3. CASE \E s \in BootServices : BootInspect(s)
  BY <1>3, BootInspectKeeps
<1>4. CASE BootPolicy
  BY <1>4, BootPolicyKeeps
<1>5. CASE BootStop
  BY <1>5, BootStopKeeps
<1>6. CASE BootRemove
  BY <1>6, BootRemoveKeeps
<1>7. CASE BootReplace
  BY <1>7, BootReplaceKeeps
<1>8. CASE BootStart
  BY <1>8, BootStartKeeps
<1>9. CASE BootRecord
  BY <1>9, BootRecordKeeps
<1>10. CASE BootFail
  BY <1>10, BootFailKeeps
<1>11. CASE BootServe
  BY <1>11, BootServeKeeps
<1>12. CASE BootCrash
  BY <1>12, BootCrashKeeps
<1>13. CASE UNCHANGED BootVars
  BY <1>13
     DEF BootVars, BootInv, BootTypes, BootFound, BootPorts, BootBuiltInSound, RenamesLogged,
         BootServiceSound, BootRunsBefore, BootRunsAgain, BootPolicyKept, BootShouldRun,
         BootRunning, BootMigrates
<1> QED
  BY <1>1, <1>2, <1>3, <1>4, <1>5, <1>6, <1>7, <1>8, <1>9, <1>10, <1>11, <1>12, <1>13 DEF BootNext

LEMMA BootAtMostOneCardinality ==
  ASSUME NEW set, BootAtMostOne(set)
  PROVE  Cardinality(set) <= 1
<1>1. CASE set = {}
  BY <1>1, FS_EmptySet
<1>2. CASE set # {}
  <2>1. PICK b \in set : set = {b}
    BY <1>2 DEF BootAtMostOne
  <2>2. Cardinality({b}) = 1
    BY FS_Singleton
  <2> QED
    BY <2>1, <2>2
<1> QED
  BY <1>1, <1>2

LEMMA BootInvIsSound == BootInv => StartIsSound
<1> SUFFICES ASSUME BootInv PROVE StartIsSound
  OBVIOUS
<1>1. BootTypeOK
  <2>1. \A s \in BootServices : Cardinality(bootBox[s]) <= 1 /\ bootBox[s] \subseteq BootBoxes
    BY BootAtMostOneCardinality DEF BootInv, BootTypes, BootFound
  <2>2. boot.todo \subseteq BootServices /\ Cardinality(boot.found) <= 1
    BY BootAtMostOneCardinality DEF BootInv, BootTypes, BootProcess, BootFound
  <2>3. bootBuiltIn.repos <= BootCrashes + 1
    BY BootAssumption DEF BootInv, BootTypes, BootBuiltInSound
  <2> QED
    BY <2>1, <2>2, <2>3 DEF BootInv, BootTypes, BootFound, BootTypeOK
<1>2. PortsClosed
  <2>1. ASSUME boot.step = "serving", NEW s \in BootServices, NEW b \in bootBox[s], b.public, bootRow[s].plain
        PROVE  s \in boot.todo
    BY <2>1 DEF BootInv, BootPorts, BootMigrates
  <2>2. boot.step = "serving" => boot.todo = {}
    BY DEF BootInv, BootPorts
  <2> QED
    BY <2>1, <2>2 DEF PortsClosed
<1>3. ServesAsBefore
  <2> SUFFICES ASSUME boot.step = "serving", NEW s \in BootServices
               PROVE  LET runs == \E b \in bootBox[s] : b.running
                          ran == {b \in bootWas[s] : b.running}
                          may == bootRow[s].plain => bootRow[s].active
                      IN /\ runs => \E b \in ran : b.public => may
                         /\ ran # {} /\ s \notin bootHurt =>
                              runs \/ ~may \/ (bootRow[s].plain /\ bootRow[s].status = "failed")
    BY DEF ServesAsBefore
  <2>1. BootServiceSound(s) /\ \A steps : "serving" \notin steps => ~BootMigrates(s, steps)
    BY DEF BootInv, BootMigrates
  <2>2. \A b \in bootBox[s] : b.public => ~bootRow[s].plain
    BY <1>2 DEF PortsClosed
  <2>3. ASSUME NEW b \in bootBox[s], b.running
        PROVE  \E w \in {w \in bootWas[s] : w.running} : w.public => (bootRow[s].plain => bootRow[s].active)
    BY <2>1, <2>2, <2>3 DEF BootServiceSound, BootRunsBefore
  <2>4. ASSUME NEW w \in bootWas[s], w.running, s \notin bootHurt, bootRow[s].plain => bootRow[s].active,
               bootRow[s].plain => bootRow[s].status # "failed"
        PROVE  \E b \in bootBox[s] : b.running
    BY <2>1, <2>4 DEF BootServiceSound, BootRunsAgain, BootShouldRun, BootRunning
  <2> QED
    BY <2>3, <2>4
<1>4. OneBuiltIn
  BY DEF BootInv, BootBuiltInSound, OneBuiltIn
<1> QED
  BY <1>1, <1>2, <1>3, <1>4 DEF BootInv, StartIsSound

(* However the start is broken off, and with any services and renames: a
   server that listens publishes no port of a service that has its row, runs what ran before and
   nothing else, has logged every rename it forgot and has one built-in
   service (index.ts main, bootstrap.ts, portPolicy.ts). *)
THEOREM StartIsSoundHolds == BootSpec => []StartIsSound
<1>1. BootInv /\ [BootNext]_BootVars => BootInv'
  BY BootInvNext
<1> QED
  BY BootInvInit, <1>1, BootInvIsSound, PTL DEF BootSpec

-----------------------------------------------------------------------------
(***************************************************************************)
(* ApiTokens                                                               *)
(***************************************************************************)

TokKinds == {"none", "create", "local", "revoke", "run", "login", "remote"}
TokResults == {"none", "ok", "error", "usage", "rejected", "forbidden", "killed"}
TokSteps == {"idle", "done", "check", "insert", "swap", "file", "delete", "rm", "look", "lock",
             "again", "select", "request", "prompt", "who", "load", "save", "orphan"}
TokData == UNION {[S -> Nat] : S \in SUBSET TokServers}
TokCommand == [kind : TokKinds, step : TokSteps, name : {""} \cup TokNames \cup TokServers,
               got : Nat, data : TokData, overlap : BOOLEAN, calm : BOOLEAN, result : TokResults]

TokLive(i) == i \in DOMAIN tokRows /\ tokRows[i] = LocalCli
TokRunAt(p, steps) == tokProc[p].kind = "run" /\ tokProc[p].step \in steps

(* Which command is at which step, and with what name. *)
TokStepFits(proc) ==
  /\ proc.step \in {"insert", "check"} => proc.kind = "create" /\ proc.name \in TokNames \ {LocalCli}
  /\ proc.step = "file" => proc.kind \in {"local", "run"} /\ proc.got \in 1 .. tokNext
  /\ proc.step \in {"swap", "again"} => proc.kind \in {"local", "run"}
  /\ proc.step \in {"rm", "delete"} => proc.kind = "revoke"
  /\ proc.step \in {"prompt", "who", "load", "save"} => proc.name \in TokServers

TokTypes ==
  /\ tokNext \in Nat
  /\ DOMAIN tokRows \subseteq 1 .. tokNext /\ tokRows \in [DOMAIN tokRows -> TokNames]
  /\ tokFile \in 0 .. tokNext /\ tokLock \in TokProcs \cup {0} /\ tokBroken \in BOOLEAN
  /\ tokProfiles \in TokData
  /\ tokProc \in [TokProcs -> TokCommand]
  /\ \A p \in TokProcs : TokStepFits(tokProc[p])

TokOneLocal == \A i, j : TokLive(i) /\ TokLive(j) => i = j

(* A run of siteyctl that makes the token holds the lock and found no file. *)
TokMakerSound(p) ==
  /\ TokRunAt(p, {"again", "swap", "file"}) => tokLock = p
  /\ TokRunAt(p, {"swap", "file"}) => tokFile = 0 \/ tokBroken
  /\ tokProc[p].step = "file" =>
       /\ TokLive(tokProc[p].got) \/ tokBroken
       /\ tokProc[p].got \in DOMAIN tokRows => TokLive(tokProc[p].got)

(* A run that is undisturbed uses the token of the file, which is live, and
   nobody is about to change the file. *)
TokRunSound(p) ==
  TokRunAt(p, {"request"}) /\ tokProc[p].calm =>
    /\ tokProc[p].got = tokFile /\ TokLive(tokFile)
    /\ \A q \in TokProcs :
         tokProc[q].step \notin {"rm", "file"} /\ ~TokRunAt(q, {"swap"})

TokAccepted(p) == tokProc[p].kind = "run" /\ tokProc[p].result = "rejected" => ~tokProc[p].calm

TokInv ==
  /\ TokTypes /\ TokOneLocal /\ FileIsLive /\ LoginKeepsProfiles
  /\ \A p \in TokProcs : TokMakerSound(p) /\ TokRunSound(p) /\ TokAccepted(p)

-----------------------------------------------------------------------------

LEMMA TokEmpty == <<>> \in TokData /\ <<>> \in [DOMAIN <<>> -> TokNames] /\ DOMAIN <<>> = {}
<1>1. <<>> \in [{} -> Nat] /\ {} \in SUBSET TokServers
  OBVIOUS
<1> QED
  BY <1>1 DEF TokData

LEMMA TokNoProcFits == TokNoProc \in TokCommand /\ TokStepFits(TokNoProc)
<1> DEFINE empty == <<>>
<1>1. empty \in TokData
  BY TokEmpty
<1>2. TokNoProc = [kind |-> "none", step |-> "idle", name |-> "", got |-> 0, data |-> empty,
                   overlap |-> FALSE, calm |-> TRUE, result |-> "none"]
  BY DEF TokNoProc
<1> HIDE DEF empty
<1> QED
  BY <1>1, <1>2 DEF TokCommand, TokKinds, TokSteps, TokResults, TokStepFits

LEMMA TokInvInit == TokInit => TokInv
<1> SUFFICES ASSUME TokInit PROVE TokInv
  OBVIOUS
<1> DEFINE empty == <<>>
<1>1. empty \in TokData /\ empty \in [DOMAIN empty -> TokNames] /\ DOMAIN empty = {}
  BY TokEmpty
<1>2. TokNoProc \in TokCommand /\ TokStepFits(TokNoProc)
  BY TokNoProcFits
<1>3. /\ tokRows = empty /\ tokNext = 0 /\ tokFile = 0 /\ tokLock = 0 /\ tokProfiles = empty
      /\ tokBroken = FALSE /\ tokProc = [p \in TokProcs |-> TokNoProc]
  BY DEF TokInit
<1> HIDE DEF empty
<1>4. TokTypes
  <2>1. tokProc \in [TokProcs -> TokCommand] /\ \A p \in TokProcs : tokProc[p] = TokNoProc
    BY <1>2, <1>3
  <2>2. DOMAIN tokRows \subseteq 1 .. tokNext /\ tokRows \in [DOMAIN tokRows -> TokNames]
    BY <1>1, <1>3
  <2>3. tokNext \in Nat /\ tokFile \in 0 .. tokNext
    BY <1>3
  <2>4. tokLock \in TokProcs \cup {0} /\ tokBroken \in BOOLEAN /\ tokProfiles \in TokData
    BY <1>1, <1>3
  <2>5. \A p \in TokProcs : TokStepFits(tokProc[p])
    BY <1>2, <2>1
  <2> QED
    BY <2>1, <2>2, <2>3, <2>4, <2>5 DEF TokTypes
<1>5. TokOneLocal
  BY <1>1, <1>3 DEF TokOneLocal, TokLive
<1>6. \A p \in TokProcs : tokProc[p].step = "idle" /\ tokProc[p].result = "none"
  BY <1>3 DEF TokNoProc
<1> QED
  BY <1>3, <1>4, <1>5, <1>6
     DEF TokInv, FileIsLive, LoginKeepsProfiles, TokAt, TokMakerSound, TokRunSound, TokAccepted, TokRunAt

(* Another command goes on, at most less calm than it was. *)
TokAside(q) ==
  /\ tokProc'[q] = [tokProc[q] EXCEPT !.calm = tokProc'[q].calm]
  /\ tokProc'[q].calm => tokProc[q].calm

LEMMA TokAsideFits ==
  ASSUME TokInv, NEW q \in TokProcs, tokProc' \in [TokProcs -> TokCommand], TokAside(q)
  PROVE  /\ tokProc'[q].kind = tokProc[q].kind /\ tokProc'[q].step = tokProc[q].step
         /\ tokProc'[q].name = tokProc[q].name /\ tokProc'[q].got = tokProc[q].got
         /\ tokProc'[q].data = tokProc[q].data /\ tokProc'[q].overlap = tokProc[q].overlap
         /\ tokProc'[q].result = tokProc[q].result /\ (tokProc'[q].calm => tokProc[q].calm)
<1>1. tokProc[q] \in TokCommand /\ tokProc'[q] \in TokCommand
  BY DEF TokInv, TokTypes
<1> QED
  BY <1>1 DEF TokAside, TokCommand

(* The local-cli token stays what it was, and ids are not used again. *)
TokKeepsLocal ==
  /\ tokNext' \in {tokNext, tokNext + 1}
  /\ DOMAIN tokRows' \subseteq 1 .. tokNext' /\ tokRows' \in [DOMAIN tokRows' -> TokNames]
  /\ \A i : TokLive(i)' <=> TokLive(i)
  /\ \A i \in 1 .. tokNext : i \in DOMAIN tokRows' => i \in DOMAIN tokRows

(* A step of a command that touches neither the local token nor files. *)
LEMMA TokStep ==
  ASSUME TokInv, NEW p \in TokProcs, tokProc' \in [TokProcs -> TokCommand], TokStepFits(tokProc[p])',
         \A q \in TokProcs \ {p} : TokAside(q), TokKeepsLocal, tokFile' = tokFile,
         tokProfiles' = tokProfiles, tokBroken' \in BOOLEAN, tokBroken => tokBroken',
         tokLock' \in TokProcs \cup {0}, \A q \in TokProcs \ {p} : tokLock = q => tokLock' = q,
         tokProc'[p].step \notin {"rm", "file"},
         tokProc[p].step \in {"rm", "file"} => tokBroken',
         tokProc'[p].step = "save" => tokProc'[p].data = tokProfiles,
         tokProc'[p].kind = "run" /\ tokProc'[p].step \in {"again", "swap"} => tokLock' = p,
         tokProc'[p].kind = "run" /\ tokProc'[p].step = "swap" => tokFile = 0,
         tokProc'[p].kind = "run" /\ tokProc'[p].step = "request" /\ tokProc'[p].calm =>
           /\ tokProc'[p].got = tokFile /\ TokLive(tokFile)
           /\ \A q \in TokProcs \ {p} : tokProc[q].step \notin {"rm", "file"} /\ ~TokRunAt(q, {"swap"}),
         tokProc'[p].kind = "run" /\ tokProc'[p].result = "rejected" => ~tokProc'[p].calm
  PROVE  TokInv'
<1>1. \A q \in TokProcs \ {p} :
         /\ tokProc'[q].kind = tokProc[q].kind /\ tokProc'[q].step = tokProc[q].step
         /\ tokProc'[q].name = tokProc[q].name /\ tokProc'[q].got = tokProc[q].got
         /\ tokProc'[q].data = tokProc[q].data /\ tokProc'[q].overlap = tokProc[q].overlap
         /\ tokProc'[q].result = tokProc[q].result /\ (tokProc'[q].calm => tokProc[q].calm)
  BY TokAsideFits
<1>2. TokTypes'
  <2>1. tokNext \in Nat /\ tokNext' \in Nat /\ tokFile \in 0 .. tokNext'
    BY DEF TokInv, TokTypes, TokKeepsLocal
  <2>2. \A q \in TokProcs : TokStepFits(tokProc[q])'
    BY <1>1, <2>1 DEF TokInv, TokTypes, TokStepFits, TokKeepsLocal
  <2> QED
    BY <2>1, <2>2 DEF TokInv, TokTypes, TokKeepsLocal
<1>3. TokOneLocal'
  BY DEF TokInv, TokOneLocal, TokKeepsLocal
<1>4. FileIsLive'
  <2>1. \A i : i \in TokNamed(LocalCli) <=> TokLive(i)
    BY DEF TokNamed, TokLive
  <2>2. \A i : (i \in TokNamed(LocalCli))' <=> TokLive(i)'
    BY DEF TokNamed, TokLive
  <2> QED
    BY <1>1, <2>1, <2>2 DEF TokInv, FileIsLive, TokKeepsLocal
<1>5. LoginKeepsProfiles'
  BY <1>1 DEF TokInv, LoginKeepsProfiles, TokAt
<1>6. ASSUME NEW q \in TokProcs
      PROVE  TokMakerSound(q)' /\ TokRunSound(q)' /\ TokAccepted(q)'
  <2>1. TokMakerSound(q) /\ TokRunSound(q) /\ TokAccepted(q) /\ TokStepFits(tokProc[q])
    BY DEF TokInv, TokTypes
  <2>2. TokMakerSound(q)'
    BY <1>1, <2>1 DEF TokMakerSound, TokRunAt, TokKeepsLocal, TokStepFits
  <2>3. TokRunSound(q)'
    <3>1. ~TokLive(0)
      BY DEF TokInv, TokTypes, TokLive
    <3> QED
      BY <1>1, <2>1, <3>1 DEF TokRunSound, TokRunAt, TokKeepsLocal
  <2>4. TokAccepted(q)'
    BY <1>1, <2>1 DEF TokAccepted
  <2> QED
    BY <2>2, <2>3, <2>4
<1> QED
  BY <1>2, <1>3, <1>4, <1>5, <1>6 DEF TokInv

(* A step of a command that touches no tokens, files or other commands. *)
LEMMA TokOwnStep ==
  ASSUME TokInv, NEW p \in TokProcs, NEW new \in TokCommand, TokStepFits(new),
         TokGo(p, new), tokRows' = tokRows, tokNext' = tokNext, tokFile' = tokFile,
         tokProfiles' = tokProfiles, tokBroken' \in BOOLEAN, tokBroken => tokBroken',
         tokLock' \in TokProcs \cup {0}, \A q \in TokProcs \ {p} : tokLock = q => tokLock' = q,
         new.step \notin {"rm", "file"},
         tokProc[p].step \in {"rm", "file"} => tokBroken',
         new.step = "save" => new.data = tokProfiles,
         new.kind = "run" /\ new.step \in {"again", "swap"} => tokLock' = p,
         new.kind = "run" /\ new.step = "swap" => tokFile = 0,
         new.kind = "run" /\ new.step = "request" /\ new.calm =>
           /\ new.got = tokFile /\ TokLive(tokFile)
           /\ \A q \in TokProcs \ {p} : tokProc[q].step \notin {"rm", "file"} /\ ~TokRunAt(q, {"swap"}),
         new.kind = "run" /\ new.result = "rejected" => ~new.calm
  PROVE  TokInv'
<1>1. /\ tokProc \in [TokProcs -> TokCommand] /\ tokProc' \in [TokProcs -> TokCommand]
      /\ tokProc'[p] = new /\ \A q \in TokProcs : q # p => tokProc'[q] = tokProc[q]
  BY DEF TokInv, TokTypes, TokGo
<1>2. TokStepFits(tokProc[p])'
  BY <1>1 DEF TokStepFits
<1>3. \A q \in TokProcs \ {p} : TokAside(q)
  BY <1>1 DEF TokAside, TokCommand
<1>4. TokKeepsLocal
  BY DEF TokInv, TokTypes, TokKeepsLocal, TokLive
<1> QED
  BY <1>1, <1>2, <1>3, <1>4, TokStep

(* The record of a command that ends. *)
LEMMA TokEndedFits ==
  ASSUME TokInv, NEW p \in TokProcs, NEW result \in TokResults
  PROVE  LET new == TokEnded(p, result)
         IN /\ new \in TokCommand /\ TokStepFits(new)
            /\ new.step = "done" /\ new.result = result
            /\ new.kind = tokProc[p].kind /\ new.calm = tokProc[p].calm
<1>1. tokProc[p] \in TokCommand
  BY DEF TokInv, TokTypes
<1>2. TokNoProc \in TokCommand /\ TokStepFits(TokNoProc)
  BY TokNoProcFits
<1>3. /\ TokEnded(p, result) \in TokCommand /\ TokEnded(p, result).step = "done"
      /\ TokEnded(p, result).result = result /\ TokEnded(p, result).kind = tokProc[p].kind
      /\ TokEnded(p, result).calm = tokProc[p].calm
  BY <1>1, <1>2 DEF TokEnded, TokCommand, TokSteps
<1> QED
  BY <1>3 DEF TokStepFits


LEMMA TokEndStep ==
  ASSUME TokInv, NEW p \in TokProcs, NEW result \in TokResults, TokEnd(p, result),
         tokRows' = tokRows, tokNext' = tokNext, tokFile' = tokFile,
         tokProfiles' = tokProfiles, tokBroken' \in BOOLEAN, tokBroken => tokBroken',
         tokLock' \in TokProcs \cup {0}, \A q \in TokProcs \ {p} : tokLock = q => tokLock' = q,
         tokProc[p].step \in {"rm", "file"} => tokBroken',
         tokProc[p].kind = "run" /\ result = "rejected" => ~tokProc[p].calm
  PROVE  TokInv'
<1> DEFINE new == TokEnded(p, result)
<1>1. /\ new \in TokCommand /\ TokStepFits(new) /\ new.step = "done" /\ new.result = result
      /\ new.kind = tokProc[p].kind /\ new.calm = tokProc[p].calm
  BY TokEndedFits
<1>2. TokGo(p, new)
  BY DEF TokEnd
<1> HIDE DEF new
<1> QED
  BY <1>1, <1>2, TokOwnStep

(* A command that only goes on to another step. *)
LEMMA TokStepOf ==
  ASSUME TokInv, NEW p \in TokProcs, NEW step \in TokSteps
  PROVE  LET new == [tokProc[p] EXCEPT !.step = step]
         IN /\ new \in TokCommand /\ new.step = step /\ new.kind = tokProc[p].kind
            /\ new.name = tokProc[p].name /\ new.got = tokProc[p].got /\ new.data = tokProc[p].data
            /\ new.calm = tokProc[p].calm /\ new.result = tokProc[p].result
            /\ tokProc[p] \in TokCommand /\ TokStepFits(tokProc[p]) /\ TokAccepted(p)
<1>1. tokProc[p] \in TokCommand /\ TokStepFits(tokProc[p]) /\ TokAccepted(p)
  BY DEF TokInv, TokTypes
<1> QED
  BY <1>1 DEF TokCommand

LEMMA TokBeginKeeps == ASSUME TokInv, NEW p \in TokProcs, TokBegin(p) PROVE TokInv'
<1>1. PICK kind \in {"create", "local", "revoke", "run", "login", "remote"} : \E name \in TokArguments(kind) :
        TokGo(p, [TokNoProc EXCEPT !.kind = kind, !.name = name, !.step = TokFirst(kind)])
  BY DEF TokBegin
<1>2. PICK name \in TokArguments(kind) :
        TokGo(p, [TokNoProc EXCEPT !.kind = kind, !.name = name, !.step = TokFirst(kind)])
  BY <1>1
<1>3. /\ tokRows' = tokRows /\ tokNext' = tokNext /\ tokFile' = tokFile /\ tokProfiles' = tokProfiles
      /\ tokBroken' = tokBroken /\ tokLock' = tokLock /\ tokProc[p].step \in {"idle", "done"}
  BY DEF TokBegin, TokDb, TokFiles
<1> DEFINE new == [TokNoProc EXCEPT !.kind = kind, !.name = name, !.step = TokFirst(kind)]
<1>4. /\ name \in {""} \cup TokNames \cup TokServers
      /\ kind = "create" => name \in TokNames \ {LocalCli}
      /\ kind = "login" => name \in TokServers
  BY DEF TokArguments
<1>5. /\ TokFirst(kind) \in {"check", "swap", "delete", "look", "prompt", "select"}
      /\ TokFirst(kind) = "check" => kind = "create"
      /\ TokFirst(kind) = "swap" => kind = "local"
      /\ TokFirst(kind) = "delete" => kind = "revoke"
      /\ TokFirst(kind) = "prompt" => kind = "login"
  BY DEF TokFirst
<1>6. TokNoProc \in TokCommand /\ TokNoProc.result = "none"
  BY TokNoProcFits DEF TokNoProc
<1>7. /\ new \in TokCommand /\ new.kind = kind /\ new.name = name /\ new.step = TokFirst(kind)
      /\ new.result = "none"
  <2>1. kind \in TokKinds
    BY DEF TokKinds
  <2>2. TokFirst(kind) \in TokSteps
    BY <1>5 DEF TokSteps
  <2> QED
    BY <1>4, <1>6, <2>1, <2>2 DEF TokCommand
<1> HIDE DEF new
<1>8. TokStepFits(new)
  BY <1>4, <1>5, <1>7 DEF TokStepFits
<1>9. tokBroken \in BOOLEAN /\ tokLock \in TokProcs \cup {0}
  BY DEF TokInv, TokTypes
<1>10. TokGo(p, new)
  BY <1>2 DEF new
<1> QED
  BY <1>3, <1>5, <1>7, <1>8, <1>9, <1>10, TokOwnStep

LEMMA TokLookKeeps ==
  ASSUME TokInv, NEW p \in TokProcs,
         TokLook(p) \/ TokTakeLock(p) \/ TokLookAgain(p)
  PROVE  TokInv'
<1>1. /\ tokRows' = tokRows /\ tokNext' = tokNext /\ tokFile' = tokFile /\ tokProfiles' = tokProfiles
      /\ tokBroken' = tokBroken /\ tokBroken \in BOOLEAN /\ tokLock \in TokProcs \cup {0}
  BY DEF TokLook, TokTakeLock, TokLookAgain, TokDb, TokFiles, TokInv, TokTypes
<1>2. PICK step \in {"select", "lock", "again", "swap"} :
        /\ TokGo(p, [tokProc[p] EXCEPT !.step = step])
        /\ step \in {"again", "swap"} => tokLock' = p
        /\ step = "swap" => tokFile = 0
        /\ tokProc[p].step \in {"look", "lock", "again"} /\ tokProc[p].kind = "run"
        /\ tokLock' \in {tokLock, p, 0} /\ (tokLock' # tokLock => tokLock \in {0, p})
  <2>1. CASE TokLook(p)
    BY <2>1 DEF TokLook, TokAt
  <2>2. CASE TokTakeLock(p)
    BY <2>2 DEF TokTakeLock, TokAt, TokLockFree
  <2>3. CASE TokLookAgain(p)
    <3>1. TokMakerSound(p)
      BY DEF TokInv
    <3> QED
      BY <2>3, <3>1 DEF TokLookAgain, TokAt, TokMade, TokReleased, TokMakerSound, TokRunAt
  <2> QED
    BY <2>1, <2>2, <2>3
<1> DEFINE new == [tokProc[p] EXCEPT !.step = step]
<1>3. step \in TokSteps
  BY DEF TokSteps
<1>4. /\ new \in TokCommand /\ new.step = step /\ new.kind = "run"
      /\ new.calm = tokProc[p].calm /\ new.result = tokProc[p].result /\ TokAccepted(p)
  BY <1>2, <1>3, TokStepOf
<1> HIDE DEF new
<1>5. TokStepFits(new)
  BY <1>4 DEF TokStepFits
<1>6. TokGo(p, new)
  BY <1>2 DEF new
<1>7. tokLock' \in TokProcs \cup {0} /\ \A q \in TokProcs \ {p} : tokLock = q => tokLock' = q
  BY <1>1, <1>2, TokAssumption
<1>8. new.kind = "run" /\ new.result = "rejected" => ~new.calm
  BY <1>2, <1>4 DEF TokAccepted
<1> QED
  BY <1>1, <1>2, <1>4, <1>5, <1>6, <1>7, <1>8, TokOwnStep

LEMMA TokCheckKeeps == ASSUME TokInv, NEW p \in TokProcs, TokCheck(p) PROVE TokInv'
<1>1. /\ tokRows' = tokRows /\ tokNext' = tokNext /\ tokFile' = tokFile /\ tokProfiles' = tokProfiles
      /\ tokBroken' = tokBroken /\ tokLock' = tokLock
      /\ tokBroken \in BOOLEAN /\ tokLock \in TokProcs \cup {0}
      /\ tokProc[p].kind = "create" /\ tokProc[p].step = "check"
  BY DEF TokCheck, TokAt, TokDb, TokFiles, TokInv, TokTypes
<1>2. CASE TokEnd(p, "error")
  BY <1>1, <1>2, TokEndStep DEF TokResults
<1>3. CASE TokGo(p, [tokProc[p] EXCEPT !.step = "insert"])
  <2> DEFINE new == [tokProc[p] EXCEPT !.step = "insert"]
  <2>1. /\ new \in TokCommand /\ new.step = "insert" /\ new.kind = "create" /\ new.name = tokProc[p].name
        /\ TokStepFits(tokProc[p])
    <3>1. "insert" \in TokSteps
      BY DEF TokSteps
    <3> QED
      BY <1>1, <3>1, TokStepOf
  <2>2. TokGo(p, new)
    BY <1>3
  <2> HIDE DEF new
  <2>3. TokStepFits(new)
    BY <1>1, <2>1 DEF TokStepFits
  <2> QED
    BY <1>1, <2>1, <2>2, <2>3, TokOwnStep
<1> QED
  BY <1>2, <1>3 DEF TokCheck

(* The servers a command may select are tokens of the profiles. *)
LEMMA TokSelectedFits == ASSUME TokInv, NEW chosen PROVE TokSelected(chosen) \subseteq Nat
<1>1. \A n \in DOMAIN tokProfiles : tokProfiles[n] \in Nat
  BY DEF TokInv, TokTypes, TokData
<1> QED
  BY <1>1 DEF TokSelected, Range

LEMMA TokSelectKeeps == ASSUME TokInv, NEW p \in TokProcs, TokSelect(p) PROVE TokInv'
<1>1. /\ tokRows' = tokRows /\ tokNext' = tokNext /\ tokFile' = tokFile /\ tokProfiles' = tokProfiles
      /\ tokBroken' = tokBroken /\ tokLock' = tokLock
      /\ tokBroken \in BOOLEAN /\ tokLock \in TokProcs \cup {0}
      /\ tokProc[p].kind \in {"run", "remote"} /\ tokProc[p].step = "select"
  BY DEF TokSelect, TokAt, TokDb, TokFiles, TokInv, TokTypes
<1> DEFINE found == IF tokProc[p].kind = "run" THEN {tokFile} \ {0} ELSE TokSelected(tokProc[p].name)
           got == CHOOSE i \in found : TRUE
           calm == /\ tokProc[p].calm /\ ~tokBroken /\ TokOthersAt(p, "rm") = {}
                   /\ ~\E q \in TokOthersAt(p, "file") : tokProc[q].kind = "local"
           new == [tokProc[p] EXCEPT !.step = "request", !.got = got, !.calm = calm]
<1>2. CASE TokEnd(p, "usage")
  BY <1>1, <1>2, TokEndStep DEF TokResults
<1>3. CASE found # {} /\ TokGo(p, new)
  <2>1. got \in found /\ found \subseteq Nat
    <3>1. found \subseteq Nat
      BY TokSelectedFits DEF TokInv, TokTypes
    <3> QED
      BY <1>3, <3>1
  <2>2. tokProc[p].kind = "run" => got = tokFile /\ tokFile # 0
    BY <2>1
  <2>3. calm \in BOOLEAN
    OBVIOUS
  <2>4. tokProc[p] \in TokCommand /\ TokStepFits(tokProc[p]) /\ TokAccepted(p)
    BY DEF TokInv, TokTypes
  <2>5. got \in Nat
    BY <2>1
  <2>6. calm => /\ tokProc[p].calm /\ ~tokBroken
                /\ \A q \in TokProcs \ {p} :
                     tokProc[q].step # "rm" /\ (tokProc[q].step = "file" => tokProc[q].kind # "local")
    BY DEF TokOthersAt
  <2> HIDE DEF calm, got
  <2>7. /\ new \in TokCommand /\ new.step = "request" /\ new.kind = tokProc[p].kind
        /\ new.got = got /\ new.calm = calm /\ new.result = tokProc[p].result
    BY <2>3, <2>4, <2>5 DEF TokCommand, TokSteps
  <2> HIDE DEF new
  <2>8. TokStepFits(new)
    BY <2>7 DEF TokStepFits
  <2>9. ASSUME new.kind = "run", new.calm
        PROVE  /\ new.got = tokFile /\ TokLive(tokFile)
               /\ \A q \in TokProcs \ {p} : tokProc[q].step \notin {"rm", "file"} /\ ~TokRunAt(q, {"swap"})
    <3>1. /\ new.got = tokFile /\ tokFile # 0 /\ ~tokBroken
      BY <2>2, <2>6, <2>7, <2>9
    <3>2. ASSUME NEW q \in TokProcs \ {p}
          PROVE  tokProc[q].step \notin {"rm", "file"} /\ ~TokRunAt(q, {"swap"})
      <4>1. TokMakerSound(q) /\ TokStepFits(tokProc[q])
        BY DEF TokInv, TokTypes
      <4>2. tokProc[q].step # "rm" /\ (tokProc[q].step = "file" => tokProc[q].kind # "local")
        BY <2>6, <2>7, <2>9
      <4>3. tokProc[q].step = "file" => tokProc[q].kind = "run"
        BY <4>1, <4>2 DEF TokStepFits
      <4>4. ~TokRunAt(q, {"swap", "file"})
        BY <3>1, <4>1 DEF TokMakerSound
      <4> QED
        BY <4>2, <4>3, <4>4 DEF TokRunAt
    <3>3. TokLive(tokFile)
      <4>1. tokFile \in TokNamed(LocalCli) \/ \E q \in TokProcs : tokProc[q].step \in {"file", "rm"}
        BY <3>1 DEF TokInv, FileIsLive
      <4> QED
        BY <1>1, <3>2, <4>1 DEF TokNamed, TokLive
    <3> QED
      BY <3>1, <3>2, <3>3
  <2>10. new.kind = "run" /\ new.result = "rejected" => ~new.calm
    BY <2>4, <2>6, <2>7 DEF TokAccepted
  <2>11. TokGo(p, new)
    BY <1>3 DEF new
  <2> QED
    BY <1>1, <2>7, <2>8, <2>9, <2>10, <2>11, TokOwnStep
<1> QED
  BY <1>2, <1>3 DEF TokSelect

LEMMA TokRequestKeeps == ASSUME TokInv, NEW p \in TokProcs, TokRequest(p) PROVE TokInv'
<1>1. /\ tokRows' = tokRows /\ tokNext' = tokNext /\ tokFile' = tokFile /\ tokProfiles' = tokProfiles
      /\ tokBroken' = tokBroken /\ tokLock' = tokLock
      /\ tokBroken \in BOOLEAN /\ tokLock \in TokProcs \cup {0}
      /\ tokProc[p].step = "request" /\ TokEnd(p, TokAnswer(tokProc[p].got))
  BY DEF TokRequest, TokAt, TokDb, TokFiles, TokInv, TokTypes
<1>2. TokAnswer(tokProc[p].got) \in TokResults
  BY DEF TokAnswer, TokResults
<1>3. tokProc[p].kind = "run" /\ TokAnswer(tokProc[p].got) = "rejected" => ~tokProc[p].calm
  <2>1. TokRunSound(p)
    BY DEF TokInv
  <2> QED
    BY <1>1, <2>1 DEF TokRunSound, TokRunAt, TokLive, TokAnswer
<1> QED
  BY <1>1, <1>2, <1>3, TokEndStep

LEMMA TokLoginKeeps ==
  ASSUME TokInv, NEW p \in TokProcs, TokPrompt(p) \/ TokWhoami(p) \/ TokLoad(p)
  PROVE  TokInv'
<1>1. /\ tokRows' = tokRows /\ tokNext' = tokNext /\ tokFile' = tokFile /\ tokProfiles' = tokProfiles
      /\ tokBroken' = tokBroken /\ tokLock' = tokLock
      /\ tokBroken \in BOOLEAN /\ tokLock \in TokProcs \cup {0}
      /\ tokProc[p].kind = "login" /\ tokProc[p].step \in {"prompt", "who", "load"}
  BY DEF TokPrompt, TokWhoami, TokLoad, TokAt, TokDb, TokFiles, TokInv, TokTypes
<1>2. CASE TokEnd(p, "usage") \/ TokEnd(p, "error")
  <2>1. PICK result \in TokResults : TokEnd(p, result)
    BY <1>2 DEF TokResults
  <2> QED
    BY <1>1, <2>1, TokEndStep
<1>3. tokProc[p] \in TokCommand /\ tokProc[p].name \in TokServers /\ tokProfiles \in TokData /\ tokNext \in Nat
  BY <1>1 DEF TokInv, TokTypes, TokStepFits
<1>4. ASSUME NEW new \in TokCommand, TokGo(p, new), new.kind = "login", new.name = tokProc[p].name,
             new.step \in {"who", "load", "save"}, new.step = "save" => new.data = tokProfiles
      PROVE  TokInv'
  <2>1. TokStepFits(new)
    BY <1>3, <1>4 DEF TokStepFits
  <2> QED
    BY <1>1, <1>4, <2>1, TokOwnStep
<1>5. CASE TokPrompt(p) /\ ~TokEnd(p, "usage")
  <2>1. PICK i \in 1 .. tokNext : TokGo(p, [tokProc[p] EXCEPT !.got = i, !.step = "who"])
    BY <1>5 DEF TokPrompt, TokLoginNext
  <2> DEFINE new == [tokProc[p] EXCEPT !.got = i, !.step = "who"]
  <2>2. new \in TokCommand /\ new.kind = "login" /\ new.name = tokProc[p].name /\ new.step = "who"
    <3>1. i \in Nat
      BY <1>3
    <3> QED
      BY <1>1, <1>3, <3>1 DEF TokCommand, TokSteps
  <2> QED
    BY <1>4, <2>1, <2>2
<1>6. CASE TokWhoami(p) /\ ~TokEnd(p, "error")
  <2> DEFINE new == [tokProc[p] EXCEPT !.step = "load"]
  <2>1. TokGo(p, new)
    BY <1>6 DEF TokWhoami, TokLoginNext
  <2>2. new \in TokCommand /\ new.kind = "login" /\ new.name = tokProc[p].name /\ new.step = "load"
    BY <1>1, <1>3 DEF TokCommand, TokSteps
  <2> QED
    BY <1>4, <2>1, <2>2
<1>7. CASE TokLoad(p)
  <2> DEFINE new == [tokProc[p] EXCEPT !.data = tokProfiles, !.step = "save"]
  <2>1. TokGo(p, new)
    BY <1>7 DEF TokLoad, TokLoginNext
  <2>2. /\ new \in TokCommand /\ new.kind = "login" /\ new.name = tokProc[p].name /\ new.step = "save"
        /\ new.data = tokProfiles
    BY <1>1, <1>3 DEF TokCommand, TokSteps
  <2> QED
    BY <1>4, <2>1, <2>2
<1> QED
  BY <1>2, <1>5, <1>6, <1>7

LEMMA TokKillKeeps == ASSUME TokInv, NEW p \in TokProcs, TokKill(p) PROVE TokInv'
<1>1. /\ tokRows' = tokRows /\ tokNext' = tokNext /\ tokFile' = tokFile /\ tokProfiles' = tokProfiles
      /\ tokBroken' = (tokBroken \/ tokProc[p].step \in {"file", "rm"}) /\ TokEnd(p, "killed")
      /\ tokLock' = TokReleased(p) /\ tokLock \in TokProcs \cup {0}
  BY DEF TokKill, TokDb, TokFiles, TokInv, TokTypes
<1>2. /\ tokLock' \in TokProcs \cup {0} /\ \A q \in TokProcs \ {p} : tokLock = q => tokLock' = q
      /\ "killed" \in TokResults
  BY <1>1 DEF TokReleased, TokResults
<1> QED
  BY <1>1, <1>2, TokEndStep

(* A token that is added has a new id. *)
LEMMA TokWithFits ==
  ASSUME NEW rows, NEW name \in TokNames, tokNext \in Nat,
         DOMAIN rows \subseteq 1 .. tokNext, rows \in [DOMAIN rows -> TokNames]
  PROVE  LET with == TokWith(rows, name)
         IN /\ DOMAIN with = DOMAIN rows \cup {tokNext + 1}
            /\ with[tokNext + 1] = name /\ \A i \in DOMAIN rows : with[i] = rows[i]
            /\ with \in [DOMAIN with -> TokNames] /\ DOMAIN with \subseteq 1 .. tokNext + 1
            /\ tokNext + 1 \notin DOMAIN rows
<1> DEFINE with == TokWith(rows, name)
<1>1. with = [i \in DOMAIN rows \cup {tokNext + 1} |-> IF i = tokNext + 1 THEN name ELSE rows[i]]
  BY DEF TokWith, TokPut
<1> HIDE DEF with
<1>2. tokNext + 1 \notin DOMAIN rows
  OBVIOUS
<1>3. DOMAIN with = DOMAIN rows \cup {tokNext + 1} /\ with[tokNext + 1] = name
  BY <1>1
<1>4. \A i \in DOMAIN rows : with[i] = rows[i]
  BY <1>1, <1>2
<1>5. with \in [DOMAIN with -> TokNames]
  BY <1>1, <1>3
<1>6. DOMAIN with \subseteq 1 .. tokNext + 1
  BY <1>3
<1> QED
  BY <1>2, <1>3, <1>4, <1>5, <1>6 DEF with

LEMMA TokInsertKeeps == ASSUME TokInv, NEW p \in TokProcs, TokInsert(p) PROVE TokInv'
<1>1. /\ tokFile' = tokFile /\ tokProfiles' = tokProfiles /\ tokBroken' = tokBroken /\ tokLock' = tokLock
      /\ tokBroken \in BOOLEAN /\ tokLock \in TokProcs \cup {0}
      /\ tokRows' = TokWith(tokRows, tokProc[p].name) /\ tokNext' = tokNext + 1 /\ TokEnd(p, "ok")
      /\ tokProc[p].kind = "create" /\ tokProc[p].step = "insert"
  BY DEF TokInsert, TokAt, TokFiles, TokInv, TokTypes
<1>2. tokProc[p].name \in TokNames \ {LocalCli}
  BY <1>1 DEF TokInv, TokTypes, TokStepFits
<1>3. TokKeepsLocal
  <2>1. /\ tokNext \in Nat /\ DOMAIN tokRows \subseteq 1 .. tokNext /\ tokRows \in [DOMAIN tokRows -> TokNames]
    BY DEF TokInv, TokTypes
  <2>2. /\ DOMAIN tokRows' = DOMAIN tokRows \cup {tokNext + 1} /\ tokNext + 1 \notin DOMAIN tokRows
        /\ tokRows'[tokNext + 1] = tokProc[p].name /\ \A i \in DOMAIN tokRows : tokRows'[i] = tokRows[i]
        /\ tokRows' \in [DOMAIN tokRows' -> TokNames] /\ DOMAIN tokRows' \subseteq 1 .. tokNext + 1
    <3> DEFINE with == TokWith(tokRows, tokProc[p].name)
    <3>1. /\ DOMAIN with = DOMAIN tokRows \cup {tokNext + 1} /\ tokNext + 1 \notin DOMAIN tokRows
          /\ with[tokNext + 1] = tokProc[p].name /\ \A i \in DOMAIN tokRows : with[i] = tokRows[i]
          /\ with \in [DOMAIN with -> TokNames] /\ DOMAIN with \subseteq 1 .. tokNext + 1
      BY <1>2, <2>1, TokWithFits
    <3>2. tokRows' = with
      BY <1>1
    <3> HIDE DEF with
    <3> QED
      BY <3>1, <3>2
  <2>3. \A i : TokLive(i)' <=> TokLive(i)
    BY <1>2, <2>2 DEF TokLive
  <2>4. \A i \in 1 .. tokNext : i \in DOMAIN tokRows' => i \in DOMAIN tokRows
    BY <2>1, <2>2
  <2> QED
    BY <1>1, <2>2, <2>3, <2>4 DEF TokKeepsLocal
<1> DEFINE new == TokEnded(p, "ok")
<1>4. /\ new \in TokCommand /\ new.step = "done" /\ new.result = "ok" /\ new.kind = tokProc[p].kind
  <2>1. "ok" \in TokResults
    BY DEF TokResults
  <2> QED
    BY <2>1, TokEndedFits
<1>5. tokProc' = [tokProc EXCEPT ![p] = new]
  BY <1>1 DEF TokEnd, TokGo
<1> HIDE DEF new
<1>6. /\ tokProc \in [TokProcs -> TokCommand] /\ tokProc' \in [TokProcs -> TokCommand]
      /\ tokProc'[p] = new /\ \A q \in TokProcs : q # p => tokProc'[q] = tokProc[q]
  BY <1>4, <1>5 DEF TokInv, TokTypes
<1>7. TokStepFits(tokProc[p])' /\ \A q \in TokProcs \ {p} : TokAside(q)
  BY <1>4, <1>6 DEF TokStepFits, TokAside, TokCommand
<1> QED
  BY <1>1, <1>3, <1>4, <1>6, <1>7, TokStep

(* What a revocation or a swap leaves of the other commands. *)
LEMMA TokAsideCalm ==
  ASSUME TokInv, NEW q \in TokProcs, NEW keeps \in BOOLEAN,
         tokProc'[q] = [tokProc[q] EXCEPT !.calm = @ /\ keeps]
  PROVE  tokProc'[q] \in TokCommand /\ TokAside(q) /\ tokProc'[q].calm = (tokProc[q].calm /\ keeps)
<1>1. tokProc[q] \in TokCommand
  BY DEF TokInv, TokTypes
<1>2. (tokProc[q].calm /\ keeps) \in BOOLEAN
  BY <1>1
<1>3. tokProc'[q].calm = (tokProc[q].calm /\ keeps)
  BY <1>1 DEF TokCommand
<1>4. tokProc'[q] \in TokCommand
  BY <1>1, <1>2 DEF TokCommand
<1> QED
  BY <1>3, <1>4 DEF TokAside

LEMMA TokDeleteKeeps == ASSUME TokInv, NEW p \in TokProcs, TokDelete(p) PROVE TokInv'
<1> DEFINE local == tokProc[p].name = LocalCli
           gone == TokNamed(tokProc[p].name)
<1>1. /\ tokFile' = tokFile /\ tokProfiles' = tokProfiles /\ tokLock' = tokLock /\ tokNext' = tokNext
      /\ tokBroken \in BOOLEAN /\ tokLock \in TokProcs \cup {0} /\ tokNext \in Nat
      /\ tokRows' = [i \in DOMAIN tokRows \ gone |-> tokRows[i]]
      /\ tokBroken' = (tokBroken \/ (local /\ TokOthersAt(p, "file") # {}))
      /\ tokProc[p].kind = "revoke" /\ tokProc[p].step = "delete"
      /\ tokProc' = [q \in TokProcs |->
          IF q # p THEN [tokProc[q] EXCEPT !.calm = @ /\ ~local]
          ELSE IF local THEN [tokProc[p] EXCEPT !.step = "rm"] ELSE TokEnded(p, "ok")]
  BY DEF TokDelete, TokAt, TokFiles, TokInv, TokTypes, Restrict
<1>2. /\ DOMAIN tokRows' = DOMAIN tokRows \ gone /\ \A i \in DOMAIN tokRows' : tokRows'[i] = tokRows[i]
      /\ DOMAIN tokRows' \subseteq 1 .. tokNext /\ tokRows' \in [DOMAIN tokRows' -> TokNames]
  BY <1>1 DEF TokInv, TokTypes
<1>3. \A i : TokLive(i)' <=> TokLive(i) /\ ~local
  BY <1>2 DEF TokLive, TokNamed
<1>4. ASSUME NEW q \in TokProcs \ {p}
      PROVE  tokProc'[q] \in TokCommand /\ TokAside(q) /\ tokProc'[q].calm = (tokProc[q].calm /\ ~local)
  <2>1. tokProc'[q] = [tokProc[q] EXCEPT !.calm = @ /\ ~local]
    BY <1>1
  <2>2. (~local) \in BOOLEAN
    OBVIOUS
  <2> HIDE DEF local
  <2> QED
    BY <2>1, <2>2, TokAsideCalm
<1>5. CASE ~local
  <2> DEFINE new == TokEnded(p, "ok")
  <2>1. new \in TokCommand /\ new.step = "done" /\ new.result = "ok" /\ new.kind = "revoke"
    <3>1. "ok" \in TokResults
      BY DEF TokResults
    <3> QED
      BY <1>1, <3>1, TokEndedFits
  <2>2. tokProc'[p] = new
    BY <1>1, <1>5
  <2> HIDE DEF new
  <2>3. tokProc' \in [TokProcs -> TokCommand]
    <3>1. \A q \in TokProcs : tokProc'[q] \in TokCommand
      BY <1>4, <2>1, <2>2
    <3>2. tokProc' = [q \in TokProcs |-> tokProc'[q]]
      BY <1>1
    <3> QED
      BY <3>1, <3>2
  <2>4. TokStepFits(tokProc[p])'
    BY <2>1, <2>2 DEF TokStepFits
  <2>5. TokKeepsLocal
    BY <1>1, <1>2, <1>3, <1>5 DEF TokKeepsLocal
  <2>6. tokBroken' = tokBroken
    BY <1>1, <1>5
  <2> QED
    BY <1>1, <1>4, <2>1, <2>2, <2>3, <2>4, <2>5, <2>6, TokStep
<1>6. CASE local
  <2> DEFINE new == [tokProc[p] EXCEPT !.step = "rm"]
  <2>1. new \in TokCommand /\ new.step = "rm" /\ new.kind = "revoke"
    <3>1. "rm" \in TokSteps
      BY DEF TokSteps
    <3> QED
      BY <1>1, <3>1, TokStepOf
  <2>2. tokProc'[p] = new
    BY <1>1, <1>6
  <2> HIDE DEF new
  <2>3. tokProc' \in [TokProcs -> TokCommand]
    <3>1. \A q \in TokProcs : tokProc'[q] \in TokCommand
      BY <1>4, <2>1, <2>2
    <3>2. tokProc' = [q \in TokProcs |-> tokProc'[q]]
      BY <1>1
    <3> QED
      BY <3>1, <3>2
  <2>4. \A q \in TokProcs \ {p} :
         /\ tokProc'[q].kind = tokProc[q].kind /\ tokProc'[q].step = tokProc[q].step
         /\ tokProc'[q].name = tokProc[q].name /\ tokProc'[q].got = tokProc[q].got
         /\ tokProc'[q].data = tokProc[q].data /\ tokProc'[q].overlap = tokProc[q].overlap
         /\ tokProc'[q].result = tokProc[q].result /\ ~tokProc'[q].calm
    BY <1>4, <1>6, <2>3, TokAsideFits
  <2>5. \A i : ~TokLive(i)'
    BY <1>3, <1>6
  <2>6. (tokBroken' = (tokBroken \/ \E q \in TokProcs \ {p} : tokProc[q].step = "file"))
    BY <1>1, <1>6 DEF TokOthersAt
  <2>7. TokTypes'
    <3>1. \A q \in TokProcs : TokStepFits(tokProc[q])'
      BY <1>1, <2>1, <2>2, <2>4 DEF TokInv, TokTypes, TokStepFits
    <3> QED
      BY <1>1, <1>2, <2>3, <3>1 DEF TokInv, TokTypes
  <2>8. TokOneLocal'
    BY <2>5 DEF TokOneLocal
  <2>9. FileIsLive'
    BY <2>1, <2>2 DEF FileIsLive
  <2>10. LoginKeepsProfiles'
    BY <1>1, <2>1, <2>2, <2>4 DEF TokInv, LoginKeepsProfiles, TokAt
  <2>11. ASSUME NEW q \in TokProcs
         PROVE  TokMakerSound(q)' /\ TokRunSound(q)' /\ TokAccepted(q)'
    <3>1. TokMakerSound(q) /\ TokRunSound(q) /\ TokAccepted(q) /\ TokStepFits(tokProc[q])
      BY DEF TokInv, TokTypes
    <3>2. TokMakerSound(q)'
      <4>1. CASE q = p
        BY <2>1, <2>2, <4>1 DEF TokMakerSound, TokRunAt
      <4>2. CASE q # p
        <5>1. tokProc'[q].step = "file" => tokProc'[q].got \notin DOMAIN tokRows'
          BY <1>2, <1>6, <2>4, <3>1, <4>2 DEF TokMakerSound, TokLive, TokNamed
        <5>2. tokProc[q].step = "file" => tokBroken'
          BY <2>6, <4>2
        <5>3. \A steps : TokRunAt(q, steps)' <=> TokRunAt(q, steps)
          BY <2>4, <4>2 DEF TokRunAt
        <5>4. tokBroken => tokBroken'
          BY <2>6
        <5>5. TokRunAt(q, {"again", "swap", "file"})' => tokLock' = q
          BY <1>1, <3>1, <5>3 DEF TokMakerSound
        <5>6. TokRunAt(q, {"swap", "file"})' => tokFile' = 0 \/ tokBroken'
          BY <1>1, <3>1, <5>3, <5>4 DEF TokMakerSound
        <5> QED
          BY <2>4, <4>2, <5>1, <5>2, <5>5, <5>6 DEF TokMakerSound
      <4> QED
        BY <4>1, <4>2
    <3>3. TokRunSound(q)'
      BY <2>1, <2>2, <2>4 DEF TokRunSound, TokRunAt
    <3>4. TokAccepted(q)'
      BY <2>1, <2>2, <2>4 DEF TokAccepted
    <3> QED
      BY <3>2, <3>3, <3>4
  <2> QED
    BY <2>7, <2>8, <2>9, <2>10, <2>11 DEF TokInv
<1> QED
  BY <1>5, <1>6

LEMMA TokRemoveFileKeeps == ASSUME TokInv, NEW p \in TokProcs, TokRemoveFile(p) PROVE TokInv'
<1> DEFINE new == TokEnded(p, "ok")
<1>1. /\ tokRows' = tokRows /\ tokNext' = tokNext /\ tokFile' = 0 /\ tokProfiles' = tokProfiles
      /\ tokLock' = tokLock /\ tokProc[p].step = "rm" /\ tokProc[p].kind = "revoke"
      /\ tokProc' = [tokProc EXCEPT ![p] = new]
      /\ tokBroken' = \E q \in TokOthersAt(p, "file") : tokProc[q].got \notin DOMAIN tokRows
  BY DEF TokRemoveFile, TokAt, TokDb, TokEnd, TokGo
<1>2. new \in TokCommand /\ new.step = "done" /\ new.result = "ok" /\ new.kind = "revoke"
  <2>1. "ok" \in TokResults
    BY DEF TokResults
  <2> QED
    BY <1>1, <2>1, TokEndedFits
<1>3. /\ tokProc \in [TokProcs -> TokCommand] /\ tokProc' \in [TokProcs -> TokCommand]
      /\ tokProc'[p] = new /\ \A q \in TokProcs : q # p => tokProc'[q] = tokProc[q]
  BY <1>1, <1>2 DEF TokInv, TokTypes
<1> HIDE DEF new
<1>4. tokBroken' = \E q \in TokProcs \ {p} : tokProc[q].step = "file" /\ tokProc[q].got \notin DOMAIN tokRows
  BY <1>1 DEF TokOthersAt
<1>5. TokTypes'
  <2>1. \A q \in TokProcs : TokStepFits(tokProc[q])'
    BY <1>1, <1>2, <1>3 DEF TokInv, TokTypes, TokStepFits
  <2> QED
    BY <1>1, <1>3, <1>4, <2>1 DEF TokInv, TokTypes
<1>6. TokOneLocal'
  BY <1>1 DEF TokInv, TokOneLocal, TokLive
<1>7. FileIsLive'
  BY <1>1 DEF FileIsLive
<1>8. LoginKeepsProfiles'
  BY <1>1, <1>2, <1>3 DEF TokInv, LoginKeepsProfiles, TokAt
<1>9. ASSUME NEW q \in TokProcs
      PROVE  TokMakerSound(q)' /\ TokRunSound(q)' /\ TokAccepted(q)'
  <2>1. TokMakerSound(q) /\ TokRunSound(q) /\ TokAccepted(q)
    BY DEF TokInv
  <2>2. TokMakerSound(q)'
    BY <1>1, <1>2, <1>3, <1>4, <2>1 DEF TokMakerSound, TokRunAt, TokLive
  <2>3. TokRunSound(q)'
    BY <1>1, <1>2, <1>3, <2>1 DEF TokRunSound, TokRunAt
  <2>4. TokAccepted(q)'
    BY <1>2, <1>3, <2>1 DEF TokAccepted
  <2> QED
    BY <2>2, <2>3, <2>4
<1> QED
  BY <1>5, <1>6, <1>7, <1>8, <1>9 DEF TokInv

LEMMA TokSwapKeeps == ASSUME TokInv, NEW p \in TokProcs, TokSwap(p) PROVE TokInv'
<1>1. /\ tokFile' = tokFile /\ tokProfiles' = tokProfiles /\ tokProc[p].step = "swap"
      /\ tokProc[p].kind \in {"local", "run"} /\ tokNext \in Nat
      /\ tokBroken \in BOOLEAN /\ tokLock \in TokProcs \cup {0}
  BY DEF TokSwap, TokAt, TokFiles, TokInv, TokTypes
<1>2. CASE tokUser = "none"
  <2>1. TokEnd(p, "error") /\ tokLock' = TokReleased(p) /\ tokRows' = tokRows /\ tokNext' = tokNext
        /\ tokBroken' = tokBroken
    BY <1>2 DEF TokSwap
  <2>2. /\ tokLock' \in TokProcs \cup {0} /\ \A q \in TokProcs \ {p} : tokLock = q => tokLock' = q
        /\ "error" \in TokResults
    BY <1>1, <2>1 DEF TokReleased, TokResults
  <2> QED
    BY <1>1, <2>1, <2>2, TokEndStep
<1>3. CASE tokUser # "none"
  <2> DEFINE kept == [i \in DOMAIN tokRows \ TokNamed(LocalCli) |-> tokRows[i]]
             calm == tokProc[p].kind = "run"
             new == [tokProc[p] EXCEPT !.step = "file", !.got = tokNext + 1]
  <2>1. /\ tokRows' = TokWith(kept, LocalCli) /\ tokNext' = tokNext + 1 /\ tokLock' = tokLock
        /\ tokBroken' = (tokBroken \/ TokUnlocked(p))
        /\ tokProc' = [q \in TokProcs |-> IF q # p THEN [tokProc[q] EXCEPT !.calm = @ /\ calm] ELSE new]
    BY <1>3 DEF TokSwap, TokSwapped, Restrict
  <2>2. /\ DOMAIN tokRows \subseteq 1 .. tokNext /\ tokRows \in [DOMAIN tokRows -> TokNames]
        /\ DOMAIN kept = {i \in DOMAIN tokRows : ~TokLive(i)}
        /\ kept \in [DOMAIN kept -> TokNames] /\ \A i \in DOMAIN kept : kept[i] = tokRows[i]
    BY DEF TokInv, TokTypes, TokNamed, TokLive
  <2>3. /\ DOMAIN tokRows' = DOMAIN kept \cup {tokNext + 1}
        /\ tokRows'[tokNext + 1] = LocalCli /\ \A i \in DOMAIN kept : tokRows'[i] = kept[i]
        /\ tokRows' \in [DOMAIN tokRows' -> TokNames] /\ DOMAIN tokRows' \subseteq 1 .. tokNext + 1
    <3> HIDE DEF kept
    <3> DEFINE with == TokWith(kept, LocalCli)
    <3>1. DOMAIN kept \subseteq 1 .. tokNext /\ LocalCli \in TokNames
      BY <2>2, TokAssumption
    <3>2. /\ DOMAIN with = DOMAIN kept \cup {tokNext + 1}
          /\ with[tokNext + 1] = LocalCli /\ \A i \in DOMAIN kept : with[i] = kept[i]
          /\ with \in [DOMAIN with -> TokNames] /\ DOMAIN with \subseteq 1 .. tokNext + 1
      BY <1>1, <2>2, <3>1, TokWithFits
    <3>3. tokRows' = with
      BY <2>1
    <3> HIDE DEF with
    <3> QED
      BY <3>2, <3>3
  <2> HIDE DEF kept
  <2>4. \A i : TokLive(i)' <=> i = tokNext + 1
    BY <1>1, <2>2, <2>3 DEF TokLive
  <2>5. /\ new \in TokCommand /\ new.step = "file" /\ new.got = tokNext + 1 /\ new.kind = tokProc[p].kind
        /\ new.result = tokProc[p].result /\ new.calm = tokProc[p].calm
    <3>1. tokProc[p] \in TokCommand /\ tokNext + 1 \in Nat
      BY <1>1 DEF TokInv, TokTypes
    <3> QED
      BY <3>1 DEF TokCommand, TokSteps
  <2>6. tokProc'[p] = new
    BY <2>1
  <2> HIDE DEF new
  <2>7. ASSUME NEW q \in TokProcs \ {p}
        PROVE  tokProc'[q] \in TokCommand /\ TokAside(q) /\ tokProc'[q].calm = (tokProc[q].calm /\ calm)
    <3>1. tokProc'[q] = [tokProc[q] EXCEPT !.calm = @ /\ calm]
      BY <2>1
    <3>2. calm \in BOOLEAN
      OBVIOUS
    <3> HIDE DEF calm
    <3> QED
      BY <3>1, <3>2, TokAsideCalm
  <2>8. tokProc' \in [TokProcs -> TokCommand]
    <3>1. \A q \in TokProcs : tokProc'[q] \in TokCommand
      BY <2>5, <2>6, <2>7
    <3>2. tokProc' = [q \in TokProcs |-> tokProc'[q]]
      BY <2>1
    <3> QED
      BY <3>1, <3>2
  <2>9. \A q \in TokProcs \ {p} :
         /\ tokProc'[q].kind = tokProc[q].kind /\ tokProc'[q].step = tokProc[q].step
         /\ tokProc'[q].name = tokProc[q].name /\ tokProc'[q].got = tokProc[q].got
         /\ tokProc'[q].data = tokProc[q].data /\ tokProc'[q].overlap = tokProc[q].overlap
         /\ tokProc'[q].result = tokProc[q].result
         /\ (tokProc'[q].calm => tokProc[q].calm /\ tokProc[p].kind = "run")
    BY <2>7, <2>8, TokAsideFits
  <2>10. TokMakerSound(p) /\ TokStepFits(tokProc[p]) /\ TokAccepted(p)
    BY DEF TokInv, TokTypes
  <2>11. TokTypes'
    <3>1. \A q \in TokProcs : TokStepFits(tokProc[q])'
      BY <1>1, <2>1, <2>5, <2>6, <2>9, <2>10 DEF TokInv, TokTypes, TokStepFits
    <3>2. tokFile' \in 0 .. tokNext'
      BY <1>1, <2>1 DEF TokInv, TokTypes
    <3>3. tokBroken' \in BOOLEAN /\ tokLock' \in TokProcs \cup {0} /\ tokProfiles' \in TokData /\ tokNext' \in Nat
      BY <1>1, <2>1 DEF TokUnlocked, TokInv, TokTypes
    <3> QED
      BY <2>1, <2>3, <2>8, <3>1, <3>2, <3>3 DEF TokTypes
  <2>12. TokOneLocal'
    BY <2>4 DEF TokOneLocal
  <2>13. FileIsLive'
    BY <2>5, <2>6 DEF FileIsLive
  <2>14. LoginKeepsProfiles'
    BY <1>1, <2>5, <2>6, <2>9 DEF TokInv, LoginKeepsProfiles, TokAt
  <2>15. ASSUME NEW q \in TokProcs
         PROVE  TokMakerSound(q)' /\ TokRunSound(q)' /\ TokAccepted(q)'
    <3>1. TokMakerSound(q) /\ TokRunSound(q) /\ TokAccepted(q) /\ TokStepFits(tokProc[q])
      BY DEF TokInv, TokTypes
    <3>2. TokMakerSound(q)'
      <4>1. CASE q = p
        BY <1>1, <2>1, <2>4, <2>5, <2>6, <2>10, <4>1 DEF TokMakerSound, TokRunAt
      <4>2. CASE q # p
        <5>1. \A steps : TokRunAt(q, steps)' <=> TokRunAt(q, steps)
          BY <2>9, <4>2 DEF TokRunAt
        <5>2. tokProc[q].step = "file" => tokBroken'
          <6>1. tokProc[q].step = "file" => tokProc[q].kind \in {"local", "run"}
            BY <3>1 DEF TokStepFits
          <6>2. ~(TokRunAt(q, {"again", "swap", "file"}) /\ TokRunAt(p, {"again", "swap", "file"}))
            BY <2>10, <3>1, <4>2 DEF TokMakerSound
          <6> QED
            BY <1>1, <2>1, <4>2, <6>1, <6>2 DEF TokUnlocked, TokOthersAt, TokRunAt
        <5>3. tokProc[q].step = "file" => tokProc[q].got \notin DOMAIN tokRows'
          BY <1>1, <2>2, <2>3, <3>1 DEF TokMakerSound, TokStepFits
        <5>4. TokRunAt(q, {"again", "swap", "file"})' => tokLock' = q
          BY <2>1, <3>1, <5>1 DEF TokMakerSound
        <5>5. TokRunAt(q, {"swap", "file"})' => tokFile' = 0 \/ tokBroken'
          BY <1>1, <2>1, <3>1, <5>1 DEF TokMakerSound
        <5> QED
          BY <2>9, <4>2, <5>2, <5>3, <5>4, <5>5 DEF TokMakerSound
      <4> QED
        BY <4>1, <4>2
    <3>3. TokRunSound(q)'
      BY <1>1, <2>5, <2>6, <2>9, <3>1 DEF TokRunSound, TokRunAt
    <3>4. TokAccepted(q)'
      BY <2>5, <2>6, <2>9, <2>10, <3>1 DEF TokAccepted
    <3> QED
      BY <3>2, <3>3, <3>4
  <2> QED
    BY <2>11, <2>12, <2>13, <2>14, <2>15 DEF TokInv
<1> QED
  BY <1>2, <1>3

LEMMA TokWriteFileKeeps == ASSUME TokInv, NEW p \in TokProcs, TokWriteFile(p) PROVE TokInv'
<1>1. /\ tokRows' = tokRows /\ tokNext' = tokNext /\ tokProfiles' = tokProfiles
      /\ tokFile' = tokProc[p].got /\ tokLock' = TokReleased(p)
      /\ tokProc[p].step = "file" /\ tokProc[p].kind \in {"local", "run"}
      /\ tokBroken' = (\/ tokLock \notin {0, p}
                       \/ (tokBroken /\ (tokProc[p].got \notin DOMAIN tokRows \/ TokOthersAt(p, "file") # {})))
  BY DEF TokWriteFile, TokAt, TokDb
<1>2. /\ tokProc \in [TokProcs -> TokCommand] /\ tokBroken \in BOOLEAN /\ tokLock \in TokProcs \cup {0}
      /\ tokProc[p].got \in 1 .. tokNext /\ tokProc[p] \in TokCommand
  BY <1>1 DEF TokInv, TokTypes, TokStepFits
<1>3. PICK new \in TokCommand :
        /\ tokProc' = [tokProc EXCEPT ![p] = new]
        /\ new.step \in {"done", "select"} /\ new.kind = tokProc[p].kind
        /\ new.kind = "run" /\ new.result = "rejected" => ~new.calm
  <2>1. CASE tokProc[p].kind = "local"
    <3>1. tokProc' = [tokProc EXCEPT ![p] = TokEnded(p, "ok")]
      BY <2>1 DEF TokWriteFile, TokEnd, TokGo
    <3>2. "ok" \in TokResults
      BY DEF TokResults
    <3>3. /\ TokEnded(p, "ok") \in TokCommand /\ TokEnded(p, "ok").step = "done"
          /\ TokEnded(p, "ok").kind = tokProc[p].kind
      BY <3>2, TokEndedFits
    <3> QED
      BY <2>1, <3>1, <3>3
  <2>2. CASE tokProc[p].kind # "local"
    <3> DEFINE new == [tokProc[p] EXCEPT !.step = "select", !.got = 0]
    <3>1. tokProc' = [tokProc EXCEPT ![p] = new]
      BY <2>2 DEF TokWriteFile, TokGo
    <3>2. /\ new \in TokCommand /\ new.step = "select" /\ new.kind = tokProc[p].kind
          /\ new.result = tokProc[p].result /\ new.calm = tokProc[p].calm
      BY <1>2 DEF TokCommand, TokSteps
    <3>3. TokAccepted(p)
      BY DEF TokInv
    <3> QED
      BY <3>1, <3>2, <3>3 DEF TokAccepted
  <2> QED
    BY <2>1, <2>2
<1>4. /\ tokProc' \in [TokProcs -> TokCommand]
      /\ tokProc'[p] = new /\ \A q \in TokProcs : q # p => tokProc'[q] = tokProc[q]
  BY <1>2, <1>3
<1>5. \A q \in TokProcs : q # p /\ tokProc[q].step = "file" /\ tokBroken => tokBroken'
  BY <1>1 DEF TokOthersAt
<1>6. TokTypes'
  <2>1. \A q \in TokProcs : TokStepFits(tokProc[q])'
    BY <1>1, <1>3, <1>4 DEF TokInv, TokTypes, TokStepFits
  <2>2. tokFile' \in 0 .. tokNext' /\ tokLock' \in TokProcs \cup {0} /\ tokBroken' \in BOOLEAN
    BY <1>1, <1>2 DEF TokReleased, TokInv, TokTypes
  <2> QED
    BY <1>1, <1>4, <2>1, <2>2 DEF TokInv, TokTypes
<1>7. TokOneLocal'
  BY <1>1 DEF TokInv, TokOneLocal, TokLive
<1>8. FileIsLive'
  <2>1. TokLive(tokFile') \/ tokBroken'
    <3>1. TokMakerSound(p)
      BY DEF TokInv
    <3> QED
      BY <1>1, <3>1 DEF TokMakerSound
  <2>2. TokLive(tokFile') => tokFile' \in TokNamed(LocalCli)'
    BY <1>1 DEF TokLive, TokNamed
  <2> QED
    BY <2>1, <2>2 DEF FileIsLive
<1>9. LoginKeepsProfiles'
  BY <1>1, <1>3, <1>4 DEF TokInv, LoginKeepsProfiles, TokAt
<1>10. ASSUME NEW q \in TokProcs
       PROVE  TokMakerSound(q)' /\ TokRunSound(q)' /\ TokAccepted(q)'
  <2>1. TokMakerSound(q) /\ TokRunSound(q) /\ TokAccepted(q)
    BY DEF TokInv
  <2>2. TokMakerSound(q)'
    <3>1. CASE q = p
      BY <1>3, <1>4, <3>1 DEF TokMakerSound, TokRunAt
    <3>2. CASE q # p
      <4>1. TokRunAt(q, {"again", "swap", "file"}) => tokLock = q /\ tokLock' = q /\ tokBroken'
        BY <1>1, <2>1, <3>2, TokAssumption DEF TokMakerSound, TokReleased
      <4>2. \A steps : TokRunAt(q, steps)' <=> TokRunAt(q, steps)
        BY <1>4, <3>2 DEF TokRunAt
      <4>3. TokRunAt(q, {"swap", "file"}) => TokRunAt(q, {"again", "swap", "file"})
        BY DEF TokRunAt
      <4>4. tokProc[q].step = "file" => /\ TokLive(tokProc[q].got) \/ tokBroken'
                                        /\ tokProc[q].got \in DOMAIN tokRows => TokLive(tokProc[q].got)
        BY <1>5, <2>1, <3>2 DEF TokMakerSound
      <4>5. TokLive(tokProc[q].got)' <=> TokLive(tokProc[q].got)
        BY <1>1, <1>4, <3>2 DEF TokLive
      <4> QED
        BY <1>1, <1>4, <3>2, <4>1, <4>2, <4>3, <4>4, <4>5 DEF TokMakerSound
    <3> QED
      BY <3>1, <3>2
  <2>3. TokRunSound(q)'
    BY <1>1, <1>3, <1>4, <2>1 DEF TokRunSound, TokRunAt
  <2>4. TokAccepted(q)'
    BY <1>3, <1>4, <2>1 DEF TokAccepted
  <2> QED
    BY <2>2, <2>3, <2>4
<1> QED
  BY <1>6, <1>7, <1>8, <1>9, <1>10 DEF TokInv

LEMMA TokSaveKeeps == ASSUME TokInv, NEW p \in TokProcs, TokSave(p) PROVE TokInv'
<1> DEFINE new == TokEnded(p, "ok")
           data == TokPut(tokProc[p].data, tokProc[p].name, tokProc[p].got)
<1>1. /\ tokRows' = tokRows /\ tokNext' = tokNext /\ tokFile' = tokFile /\ tokLock' = tokLock
      /\ tokBroken' = tokBroken /\ tokProfiles' = data
      /\ tokProc[p].step = "save" /\ tokProc[p].kind = "login"
      /\ tokProc' = [q \in TokProcs |->
           IF q = p THEN new ELSE [tokProc[q] EXCEPT !.overlap = @ \/ TokAt(q, {"login"}, "save")]]
  BY DEF TokSave, TokAt, TokDb
<1>2. tokProc[p] \in TokCommand /\ tokProc[p].name \in TokServers
  BY <1>1 DEF TokInv, TokTypes, TokStepFits
<1>3. data \in TokData
  <2>1. PICK S \in SUBSET TokServers : tokProc[p].data \in [S -> Nat]
    BY <1>2 DEF TokCommand, TokData
  <2>2. data \in [S \cup {tokProc[p].name} -> Nat]
    BY <1>2, <2>1 DEF TokPut, TokCommand
  <2>3. S \cup {tokProc[p].name} \in SUBSET TokServers
    BY <1>2
  <2> HIDE DEF data
  <2> QED
    BY <2>2, <2>3 DEF TokData
<1>4. new \in TokCommand /\ new.step = "done" /\ new.result = "ok" /\ new.kind = "login"
  <2>1. "ok" \in TokResults
    BY DEF TokResults
  <2> QED
    BY <1>1, <2>1, TokEndedFits
<1> HIDE DEF new, data
<1>5. ASSUME NEW q \in TokProcs \ {p}
      PROVE  /\ tokProc'[q] \in TokCommand /\ tokProc'[q].kind = tokProc[q].kind
             /\ tokProc'[q].step = tokProc[q].step /\ tokProc'[q].name = tokProc[q].name
             /\ tokProc'[q].got = tokProc[q].got /\ tokProc'[q].calm = tokProc[q].calm
             /\ tokProc'[q].result = tokProc[q].result
             /\ TokAt(q, {"login"}, "save") => tokProc'[q].overlap
  <2> DEFINE hit == TokAt(q, {"login"}, "save")
  <2>1. tokProc'[q] = [tokProc[q] EXCEPT !.overlap = @ \/ hit]
    BY <1>1
  <2>2. tokProc[q] \in TokCommand
    BY DEF TokInv, TokTypes
  <2>3. hit \in BOOLEAN
    BY DEF TokAt
  <2> HIDE DEF hit
  <2>4. (tokProc[q].overlap \/ hit) \in BOOLEAN
    OBVIOUS
  <2>5. /\ tokProc'[q] \in TokCommand /\ tokProc'[q].kind = tokProc[q].kind
        /\ tokProc'[q].step = tokProc[q].step /\ tokProc'[q].name = tokProc[q].name
        /\ tokProc'[q].got = tokProc[q].got /\ tokProc'[q].calm = tokProc[q].calm
        /\ tokProc'[q].result = tokProc[q].result
        /\ hit => tokProc'[q].overlap
    BY <2>1, <2>2, <2>3, <2>4 DEF TokCommand
  <2> QED
    BY <2>5 DEF hit
<1>6. tokProc'[p] = new /\ tokProc' \in [TokProcs -> TokCommand]
  <2>1. tokProc'[p] = new
    BY <1>1
  <2>2. \A q \in TokProcs : tokProc'[q] \in TokCommand
    BY <1>4, <1>5, <2>1
  <2>3. tokProc' = [q \in TokProcs |-> tokProc'[q]]
    BY <1>1
  <2> QED
    BY <2>1, <2>2, <2>3
<1>7. TokTypes'
  <2>1. \A q \in TokProcs : TokStepFits(tokProc[q])'
    BY <1>1, <1>4, <1>5, <1>6 DEF TokInv, TokTypes, TokStepFits
  <2> QED
    BY <1>1, <1>3, <1>6, <2>1 DEF TokInv, TokTypes
<1>8. TokOneLocal'
  BY <1>1 DEF TokInv, TokOneLocal, TokLive
<1>9. FileIsLive'
  BY <1>1, <1>4, <1>5, <1>6 DEF TokInv, FileIsLive, TokNamed
<1>10. LoginKeepsProfiles'
  <2>1. ASSUME NEW q \in TokProcs, TokAt(q, {"login"}, "save")'
        PROVE  tokProc'[q].overlap
    BY <1>4, <1>5, <1>6, <2>1 DEF TokAt
  <2> QED
    BY <2>1 DEF LoginKeepsProfiles
<1>11. ASSUME NEW q \in TokProcs
       PROVE  TokMakerSound(q)' /\ TokRunSound(q)' /\ TokAccepted(q)'
  <2>1. TokMakerSound(q) /\ TokRunSound(q) /\ TokAccepted(q)
    BY DEF TokInv
  <2>2. TokMakerSound(q)'
    BY <1>1, <1>4, <1>5, <1>6, <2>1 DEF TokMakerSound, TokRunAt, TokLive
  <2>3. TokRunSound(q)'
    BY <1>1, <1>4, <1>5, <1>6, <2>1 DEF TokRunSound, TokRunAt, TokLive
  <2>4. TokAccepted(q)'
    BY <1>4, <1>5, <1>6, <2>1 DEF TokAccepted
  <2> QED
    BY <2>2, <2>3, <2>4
<1> QED
  BY <1>7, <1>8, <1>9, <1>10, <1>11 DEF TokInv

(* The container takes its files and commands with it. *)
LEMMA TokReplacedKeeps == TokInv /\ TokReplaced => TokInv'
<1> SUFFICES ASSUME TokInv, TokReplaced PROVE TokInv'
  OBVIOUS
<1>1. /\ tokRows' = tokRows /\ tokNext' = tokNext /\ tokProfiles' = tokProfiles
      /\ tokFile' = 0 /\ tokLock' = 0 /\ tokBroken' = FALSE
      /\ tokProc' = [p \in TokProcs |->
           IF tokProc[p].kind \in {"login", "remote"} \/ tokProc[p].step \in {"idle", "done"} THEN tokProc[p]
           ELSE TokEnded(p, "killed")]
  BY DEF TokReplaced, TokDb
<1>2. ASSUME NEW q \in TokProcs
      PROVE  /\ tokProc'[q] \in TokCommand
             /\ \/ /\ tokProc'[q] = tokProc[q]
                   /\ tokProc[q].kind \in {"login", "remote"} \/ tokProc[q].step \in {"idle", "done"}
                \/ tokProc'[q].step = "done" /\ tokProc'[q].result = "killed"
  <2>1. "killed" \in TokResults /\ tokProc[q] \in TokCommand
    BY DEF TokResults, TokInv, TokTypes
  <2>2. /\ TokEnded(q, "killed") \in TokCommand
        /\ TokEnded(q, "killed").step = "done" /\ TokEnded(q, "killed").result = "killed"
    BY <2>1, TokEndedFits
  <2> QED
    BY <1>1, <2>1, <2>2
<1>3. tokProc' \in [TokProcs -> TokCommand]
  BY <1>1, <1>2
<1>4. TokTypes'
  <2>1. \A q \in TokProcs : TokStepFits(tokProc[q])'
    BY <1>1, <1>2 DEF TokInv, TokTypes, TokStepFits
  <2>2. tokFile' \in 0 .. tokNext' /\ tokNext' \in Nat
    BY <1>1 DEF TokInv, TokTypes
  <2> QED
    BY <1>1, <1>3, <2>1, <2>2 DEF TokInv, TokTypes
<1>5. TokOneLocal'
  BY <1>1 DEF TokInv, TokOneLocal, TokLive
<1>6. FileIsLive'
  BY <1>1 DEF FileIsLive
<1>7. LoginKeepsProfiles'
  BY <1>1, <1>2 DEF TokInv, LoginKeepsProfiles, TokAt
<1>8. ASSUME NEW q \in TokProcs
      PROVE  TokMakerSound(q)' /\ TokRunSound(q)' /\ TokAccepted(q)'
  <2>1. TokMakerSound(q) /\ TokAccepted(q) /\ TokStepFits(tokProc[q])
    BY DEF TokInv, TokTypes
  <2>2. TokMakerSound(q)' /\ TokRunSound(q)'
    BY <1>1, <1>2, <2>1 DEF TokMakerSound, TokRunSound, TokRunAt, TokStepFits
  <2>3. TokAccepted(q)'
    BY <1>2, <2>1 DEF TokAccepted
  <2> QED
    BY <2>2, <2>3
<1> QED
  BY <1>4, <1>5, <1>6, <1>7, <1>8 DEF TokInv

(* The first user's tokens go; what the commands at work are told is no longer calm. *)
LEMMA TokUserDeletedKeeps == ASSUME TokInv, TokUserDeleted PROVE TokInv'
<1>1. PICK others \in SUBSET (DOMAIN tokRows \ TokNamed(LocalCli)) : tokRows' = Restrict(tokRows, others)
  BY DEF TokUserDeleted
<1>2. PICK orphans \in SUBSET {q \in TokProcs : tokProc[q].step \in {"insert", "swap"}} :
        tokProc' = [q \in TokProcs |->
          [tokProc[q] EXCEPT !.calm = FALSE, !.step = IF q \in orphans THEN "orphan" ELSE tokProc[q].step]]
  BY DEF TokUserDeleted
<1>3. /\ tokNext' = tokNext /\ tokFile' = tokFile /\ tokProfiles' = tokProfiles /\ tokLock' = tokLock
      /\ tokBroken' = (tokBroken \/ tokFile # 0 \/ \E q \in TokProcs : tokProc[q].step = "file")
  BY DEF TokUserDeleted, TokFiles
<1>4. /\ DOMAIN tokRows' = others /\ others \subseteq DOMAIN tokRows
      /\ \A i \in others : tokRows'[i] = tokRows[i] /\ tokRows[i] # LocalCli
  BY <1>1 DEF Restrict, TokNamed
<1>5. ASSUME NEW q \in TokProcs
      PROVE  /\ tokProc'[q] \in TokCommand /\ tokProc'[q].kind = tokProc[q].kind
             /\ tokProc'[q].name = tokProc[q].name /\ tokProc'[q].got = tokProc[q].got
             /\ tokProc'[q].data = tokProc[q].data /\ tokProc'[q].overlap = tokProc[q].overlap
             /\ tokProc'[q].result = tokProc[q].result /\ tokProc'[q].calm = FALSE
             /\ tokProc'[q].step \in {"orphan", tokProc[q].step}
             /\ tokProc[q].step \notin {"insert", "swap"} => tokProc'[q].step = tokProc[q].step
  <2> DEFINE step == IF q \in orphans THEN "orphan" ELSE tokProc[q].step
  <2>1. tokProc[q] \in TokCommand
    BY DEF TokInv, TokTypes
  <2>2. step \in TokSteps /\ step \in {"orphan", tokProc[q].step}
        /\ (tokProc[q].step \notin {"insert", "swap"} => step = tokProc[q].step)
    BY <1>2, <2>1 DEF TokCommand, TokSteps
  <2>3. tokProc'[q] = [tokProc[q] EXCEPT !.calm = FALSE, !.step = step]
    BY <1>2
  <2> HIDE DEF step
  <2> QED
    BY <2>1, <2>2, <2>3 DEF TokCommand
<1>6. tokProc' \in [TokProcs -> TokCommand]
  BY <1>2, <1>5
<1>7. TokTypes'
  <2>1. ASSUME NEW q \in TokProcs
        PROVE  TokStepFits(tokProc[q])'
    <3>1. TokStepFits(tokProc[q])
      BY DEF TokInv, TokTypes
    <3>2. tokProc'[q].step = "orphan" \/ tokProc'[q].step = tokProc[q].step
      BY <1>5
    <3>3. tokProc'[q].kind = tokProc[q].kind /\ tokProc'[q].name = tokProc[q].name /\ tokProc'[q].got = tokProc[q].got
      BY <1>5
    <3> QED
      BY <1>3, <3>1, <3>2, <3>3 DEF TokStepFits
  <2>2. DOMAIN tokRows' \subseteq 1 .. tokNext' /\ tokRows' \in [DOMAIN tokRows' -> TokNames]
    <3>1. \A i \in DOMAIN tokRows' : tokRows'[i] \in TokNames
      BY <1>4 DEF TokInv, TokTypes
    <3>2. tokRows' = [i \in DOMAIN tokRows' |-> tokRows'[i]]
      BY <1>1 DEF Restrict
    <3> QED
      BY <1>3, <1>4, <3>1, <3>2 DEF TokInv, TokTypes
  <2>3. tokBroken' \in BOOLEAN
    BY <1>3 DEF TokInv, TokTypes
  <2> QED
    BY <1>3, <1>6, <2>1, <2>2, <2>3 DEF TokInv, TokTypes
<1>8. \A i : ~TokLive(i)'
  BY <1>4 DEF TokLive
<1>9. TokOneLocal'
  BY <1>8 DEF TokOneLocal
<1>10. FileIsLive'
  BY <1>3 DEF FileIsLive
<1>11. LoginKeepsProfiles'
  <2>1. ASSUME NEW q \in TokProcs, TokAt(q, {"login"}, "save")'
        PROVE  TokAt(q, {"login"}, "save")
    <3>1. tokProc'[q].step \in {"orphan", tokProc[q].step} /\ tokProc'[q].kind = tokProc[q].kind
      BY <1>5
    <3> QED
      BY <2>1, <3>1 DEF TokAt
  <2>2. \A q \in TokProcs :
          /\ tokProc'[q].name = tokProc[q].name /\ tokProc'[q].data = tokProc[q].data
          /\ tokProc'[q].overlap = tokProc[q].overlap
    BY <1>5
  <2> QED
    BY <1>3, <2>1, <2>2 DEF TokInv, LoginKeepsProfiles
<1>12. ASSUME NEW q \in TokProcs
       PROVE  TokMakerSound(q)' /\ TokRunSound(q)' /\ TokAccepted(q)'
  <2>1. TokMakerSound(q)
    BY DEF TokInv
  <2>2. tokProc'[q].step = "file" => tokBroken' /\ tokProc'[q].got \notin DOMAIN tokRows'
    <3>1. ASSUME tokProc'[q].step = "file" PROVE tokProc[q].step = "file"
      BY <1>5, <3>1
    <3>2. ASSUME tokProc[q].step = "file" PROVE tokProc[q].got \notin others
      BY <1>4, <2>1, <3>2 DEF TokMakerSound, TokLive
    <3> QED
      BY <1>3, <1>4, <1>5, <3>1, <3>2
  <2>3. TokMakerSound(q)'
    BY <1>3, <1>5, <2>1, <2>2 DEF TokMakerSound, TokRunAt
  <2>4. TokRunSound(q)' /\ TokAccepted(q)'
    BY <1>5 DEF TokRunSound, TokAccepted
  <2> QED
    BY <2>3, <2>4
<1> QED
  BY <1>7, <1>9, <1>10, <1>11, <1>12 DEF TokInv

LEMMA TokOrphanedKeeps == ASSUME TokInv, NEW p \in TokProcs, TokOrphaned(p) PROVE TokInv'
<1>1. /\ TokEnd(p, "error") /\ tokLock' = TokReleased(p) /\ tokProc[p].step = "orphan"
      /\ tokRows' = tokRows /\ tokNext' = tokNext /\ tokFile' = tokFile /\ tokProfiles' = tokProfiles
      /\ tokBroken' = tokBroken
  BY DEF TokOrphaned, TokAt, TokDb, TokFiles
<1>2. "error" \in TokResults /\ tokLock' \in TokProcs \cup {0} /\ tokBroken' \in BOOLEAN
      /\ \A q \in TokProcs \ {p} : tokLock = q => tokLock' = q
  BY <1>1 DEF TokResults, TokReleased, TokInv, TokTypes
<1> QED
  BY <1>1, <1>2, TokEndStep

LEMMA TokInvSame ==
  ASSUME TokInv, tokRows' = tokRows, tokNext' = tokNext, tokFile' = tokFile, tokLock' = tokLock,
         tokProfiles' = tokProfiles, tokProc' = tokProc, tokBroken' = tokBroken
  PROVE  TokInv'
BY DEF TokInv, TokTypes, TokStepFits, TokOneLocal, FileIsLive, LoginKeepsProfiles, TokAt,
       TokMakerSound, TokRunSound, TokAccepted, TokRunAt, TokLive, TokNamed

LEMMA TokInvNext == TokInv /\ [TokNext]_TokVars => TokInv'
<1> SUFFICES ASSUME TokInv, [TokNext]_TokVars PROVE TokInv'
  OBVIOUS
<1>1. ASSUME NEW p \in TokProcs,
             \/ TokBegin(p) \/ TokCheck(p) \/ TokInsert(p) \/ TokDelete(p) \/ TokRemoveFile(p) \/ TokSwap(p)
             \/ TokWriteFile(p) \/ TokLook(p) \/ TokTakeLock(p) \/ TokLookAgain(p) \/ TokSelect(p) \/ TokRequest(p)
             \/ TokPrompt(p) \/ TokWhoami(p) \/ TokLoad(p) \/ TokSave(p) \/ TokKill(p) \/ TokOrphaned(p)
      PROVE  TokInv'
  BY <1>1, TokBeginKeeps, TokCheckKeeps, TokInsertKeeps, TokDeleteKeeps, TokRemoveFileKeeps, TokSwapKeeps,
     TokWriteFileKeeps, TokLookKeeps, TokSelectKeeps, TokRequestKeeps, TokLoginKeeps, TokSaveKeeps, TokKillKeeps,
     TokOrphanedKeeps
<1>2. CASE TokReplaced
  BY <1>2, TokReplacedKeeps
<1>3. CASE TokUserChanges
  BY <1>3, TokInvSame DEF TokUserChanges, TokFiles
<1>4. CASE TokUserDeleted
  BY <1>4, TokUserDeletedKeeps
<1>5. CASE UNCHANGED TokVars
  BY <1>5, TokInvSame DEF TokVars
<1> QED
  BY <1>1, <1>2, <1>3, <1>4, <1>5 DEF TokNext

LEMMA TokInvIsSound == TokInv => TokensAreSound
<1> SUFFICES ASSUME TokInv PROVE TokensAreSound
  OBVIOUS
<1>1. Cardinality(TokNamed(LocalCli)) <= 1
  <2>1. CASE TokNamed(LocalCli) = {}
    BY <2>1, FS_EmptySet
  <2>2. CASE TokNamed(LocalCli) # {}
    <3>1. PICK i \in TokNamed(LocalCli) : TokNamed(LocalCli) = {i}
      BY <2>2 DEF TokInv, TokOneLocal, TokLive, TokNamed
    <3>2. Cardinality({i}) = 1
      BY FS_Singleton
    <3> QED
      BY <3>1, <3>2
  <2> QED
    BY <2>1, <2>2
<1>2. Range(tokRows) \subseteq TokNames
  BY DEF TokInv, TokTypes, Range
<1>3. DOMAIN tokProfiles \subseteq TokServers
  BY DEF TokInv, TokTypes, TokData
<1>4. \A p \in TokProcs : tokProc[p].result \in TokResults
  BY DEF TokInv, TokTypes, TokCommand
<1>5. TokTypeOK
  BY <1>1, <1>2, <1>3, <1>4 DEF TokInv, TokTypes, TokTypeOK, TokResults
<1>6. RunIsAccepted
  BY DEF TokInv, TokAccepted, RunIsAccepted
<1> QED
  BY <1>5, <1>6 DEF TokInv, TokensAreSound

(* However many commands run at once, fail half-way or lose their container,
   and whoever deletes the first user: there is one local-cli token at most,
   first runs of siteyctl leave a live one in the file and are not rejected but
   for the causes FileIsLive and RunIsAccepted name, and a login keeps the
   profiles others saved (deploy/siteyctl, apiTokens.ts, commands.ts login). *)
THEOREM TokensAreSoundHolds == TokSpec => []TokensAreSound
<1>1. TokInv /\ [TokNext]_TokVars => TokInv'
  BY TokInvNext
<1> QED
  BY TokInvInit, <1>1, TokInvIsSound, PTL DEF TokSpec

-----------------------------------------------------------------------------
(***************************************************************************)
(* ImageRetention                                                          *)
(***************************************************************************)

ImgSteps == {"idle", "built", "running", "counted", "prune", "pruned"}
ImgJobs == [step : ImgSteps, sha : ImgShas \cup {"none"}, previous : SUBSET ImgShas,
            before : SUBSET ImgShas, n : Nat]

ImgTypes ==
  /\ imgConfig \in ImgConfigs
  /\ imgHistory \in Seq(ImgShas)
  /\ imgBuilt \in Nat
  /\ imgHere \subseteq 1 .. imgBuilt /\ imgUsed \in imgHere \cup {0}
  /\ imgTag \in [ImgShas -> imgHere \cup {0}]
  /\ imgJob \in ImgJobs

(* The deployment in progress has an image; its container, if there is one,
   was made of it. *)
ImgOfJob ==
  /\ ~ImgAt("idle") => imgJob.sha \in ImgShas /\ imgTag[imgJob.sha] # 0
  /\ ~ImgAt("idle") /\ ~ImgAt("built") => imgUsed \in {0, imgTag[imgJob.sha]}

(* The commits to keep: at most n besides the deployment's own, among them
   those a rollback needs. *)
ImgKeepSound ==
  ImgAt("prune") \/ ImgAt("pruned") =>
    /\ IsFiniteSet(imgJob.previous) /\ Cardinality(imgJob.previous) <= imgJob.n
    /\ imgJob.before \subseteq ImgKeep
    /\ \A c \in imgJob.before : imgTag[c] # 0

(* What is left after pruning has a tag to keep. *)
ImgPruneSound ==
  ImgAt("pruned") =>
    \A i \in imgHere \ imgRefused : Cardinality(ImgTagsOf(i)) <= 1 => ImgKept(i)

ImgInv == ImgTypes /\ ImgOfJob /\ ImgKeepSound /\ ImgPruneSound

-----------------------------------------------------------------------------
(* Sizes. *)

(* A set that a function makes of a finite one is no larger. *)
LEMMA ImgImage ==
  ASSUME NEW S, IsFiniteSet(S), NEW f, f = [x \in S |-> f[x]]
  PROVE  /\ IsFiniteSet({f[x] : x \in S})
         /\ Cardinality({f[x] : x \in S}) <= Cardinality(S)
<1> DEFINE T == {f[x] : x \in S}
<1>1. f \in Surjection(S, T)
  BY DEF Surjection
<1> QED
  BY <1>1, FS_Surjection

(* The commits of the n latest successes are at most n. *)
LEMMA ImgRecentBounded ==
  ASSUME NEW n \in Nat, imgHistory \in Seq(ImgShas)
  PROVE  /\ ImgRecent(n) \subseteq ImgShas
         /\ IsFiniteSet(ImgRecent(n)) /\ Cardinality(ImgRecent(n)) <= n
<1> DEFINE top == Len(imgHistory)
           low == IF top < n THEN 1 ELSE top - n + 1
           S == low .. top
           f == [k \in S |-> imgHistory[k]]
<1>1. top \in Nat /\ low \in Nat /\ low >= 1
  OBVIOUS
<1>2. S = {k \in 1 .. top : k > top - n}
  BY <1>1
<1>3. IsFiniteSet(S) /\ Cardinality(S) <= n
  <2>1. low \in Int /\ top \in Int /\ top - low + 1 <= n
    BY <1>1
  <2> HIDE DEF low, top
  <2>2. IsFiniteSet(S) /\ Cardinality(S) = IF low > top THEN 0 ELSE top - low + 1
    BY <2>1, FS_Interval
  <2> QED
    BY <2>1, <2>2
<1>4. ImgRecent(n) = {f[k] : k \in S}
  BY <1>2 DEF ImgRecent
<1>5. Cardinality(S) \in Nat
  BY <1>3, FS_CardinalityType
<1>6. /\ IsFiniteSet({f[k] : k \in S})
      /\ Cardinality({f[k] : k \in S}) <= Cardinality(S)
  <2> HIDE DEF S
  <2> QED BY <1>3, ImgImage
<1>7. Cardinality(ImgRecent(n)) \in Nat
  BY <1>4, <1>6, FS_CardinalityType
<1>8. ImgRecent(n) \subseteq ImgShas
  <2>1. \A k \in 1 .. top : imgHistory[k] \in ImgShas
    OBVIOUS
  <2> QED
    BY <2>1 DEF ImgRecent
<1>9. IsFiniteSet(ImgRecent(n)) /\ Cardinality(ImgRecent(n)) <= Cardinality(S)
  BY <1>4, <1>6
<1>10. Cardinality(ImgRecent(n)) <= n
  <2> DEFINE c == Cardinality(ImgRecent(n))
             d == Cardinality(S)
  <2>1. c \in Nat /\ d \in Nat /\ c <= d /\ d <= n
    BY <1>3, <1>5, <1>7, <1>9
  <2> HIDE DEF c, d
  <2>2. c <= n
    BY <2>1
  <2> QED
    BY <2>2 DEF c
<1> QED
  BY <1>8, <1>9, <1>10

(* The tags kept are at most n + 1. *)
LEMMA ImgKeepBounded ==
  ASSUME ImgTypes, ImgKeepSound, ImgAt("pruned"), ImgOfJob
  PROVE  /\ ImgKeep \subseteq ImgShas /\ IsFiniteSet(ImgKeep)
         /\ Cardinality(ImgKeep) <= imgJob.n + 1
<1>1. /\ imgJob.n \in Nat /\ imgJob.previous \subseteq ImgShas /\ imgJob.sha \in ImgShas
  BY DEF ImgTypes, ImgJobs, ImgOfJob, ImgAt
<1>2. /\ IsFiniteSet(imgJob.previous) /\ Cardinality(imgJob.previous) <= imgJob.n
      /\ Cardinality(imgJob.previous) \in Nat
  BY FS_CardinalityType DEF ImgKeepSound
<1>3. CASE imgJob.n = 0
  <2>1. ImgKeep = {imgJob.sha}
    BY <1>3 DEF ImgKeep
  <2>2. IsFiniteSet({imgJob.sha}) /\ Cardinality({imgJob.sha}) = 1
    BY FS_Singleton
  <2> QED
    BY <2>1, <2>2, <1>1, <1>3
<1>4. CASE imgJob.n # 0
  <2>1. ImgKeep = imgJob.previous \cup {imgJob.sha}
    BY <1>4 DEF ImgKeep
  <2>2. /\ IsFiniteSet(imgJob.previous \cup {imgJob.sha})
        /\ \/ Cardinality(imgJob.previous \cup {imgJob.sha}) = Cardinality(imgJob.previous)
           \/ Cardinality(imgJob.previous \cup {imgJob.sha}) = Cardinality(imgJob.previous) + 1
    BY <1>2, FS_AddElement
  <2> QED
    BY <2>1, <2>2, <1>1, <1>2
<1> QED
  BY <1>3, <1>4

-----------------------------------------------------------------------------
(* Steps *)

LEMMA ImgInvInit == ImgInit => ImgInv
BY ImgAssumption DEF ImgInit, ImgIdle, ImgInv, ImgTypes, ImgJobs, ImgSteps, ImgOfJob, ImgKeepSound, ImgPruneSound, ImgAt

(* A step that leaves the images alone, with what its new job has to be. *)
LEMMA ImgJobStep ==
  ASSUME ImgInv, imgConfig' \in ImgConfigs, imgHistory' \in Seq(ImgShas),
         imgTag' = imgTag, imgHere' = imgHere, imgBuilt' = imgBuilt, imgRefused' = imgRefused,
         imgUsed' \in imgHere \cup {0}, imgJob' \in ImgJobs, ImgOfJob', ImgKeepSound', ImgPruneSound'
  PROVE  ImgInv'
BY DEF ImgInv, ImgTypes

(* The end of a deployment. *)
LEMMA ImgEndStep ==
  ASSUME ImgInv, imgConfig' = imgConfig, imgHistory' \in Seq(ImgShas),
         imgTag' = imgTag, imgHere' = imgHere, imgBuilt' = imgBuilt, imgRefused' = imgRefused,
         imgUsed' \in imgHere \cup {0}, imgJob' = ImgIdle
  PROVE  ImgInv'
<1>1. imgJob' \in ImgJobs /\ imgJob'.step = "idle"
  BY DEF ImgIdle, ImgJobs, ImgSteps
<1>2. ImgOfJob' /\ ImgKeepSound' /\ ImgPruneSound'
  BY <1>1 DEF ImgOfJob, ImgKeepSound, ImgPruneSound, ImgAt
<1> QED
  BY <1>1, <1>2, ImgJobStep DEF ImgInv, ImgTypes

LEMMA ImgBuildKeeps ==
  ASSUME ImgInv, NEW c \in ImgShas, ImgBuild(c)
  PROVE  ImgInv'
<1>1. PICK i \in imgHere \cup {imgBuilt'} :
        imgHere' = imgHere \cup {i} /\ imgTag' = [imgTag EXCEPT ![c] = i]
  BY DEF ImgBuild
<1>2. /\ imgJob' = [step |-> "built", sha |-> c, previous |-> {}, before |-> {}, n |-> 0]
      /\ imgBuilt' = imgBuilt + 1 /\ imgConfig' = imgConfig /\ imgHistory' = imgHistory
      /\ imgUsed' = imgUsed
  BY DEF ImgBuild, ImgIdle
<1>3. imgHere \subseteq 1 .. imgBuilt /\ imgBuilt \in Nat
  BY DEF ImgInv, ImgTypes
<1>4. i \in 1 .. imgBuilt + 1 /\ i # 0 /\ imgHere' \subseteq 1 .. imgBuilt'
  BY <1>1, <1>2, <1>3
<1>5. imgTag' \in [ImgShas -> imgHere' \cup {0}] /\ imgTag'[c] = i
  BY <1>1 DEF ImgInv, ImgTypes
<1>6. ImgTypes'
  BY <1>1, <1>2, <1>3, <1>4, <1>5 DEF ImgInv, ImgTypes, ImgJobs, ImgSteps
<1>7. ImgOfJob' /\ ImgKeepSound' /\ ImgPruneSound'
  BY <1>2, <1>4, <1>5 DEF ImgOfJob, ImgKeepSound, ImgPruneSound, ImgAt
<1> QED
  BY <1>6, <1>7 DEF ImgInv

LEMMA ImgReplaceKeeps ==
  ASSUME ImgInv, ImgReplace
  PROVE  ImgInv'
<1>1. /\ imgConfig' = imgConfig /\ imgHistory' = imgHistory /\ imgTag' = imgTag
      /\ imgHere' = imgHere /\ imgBuilt' = imgBuilt /\ imgRefused' = imgRefused
  BY DEF ImgReplace
<1>2. /\ imgJob.sha \in ImgShas /\ imgTag[imgJob.sha] # 0 /\ imgTag[imgJob.sha] \in imgHere
  BY DEF ImgReplace, ImgInv, ImgTypes, ImgOfJob, ImgAt
<1>3. CASE imgJob' = [imgJob EXCEPT !.step = "running"] /\ imgUsed' = imgTag[imgJob.sha]
  <2>1. /\ imgJob' \in ImgJobs /\ imgJob'.step = "running" /\ imgJob'.sha = imgJob.sha
    BY <1>3 DEF ImgInv, ImgTypes, ImgJobs, ImgSteps
  <2>2. ImgOfJob' /\ ImgKeepSound' /\ ImgPruneSound'
    BY <2>1, <1>1, <1>2, <1>3 DEF ImgOfJob, ImgKeepSound, ImgPruneSound, ImgAt
  <2> QED
    BY <2>1, <2>2, <1>1, <1>2, <1>3, ImgJobStep DEF ImgInv, ImgTypes
<1>4. CASE imgJob' = ImgIdle /\ imgUsed' \in {imgUsed, 0, imgTag[imgJob.sha]}
  BY <1>1, <1>2, <1>4, ImgEndStep DEF ImgInv, ImgTypes
<1> QED
  BY <1>3, <1>4 DEF ImgReplace

LEMMA ImgReadCountKeeps ==
  ASSUME ImgInv, ImgReadCount
  PROVE  ImgInv'
<1>1. /\ imgConfig' = imgConfig /\ imgHistory' = imgHistory /\ imgTag' = imgTag
      /\ imgHere' = imgHere /\ imgBuilt' = imgBuilt /\ imgRefused' = imgRefused
      /\ imgUsed' = imgUsed
  BY DEF ImgReadCount
<1>2. imgConfig.kind \in {"none", "text", "number"} /\ imgConfig.n \in Int
  BY ImgAssumption DEF ImgInv, ImgTypes
<1>3. ImgCount(imgConfig) \in Nat
  BY <1>2 DEF ImgCount
<1>4. /\ imgJob' \in ImgJobs /\ imgJob'.step = "counted" /\ imgJob'.sha = imgJob.sha
      /\ imgJob.step = "running"
  BY <1>3 DEF ImgReadCount, ImgAt, ImgInv, ImgTypes, ImgJobs, ImgSteps
<1>5. ImgOfJob' /\ ImgKeepSound' /\ ImgPruneSound'
  BY <1>1, <1>4 DEF ImgInv, ImgOfJob, ImgKeepSound, ImgPruneSound, ImgAt
<1> QED
  BY <1>1, <1>4, <1>5, ImgJobStep DEF ImgInv, ImgTypes

LEMMA ImgReadPreviousKeeps ==
  ASSUME ImgInv, ImgReadPrevious
  PROVE  ImgInv'
<1> DEFINE old == {c \in {imgHistory[k] : k \in {k \in DOMAIN imgHistory : k + imgJob.n > Len(imgHistory)}} :
                     imgTag[c] # 0}
           new == ImgRecent(imgJob.n)
<1>1. /\ imgConfig' = imgConfig /\ imgHistory' = imgHistory /\ imgTag' = imgTag
      /\ imgHere' = imgHere /\ imgBuilt' = imgBuilt /\ imgRefused' = imgRefused
      /\ imgUsed' = imgUsed
      /\ imgJob' = [imgJob EXCEPT !.step = "prune", !.previous = new, !.before = old]
      /\ imgJob.step = "counted"
  BY DEF ImgReadPrevious, ImgAt
<1>2. imgJob \in ImgJobs /\ imgJob.n \in Nat /\ imgHistory \in Seq(ImgShas)
  BY DEF ImgInv, ImgTypes, ImgJobs
<1>3. /\ new \subseteq ImgShas /\ IsFiniteSet(new) /\ Cardinality(new) <= imgJob.n
  BY <1>2, ImgRecentBounded
<1>4. Len(imgHistory) \in Nat /\ DOMAIN imgHistory = 1 .. Len(imgHistory)
  BY <1>2
<1>5. old \subseteq new /\ \A c \in old : imgTag[c] # 0
  BY <1>2, <1>4 DEF ImgRecent
<1>6. imgJob.n = 0 => old = {}
  BY <1>2, <1>4
<1> HIDE DEF old, new
<1>7. /\ imgJob' \in ImgJobs /\ imgJob'.step = "prune" /\ imgJob'.sha = imgJob.sha
      /\ imgJob'.n = imgJob.n /\ imgJob'.previous = new /\ imgJob'.before = old
  BY <1>1, <1>2, <1>3, <1>5 DEF ImgJobs, ImgSteps
<1>8. ImgOfJob' /\ ImgPruneSound'
  BY <1>1, <1>7 DEF ImgInv, ImgOfJob, ImgPruneSound, ImgAt
<1>9. ImgKeepSound'
  BY <1>1, <1>3, <1>5, <1>6, <1>7 DEF ImgKeepSound, ImgKeep
<1> QED
  BY <1>1, <1>7, <1>8, <1>9, ImgJobStep DEF ImgInv, ImgTypes

LEMMA ImgPruneKeeps ==
  ASSUME ImgInv, ImgPrune
  PROVE  ImgInv'
<1> DEFINE removable == {i \in imgHere : /\ ~ImgKept(i) /\ i # imgUsed
                                         /\ Cardinality(ImgTagsOf(i)) <= 1}
<1>1. /\ imgConfig' = imgConfig /\ imgHistory' = imgHistory /\ imgBuilt' = imgBuilt
      /\ imgUsed' = imgUsed /\ imgJob' = [imgJob EXCEPT !.step = "pruned"]
      /\ imgJob.step = "prune"
  BY DEF ImgPrune, ImgAt
<1>2. /\ imgHere' = imgHere \ (removable \ imgRefused') /\ imgRefused' \subseteq removable
      /\ imgTag' = [c \in ImgShas |-> IF imgTag[c] \in imgHere' THEN imgTag[c] ELSE 0]
  BY DEF ImgPrune
<1>3. /\ imgJob' \in ImgJobs /\ imgJob'.step = "pruned" /\ imgJob'.sha = imgJob.sha
      /\ imgJob'.n = imgJob.n /\ imgJob'.previous = imgJob.previous
      /\ imgJob'.before = imgJob.before
  BY <1>1 DEF ImgInv, ImgTypes, ImgJobs, ImgSteps
<1>4. ImgKeep' = ImgKeep
  BY <1>3 DEF ImgKeep
<1>5. imgTag \in [ImgShas -> imgHere \cup {0}] /\ 0 \notin imgHere
  BY DEF ImgInv, ImgTypes
<1>6. \A c \in ImgShas \cap ImgKeep : imgTag'[c] = imgTag[c]
  <2>1. SUFFICES ASSUME NEW c \in ImgShas \cap ImgKeep PROVE imgTag'[c] = imgTag[c]
    OBVIOUS
  <2>2. imgTag[c] \notin removable
    BY DEF ImgKept, ImgTagsOf
  <2> QED
    BY <2>2, <1>2, <1>5
<1>7. \A i \in imgHere' : ImgTagsOf(i)' = ImgTagsOf(i)
  BY <1>2, <1>5 DEF ImgTagsOf
<1>8. /\ imgJob.sha \in ImgShas /\ imgTag[imgJob.sha] # 0 /\ imgTag'[imgJob.sha] = imgTag[imgJob.sha]
      /\ imgUsed \in {0, imgTag[imgJob.sha]}
  BY <1>1, <1>6 DEF ImgInv, ImgOfJob, ImgAt, ImgKeep
<1>9. ImgTypes'
  <2>1. imgUsed \notin removable
    OBVIOUS
  <2>2. imgUsed' \in imgHere' \cup {0}
    BY <2>1, <1>1, <1>2 DEF ImgInv, ImgTypes
  <2>3. imgTag' \in [ImgShas -> imgHere' \cup {0}]
    BY <1>2
  <2> QED
    BY <2>2, <2>3, <1>1, <1>2, <1>3 DEF ImgInv, ImgTypes
<1>10. ImgOfJob'
  BY <1>1, <1>3, <1>8 DEF ImgOfJob, ImgAt
<1>11. ImgKeepSound'
  <2>1. /\ IsFiniteSet(imgJob.previous) /\ Cardinality(imgJob.previous) <= imgJob.n
        /\ imgJob.before \subseteq ImgKeep /\ \A c \in imgJob.before : imgTag[c] # 0
    BY <1>1 DEF ImgInv, ImgKeepSound, ImgAt
  <2>2. imgJob.before \subseteq ImgShas
    BY DEF ImgInv, ImgTypes, ImgJobs
  <2>3. \A c \in imgJob.before : imgTag'[c] # 0
    BY <2>1, <2>2, <1>6
  <2> QED
    BY <2>1, <2>3, <1>3, <1>4 DEF ImgKeepSound
<1>12. ImgPruneSound'
  <2>1. SUFFICES ASSUME NEW i \in imgHere' \ imgRefused', Cardinality(ImgTagsOf(i)') <= 1
                 PROVE  ImgKept(i)'
    BY DEF ImgPruneSound
  <2>2. i \in imgHere /\ i \notin removable
    BY <1>2
  <2>3. ImgTagsOf(i)' = ImgTagsOf(i)
    BY <1>7
  <2>4. ImgKept(i) \/ i = imgUsed
    BY <2>1, <2>2, <2>3
  <2>5. CASE i = imgUsed
    <3>1. i = imgTag[imgJob.sha]
      BY <2>2, <2>5, <1>5, <1>8
    <3>2. imgJob.sha \in ImgTagsOf(i) /\ imgJob.sha \in ImgKeep
      BY <3>1, <1>8 DEF ImgTagsOf, ImgKeep
    <3> QED
      BY <3>2, <2>3, <1>4 DEF ImgKept
  <2>6. CASE ImgKept(i)
    BY <2>6, <2>3, <1>4 DEF ImgKept
  <2> QED
    BY <2>4, <2>5, <2>6
<1> QED
  BY <1>9, <1>10, <1>11, <1>12 DEF ImgInv

LEMMA ImgSucceedKeeps ==
  ASSUME ImgInv, ImgSucceed
  PROVE  ImgInv'
<1>1. imgJob.sha \in ImgShas /\ imgHistory \in Seq(ImgShas)
  BY DEF ImgSucceed, ImgInv, ImgOfJob, ImgAt, ImgTypes
<1>2. imgHistory' \in Seq(ImgShas)
  BY <1>1 DEF ImgSucceed
<1> QED
  BY <1>2, ImgEndStep DEF ImgSucceed, ImgInv, ImgTypes

LEMMA ImgFailKeeps ==
  ASSUME ImgInv, ImgFail
  PROVE  ImgInv'
BY ImgEndStep DEF ImgFail, ImgInv, ImgTypes

(* The removal of the container, a new count and steps that change nothing. *)
LEMMA ImgSmallStep ==
  ASSUME ImgInv, imgConfig' \in ImgConfigs, imgUsed' \in {0, imgUsed}, imgHistory' = imgHistory,
         imgTag' = imgTag, imgHere' = imgHere, imgBuilt' = imgBuilt, imgJob' = imgJob,
         imgRefused' = imgRefused
  PROVE  ImgInv'
<1>1. ImgOfJob'
  BY DEF ImgInv, ImgOfJob, ImgAt
<1>2. ImgKeepSound'
  BY DEF ImgInv, ImgKeepSound, ImgAt, ImgKeep
<1>3. ImgPruneSound'
  BY DEF ImgInv, ImgPruneSound, ImgAt, ImgKept, ImgKeep, ImgTagsOf
<1> QED
  BY <1>1, <1>2, <1>3, ImgJobStep DEF ImgInv, ImgTypes

LEMMA ImgInvNext ==
  ASSUME ImgInv, [ImgNext]_ImgVars
  PROVE  ImgInv'
<1>1. CASE \E c \in ImgShas : ImgBuild(c)
  BY <1>1, ImgBuildKeeps
<1>2. CASE ImgDeactivate
  BY <1>2, ImgSmallStep DEF ImgDeactivate, ImgInv, ImgTypes
<1>3. CASE ImgConfigure
  BY <1>3, ImgSmallStep DEF ImgConfigure, ImgInv, ImgTypes
<1>4. CASE UNCHANGED ImgVars
  BY <1>4, ImgSmallStep DEF ImgVars, ImgInv, ImgTypes
<1> QED
  BY <1>1, <1>2, <1>3, <1>4, ImgReplaceKeeps, ImgReadCountKeeps, ImgReadPreviousKeeps, ImgPruneKeeps,
     ImgSucceedKeeps, ImgFailKeeps DEF ImgNext

(* With something pruned, the images left are as many as the tags kept. *)
LEMMA ImgInvBounds ==
  ASSUME ImgInv
  PROVE  ImagesBounded
<1> DEFINE left == {i \in imgHere \ imgRefused : i # imgUsed /\ Cardinality(ImgTagsOf(i)) <= 1}
           f == [c \in ImgKeep |-> imgTag[c]]
           kept == {f[c] : c \in ImgKeep}
<1>1. SUFFICES ASSUME ImgAt("pruned") PROVE Cardinality(left) <= imgJob.n + 1
  BY DEF ImagesBounded
<1>2. /\ IsFiniteSet(ImgKeep) /\ Cardinality(ImgKeep) <= imgJob.n + 1
  BY <1>1, ImgKeepBounded DEF ImgInv
<1>3. left \subseteq kept
  BY <1>1 DEF ImgInv, ImgPruneSound, ImgKept, ImgTagsOf
<1>4. IsFiniteSet(kept) /\ Cardinality(kept) <= Cardinality(ImgKeep)
  BY <1>2, ImgImage
<1> HIDE DEF left, kept
<1>5. IsFiniteSet(left) /\ Cardinality(left) <= Cardinality(kept)
  BY <1>3, <1>4, FS_Subset
<1>6. /\ Cardinality(left) \in Nat /\ Cardinality(kept) \in Nat /\ Cardinality(ImgKeep) \in Nat
      /\ imgJob.n \in Nat
  BY <1>2, <1>4, <1>5, FS_CardinalityType DEF ImgInv, ImgTypes, ImgJobs
<1> QED
  BY <1>2, <1>4, <1>5, <1>6

LEMMA ImgInvIsSound ==
  ASSUME ImgInv
  PROVE  ImagesAreKept
<1>1. ImgTypeOK
  BY DEF ImgInv, ImgTypes, ImgJobs, ImgTypeOK
<1>2. RollbacksKept
  BY DEF ImgInv, ImgOfJob, ImgKeepSound, RollbacksKept, ImgAt
<1> QED
  BY <1>1, <1>2, ImgInvBounds DEF ImagesAreKept

(* ImagesAreKept (deployment.ts:132-204, docker.ts:144-166). *)
THEOREM ImagesAreKeptHolds == ImgSpec => []ImagesAreKept
<1>1. ImgInit => ImgInv
  BY ImgInvInit
<1>2. ImgInv /\ [ImgNext]_ImgVars => ImgInv'
  BY ImgInvNext
<1>3. ImgInv => ImagesAreKept
  BY ImgInvIsSound
<1> QED
  BY <1>1, <1>2, <1>3, PTL DEF ImgSpec

-----------------------------------------------------------------------------
(***************************************************************************)
(* SelfUpdate                                                              *)
(***************************************************************************)

(* No script ever started beside another, and no stream was lost. *)
UpdSingle == updLost = 0 /\ \A n \in 1 .. UpdRuns : updRun[n].alone

UpdPages == [run : 0 .. UpdRuns, running : BOOLEAN, finished : BOOLEAN, exit : {"null", "ok", "failed"},
             timers : Nat, handle : BOOLEAN, dialog : BOOLEAN, asks : SUBSET UpdClicks,
             mount : {"none", "sent", "running"}, sent : Nat, answers : SUBSET UpdStatuses, met : BOOLEAN]

(* A page that asked for no interval beside another waits for one at most, and
   only while it has none. *)
UpdPageSound(page) ==
  /\ page \in UpdPages
  /\ page.handle => page.timers > 0
  /\ ~page.met =>
       /\ page.timers = IF page.handle THEN 1 ELSE 0
       /\ \A a, b \in page.asks : a = b
       /\ page.asks # {} => page.mount = "none"
       /\ page.asks # {} \/ page.mount # "none" => ~page.handle

UpdTypes == /\ UpdTypeOK
            /\ UpdPageSound(updPage) /\ updLost \in Nat
            /\ \A n \in 1 .. UpdRuns : updRun[n].step = "none" => updRun[n].alone /\ ~updRun[n].attached

(* The scripts at work or read by the server: at most one, and what its
   predecessor left says nothing of it. *)
UpdOnlyOne ==
  UpdSingle => \A m, n \in UpdActive \cup UpdAttached : m = n

(* The file says what the script that took it over said last. *)
UpdFileSound ==
  UpdSingle => \A n \in UpdActive : updRun[n].step # "pull" => updFile = "partial"

(* Memory says that an update is over once there is none. *)
UpdMemorySound ==
  UpdSingle /\ updState.finished => UpdActive \cup UpdAttached = {}

UpdInv == UpdTypes /\ UpdOnlyOne /\ UpdFileSound /\ UpdMemorySound /\ FlagHasRun

-----------------------------------------------------------------------------
(* Steps *)

LEMMA UpdOpenedSound == UpdPageSound(UpdOpened)
<1>1. UpdOpened \in UpdPages
  BY UpdAssumption DEF UpdOpened, UpdPages
<1>2. UpdOpened.handle = FALSE /\ UpdOpened.timers = 0 /\ UpdOpened.asks = {}
  BY DEF UpdOpened
<1> QED
  BY <1>1, <1>2 DEF UpdPageSound

LEMMA UpdInvInit == UpdInit => UpdInv
<1> SUFFICES ASSUME UpdInit PROVE UpdInv
  OBVIOUS
<1>1. updRun = [n \in 1 .. UpdRuns |-> [step |-> "none", attached |-> FALSE, alone |-> TRUE]]
  BY DEF UpdInit
<1>2. \A n \in 1 .. UpdRuns : updRun[n] = [step |-> "none", attached |-> FALSE, alone |-> TRUE]
  BY <1>1
<1>3. UpdActive = {} /\ UpdAttached = {}
  BY <1>2 DEF UpdActive, UpdAttached, UpdIdle
<1>4. UpdPageSound(updPage)
  BY UpdOpenedSound DEF UpdInit
<1>5. UpdTypeOK
  BY <1>1, <1>4 DEF UpdInit, UpdTypeOK, UpdFresh, UpdPageSound, UpdPages, UpdAskers
<1> QED
  BY <1>2, <1>3, <1>4, <1>5 DEF UpdInit, UpdInv, UpdTypes, UpdOnlyOne, UpdFileSound, UpdMemorySound,
     FlagHasRun, UpdFresh

(* A step of the calls and of the page. *)
LEMMA UpdCallStep ==
  ASSUME UpdInv, updState' = updState, updRun' = updRun, updFile' = updFile,
         updLost' = updLost, UpdPageSound(updPage'),
         updAsk' \in [UpdAskers -> {"idle", "sent", "listed", "started", "refused"}]
  PROVE  UpdInv'
<1>1. UpdTypes'
  BY DEF UpdInv, UpdTypes, UpdTypeOK, UpdPageSound, UpdPages
<1>2. UpdActive' = UpdActive /\ UpdAttached' = UpdAttached /\ (UpdSingle' <=> UpdSingle)
  BY DEF UpdActive, UpdAttached, UpdSingle
<1> QED
  BY <1>1, <1>2 DEF UpdInv, UpdOnlyOne, UpdFileSound, UpdMemorySound, FlagHasRun

(* Status as the server gives it. *)
LEMMA UpdStatusType ==
  ASSUME UpdTypes
  PROVE  UpdStatus \in UpdStatuses
BY DEF UpdTypes, UpdTypeOK, UpdStatus, UpdStatuses

LEMMA UpdTriggerKeeps ==
  ASSUME UpdInv, NEW a \in UpdAskers, UpdTrigger(a)
  PROVE  UpdInv'
<1>1. updAsk' \in [UpdAskers -> {"idle", "sent", "listed", "started", "refused"}]
  BY DEF UpdTrigger, UpdInv, UpdTypes, UpdTypeOK
<1>2. UpdPageSound(updPage')
  BY DEF UpdTrigger, UpdInv, UpdTypes
<1> QED
  BY <1>1, <1>2, UpdCallStep DEF UpdTrigger

LEMMA UpdStartKeeps ==
  ASSUME UpdInv, NEW a \in UpdAskers, UpdStart(a)
  PROVE  UpdInv'
<1>1. CASE /\ updAsk' = [updAsk EXCEPT ![a] = "refused"]
           /\ UNCHANGED <<updRun, updState, updPage, updFile, updRestarts, updLost>>
  <2>1. updAsk' \in [UpdAskers -> {"idle", "sent", "listed", "started", "refused"}]
    BY <1>1 DEF UpdInv, UpdTypes, UpdTypeOK
  <2> QED
    BY <1>1, <2>1, UpdCallStep DEF UpdInv, UpdTypes
<1>2. CASE \E n \in 1 .. UpdRuns :
             /\ updRun[n].step = "none"
             /\ updRun' = [updRun EXCEPT ![n] = [step |-> "pull", attached |-> TRUE,
                                                 alone |-> UpdActive \cup UpdAttached = {}]]
             /\ updState' = [UpdFresh EXCEPT !.running = TRUE]
             /\ updAsk' = [updAsk EXCEPT ![a] = "started"]
             /\ updPage' = IF a \in updPage.asks THEN [updPage EXCEPT !.run = n] ELSE updPage
             /\ UNCHANGED <<updFile, updRestarts, updLost>>
  <2>1. PICK n \in 1 .. UpdRuns :
             /\ updRun[n].step = "none"
             /\ updRun' = [updRun EXCEPT ![n] = [step |-> "pull", attached |-> TRUE,
                                                 alone |-> UpdActive \cup UpdAttached = {}]]
             /\ updState' = [UpdFresh EXCEPT !.running = TRUE]
             /\ updAsk' = [updAsk EXCEPT ![a] = "started"]
             /\ updPage' = IF a \in updPage.asks THEN [updPage EXCEPT !.run = n] ELSE updPage
             /\ UNCHANGED <<updFile, updRestarts, updLost>>
    BY <1>2
  <2> DEFINE new == [step |-> "pull", attached |-> TRUE, alone |-> UpdActive \cup UpdAttached = {}]
  <2>2. /\ new.step = "pull" /\ new.attached = TRUE /\ new.alone = (UpdActive \cup UpdAttached = {})
        /\ new \in [step : {"none", "pull", "build", "web", "up", "done", "failed"},
                    attached : BOOLEAN, alone : BOOLEAN]
    OBVIOUS
  <2>3. updRun' = [updRun EXCEPT ![n] = new]
    BY <2>1
  <2> HIDE DEF new
  <2>4. /\ updRun'[n] = new /\ \A m \in 1 .. UpdRuns : m # n => updRun'[m] = updRun[m]
        /\ updRun' \in [1 .. UpdRuns -> [step : {"none", "pull", "build", "web", "up", "done", "failed"},
                                         attached : BOOLEAN, alone : BOOLEAN]]
    BY <2>2, <2>3 DEF UpdInv, UpdTypes, UpdTypeOK
  <2>5. UpdTypes'
    <3>1. UpdPageSound(updPage')
      <4>1. CASE a \notin updPage.asks
        BY <2>1, <4>1 DEF UpdInv, UpdTypes
      <4>2. CASE a \in updPage.asks
        <5>1. UpdPageSound(updPage) /\ updPage' = [updPage EXCEPT !.run = n]
          BY <2>1, <4>2 DEF UpdInv, UpdTypes
        <5> QED
          BY <5>1 DEF UpdPageSound, UpdPages
      <4> QED
        BY <4>1, <4>2
    <3>2. updAsk' \in [UpdAskers -> {"idle", "sent", "listed", "started", "refused"}]
      BY <2>1 DEF UpdInv, UpdTypes, UpdTypeOK
    <3>3. updState' = [running |-> TRUE, lines |-> FALSE, finished |-> FALSE, exit |-> "null"]
      BY <2>1 DEF UpdFresh
    <3>4. updPage'.run \in 0 .. UpdRuns /\ updPage'.answers \subseteq UpdStatuses
      BY <3>1 DEF UpdPageSound, UpdPages
    <3>5. updState' \in [running : BOOLEAN, lines : BOOLEAN, finished : BOOLEAN,
                         exit : {"null", "ok", "failed"}]
      BY <3>3
    <3>6. UpdTypeOK'
      BY <2>1, <2>4, <3>2, <3>4, <3>5 DEF UpdInv, UpdTypes, UpdTypeOK
    <3> QED
      BY <2>1, <2>2, <2>4, <3>1, <3>6 DEF UpdInv, UpdTypes
  <2>6. UpdSingle' => UpdActive \cup UpdAttached = {}
    BY <2>2, <2>4 DEF UpdSingle
  <2>7. UpdActive' = UpdActive \cup {n} /\ UpdAttached' = UpdAttached \cup {n}
    BY <2>2, <2>4 DEF UpdActive, UpdAttached, UpdIdle
  <2>8. UpdOnlyOne'
    BY <2>6, <2>7 DEF UpdOnlyOne
  <2>9. UpdFileSound'
    BY <2>2, <2>4, <2>6, <2>7 DEF UpdFileSound
  <2>10. UpdMemorySound' /\ FlagHasRun'
    BY <2>1, <2>7 DEF UpdMemorySound, FlagHasRun, UpdFresh
  <2> QED
    BY <2>5, <2>8, <2>9, <2>10 DEF UpdInv
<1> QED
  BY <1>1, <1>2 DEF UpdStart

(* A step of the script: its next step and what the log then says. *)
LEMMA UpdScriptStep ==
  ASSUME UpdInv, NEW n \in 1 .. UpdRuns, NEW from \in {"pull", "build", "web", "up"},
         NEW to \in {"build", "web", "up", "done", "failed"}, UpdStep(n, from, to),
         updFile' \in {updFile, "partial", "complete"},
         to \notin UpdIdle => updFile' = "partial"
  PROVE  UpdInv'
<1>1. /\ updRun[n].step = from /\ updRun' = [updRun EXCEPT ![n].step = to]
      /\ updState' = [updState EXCEPT !.lines = @ \/ updRun[n].attached]
      /\ updAsk' = updAsk /\ updPage' = updPage /\ updLost' = updLost
  BY DEF UpdStep, UpdPrints
<1>2. /\ updRun'[n].step = to /\ updRun'[n].attached = updRun[n].attached
      /\ updRun'[n].alone = updRun[n].alone
      /\ \A m \in 1 .. UpdRuns : m # n => updRun'[m] = updRun[m]
      /\ updRun' \in [1 .. UpdRuns -> [step : {"none", "pull", "build", "web", "up", "done", "failed"},
                                       attached : BOOLEAN, alone : BOOLEAN]]
  BY <1>1 DEF UpdInv, UpdTypes, UpdTypeOK
<1>3. /\ updState'.running = updState.running /\ updState'.finished = updState.finished
      /\ updState' \in [running : BOOLEAN, lines : BOOLEAN, finished : BOOLEAN,
                        exit : {"null", "ok", "failed"}]
  BY <1>1 DEF UpdInv, UpdTypes, UpdTypeOK
<1>4. UpdTypes'
  BY <1>1, <1>2, <1>3 DEF UpdInv, UpdTypes, UpdTypeOK
<1>5. UpdSingle' <=> UpdSingle
  BY <1>1, <1>2 DEF UpdSingle
<1>6. /\ n \in UpdActive /\ UpdActive' \subseteq UpdActive /\ UpdAttached' = UpdAttached
  BY <1>1, <1>2 DEF UpdActive, UpdAttached, UpdIdle
<1>7. UpdOnlyOne'
  BY <1>5, <1>6 DEF UpdInv, UpdOnlyOne
<1>8. UpdFileSound'
  <2>1. SUFFICES ASSUME UpdSingle', NEW m \in UpdActive' PROVE updFile' = "partial"
    BY DEF UpdFileSound
  <2>2. m = n
    BY <2>1, <1>5, <1>6 DEF UpdInv, UpdOnlyOne
  <2>3. to \notin UpdIdle
    BY <2>2, <1>2 DEF UpdActive
  <2> QED
    BY <2>3
<1>9. UpdMemorySound'
  BY <1>3, <1>5, <1>6 DEF UpdInv, UpdMemorySound
<1>10. FlagHasRun'
  BY <1>3, <1>6 DEF UpdInv, FlagHasRun
<1> QED
  BY <1>4, <1>7, <1>8, <1>9, <1>10 DEF UpdInv

LEMMA UpdScriptKeeps ==
  ASSUME UpdInv, NEW n \in 1 .. UpdRuns, UpdScript(n)
  PROVE  UpdInv'
<1>1. CASE UpdClear(n)
  BY <1>1, UpdScriptStep DEF UpdClear
<1>2. CASE UpdBuild(n)
  BY <1>2, UpdScriptStep DEF UpdBuild
<1>3. CASE UpdWeb(n)
  BY <1>3, UpdScriptStep DEF UpdWeb
<1>4. CASE UpdUp(n)
  <2>1. "done" \in UpdIdle
    BY DEF UpdIdle
  <2> QED
    BY <1>4, <2>1, UpdScriptStep DEF UpdUp
<1>5. CASE UpdFails(n)
  <2>1. "failed" \in UpdIdle
    BY DEF UpdIdle
  <2>2. PICK from \in {"pull", "build", "web", "up"} :
          /\ UpdStep(n, from, "failed")
          /\ updFile' = IF from = "pull" THEN updFile ELSE "partial"
    BY <1>5 DEF UpdFails
  <2> QED
    BY <2>1, <2>2, UpdScriptStep
<1> QED
  BY <1>1, <1>2, <1>3, <1>4, <1>5 DEF UpdScript

(* The server stops reading a script, which may have ended with that, and
   clears its flag; unless a stream was lost, the script was over. *)
LEMMA UpdDetachStep ==
  ASSUME UpdInv, NEW n \in 1 .. UpdRuns, updRun[n].attached,
         updRun'[n] \in {[updRun[n] EXCEPT !.attached = FALSE],
                         [updRun[n] EXCEPT !.step = "failed", !.attached = FALSE]},
         \A m \in 1 .. UpdRuns : m # n => updRun'[m] = updRun[m],
         updRun' = [m \in 1 .. UpdRuns |-> updRun'[m]],
         updState' \in [running : {FALSE}, lines : BOOLEAN, finished : BOOLEAN,
                        exit : {"null", "ok", "failed"}],
         updFile' = updFile, updAsk' = updAsk, updPage' = updPage,
         updLost' \in {updLost, updLost + 1},
         updLost' = updLost => updRun[n].step \in UpdIdle
  PROVE  UpdInv'
<1>1. /\ updRun[n].step \in {"none", "pull", "build", "web", "up", "done", "failed"}
      /\ updRun[n].alone \in BOOLEAN /\ updLost \in Nat /\ updRun[n].step # "none"
  BY DEF UpdInv, UpdTypes, UpdTypeOK
<1>2. /\ updRun'[n].attached = FALSE /\ updRun'[n].step \in {updRun[n].step, "failed"}
      /\ updRun'[n].alone = updRun[n].alone
      /\ updRun'[n] \in [step : {"none", "pull", "build", "web", "up", "done", "failed"},
                         attached : BOOLEAN, alone : BOOLEAN]
  <2> DEFINE steps == {"none", "pull", "build", "web", "up", "done", "failed"}
             run == updRun[n]
  <2>1. run \in [step : steps, attached : BOOLEAN, alone : BOOLEAN]
    BY DEF UpdInv, UpdTypes, UpdTypeOK
  <2>2. "failed" \in steps
    OBVIOUS
  <2>3. updRun'[n] \in {[run EXCEPT !.attached = FALSE], [run EXCEPT !.step = "failed", !.attached = FALSE]}
    OBVIOUS
  <2>4. /\ updRun'[n].attached = FALSE /\ updRun'[n].step \in {run.step, "failed"}
        /\ updRun'[n].alone = run.alone
        /\ updRun'[n] \in [step : steps, attached : BOOLEAN, alone : BOOLEAN]
    <3> HIDE DEF steps, run
    <3> QED
      BY <2>1, <2>2, <2>3
  <2> QED
    BY <2>4
<1>3. updRun' \in [1 .. UpdRuns -> [step : {"none", "pull", "build", "web", "up", "done", "failed"},
                                    attached : BOOLEAN, alone : BOOLEAN]]
  <2>1. \A m \in 1 .. UpdRuns :
          updRun'[m] \in [step : {"none", "pull", "build", "web", "up", "done", "failed"},
                          attached : BOOLEAN, alone : BOOLEAN]
    BY <1>2 DEF UpdInv, UpdTypes, UpdTypeOK
  <2> QED
    BY <2>1
<1>4. UpdTypes'
  <2>1. UpdTypeOK'
    BY <1>3 DEF UpdInv, UpdTypes, UpdTypeOK
  <2>2. updLost' \in Nat
    BY <1>1
  <2>3. \A m \in 1 .. UpdRuns : updRun'[m].step = "none" => updRun'[m].alone /\ ~updRun'[m].attached
    BY <1>1, <1>2 DEF UpdInv, UpdTypes
  <2> QED
    BY <2>1, <2>2, <2>3 DEF UpdInv, UpdTypes
<1>5. UpdActive' \subseteq UpdActive /\ UpdAttached' \subseteq UpdAttached
  BY <1>2 DEF UpdActive, UpdAttached, UpdIdle
<1>6. UpdSingle' => UpdSingle /\ updRun[n].step \in UpdIdle
  BY <1>1, <1>2 DEF UpdSingle
<1>7. UpdSingle' => UpdActive' \cup UpdAttached' = {}
  <2>1. n \in UpdAttached
    BY DEF UpdAttached
  <2>2. n \notin UpdAttached'
    BY <1>2 DEF UpdAttached
  <2>3. UpdSingle' => n \notin UpdActive
    BY <1>6 DEF UpdActive
  <2> QED
    BY <2>1, <2>2, <2>3, <1>5, <1>6 DEF UpdInv, UpdOnlyOne
<1>8. UpdOnlyOne' /\ UpdFileSound' /\ UpdMemorySound'
  BY <1>7 DEF UpdOnlyOne, UpdFileSound, UpdMemorySound
<1>9. FlagHasRun'
  BY DEF FlagHasRun
<1> QED
  BY <1>4, <1>8, <1>9 DEF UpdInv

LEMMA UpdFinishKeepsInv ==
  ASSUME UpdInv, NEW n \in 1 .. UpdRuns, UpdFinish(n)
  PROVE  UpdInv'
<1>1. /\ updRun[n].attached /\ updRun[n].step \in UpdIdle
      /\ updRun' = [updRun EXCEPT ![n].attached = FALSE]
      /\ updFile' = updFile /\ updAsk' = updAsk /\ updPage' = updPage /\ updLost' = updLost
  BY DEF UpdFinish, UpdIdle
<1>2. /\ updRun'[n] = [updRun[n] EXCEPT !.attached = FALSE]
      /\ \A m \in 1 .. UpdRuns : m # n => updRun'[m] = updRun[m]
      /\ updRun' = [m \in 1 .. UpdRuns |-> updRun'[m]]
  BY <1>1 DEF UpdInv, UpdTypes, UpdTypeOK
<1>3. updState' \in [running : {FALSE}, lines : BOOLEAN, finished : BOOLEAN,
                     exit : {"null", "ok", "failed"}]
  BY DEF UpdFinish, UpdEnded, UpdInv, UpdTypes, UpdTypeOK
<1>4. /\ updRun'[n] \in {[updRun[n] EXCEPT !.attached = FALSE],
                         [updRun[n] EXCEPT !.step = "failed", !.attached = FALSE]}
      /\ updLost' \in {updLost, updLost + 1}
  BY <1>1, <1>2
<1> QED
  BY <1>1, <1>2, <1>3, <1>4, UpdDetachStep

LEMMA UpdStreamLostKeeps ==
  ASSUME UpdInv, NEW n \in 1 .. UpdRuns, UpdStreamLost(n)
  PROVE  UpdInv'
<1>1. /\ updRun[n].attached /\ updLost' = updLost + 1 /\ updLost \in Nat
      /\ updFile' = updFile /\ updAsk' = updAsk /\ updPage' = updPage
      /\ \/ updRun' = [updRun EXCEPT ![n].attached = FALSE]
         \/ updRun' = [updRun EXCEPT ![n].step = "failed", ![n].attached = FALSE]
  BY DEF UpdStreamLost, UpdInv, UpdTypes
<1>2. /\ updRun'[n] \in {[updRun[n] EXCEPT !.attached = FALSE],
                         [updRun[n] EXCEPT !.step = "failed", !.attached = FALSE]}
      /\ \A m \in 1 .. UpdRuns : m # n => updRun'[m] = updRun[m]
      /\ updRun' = [m \in 1 .. UpdRuns |-> updRun'[m]]
  BY <1>1 DEF UpdInv, UpdTypes, UpdTypeOK
<1>3. updState' \in [running : {FALSE}, lines : BOOLEAN, finished : BOOLEAN,
                     exit : {"null", "ok", "failed"}]
  BY DEF UpdStreamLost, UpdEnded, UpdInv, UpdTypes, UpdTypeOK
<1>4. updLost' \in {updLost, updLost + 1} /\ updLost' # updLost
  BY <1>1
<1> QED
  BY <1>1, <1>2, <1>3, <1>4, UpdDetachStep

LEMMA UpdRestartKeeps ==
  ASSUME UpdInv, UpdRestart
  PROVE  UpdInv'
<1>1. /\ updState' = [running |-> FALSE, lines |-> FALSE, finished |-> FALSE, exit |-> "null"]
      /\ updRun' = [n \in 1 .. UpdRuns |-> [updRun[n] EXCEPT !.attached = FALSE]]
      /\ updAsk' = [a \in UpdAskers |-> IF updAsk[a] = "listed" THEN "refused" ELSE updAsk[a]]
      /\ updFile' = updFile /\ updPage' = updPage /\ updLost' = updLost
  BY DEF UpdRestart, UpdFresh
<1>2. \A n \in 1 .. UpdRuns :
        /\ updRun'[n].step = updRun[n].step /\ updRun'[n].attached = FALSE
        /\ updRun'[n].alone = updRun[n].alone
        /\ updRun'[n] \in [step : {"none", "pull", "build", "web", "up", "done", "failed"},
                           attached : BOOLEAN, alone : BOOLEAN]
  BY <1>1 DEF UpdInv, UpdTypes, UpdTypeOK
<1>3. UpdTypes'
  <2>1. updRun' \in [1 .. UpdRuns -> [step : {"none", "pull", "build", "web", "up", "done", "failed"},
                                      attached : BOOLEAN, alone : BOOLEAN]]
    BY <1>1, <1>2
  <2>2. updAsk' \in [UpdAskers -> {"idle", "sent", "listed", "started", "refused"}]
    BY <1>1 DEF UpdInv, UpdTypes, UpdTypeOK
  <2> QED
    BY <1>1, <1>2, <2>1, <2>2 DEF UpdInv, UpdTypes, UpdTypeOK
<1>4. /\ UpdActive' = UpdActive /\ UpdAttached' = {} /\ (UpdSingle' <=> UpdSingle)
  BY <1>1, <1>2 DEF UpdActive, UpdAttached, UpdSingle
<1>5. UpdOnlyOne'
  BY <1>4 DEF UpdInv, UpdOnlyOne
<1>6. UpdFileSound'
  BY <1>1, <1>2, <1>4 DEF UpdInv, UpdFileSound, UpdActive
<1>7. UpdMemorySound' /\ FlagHasRun'
  BY <1>1 DEF UpdMemorySound, FlagHasRun
<1> QED
  BY <1>3, <1>5, <1>6, <1>7 DEF UpdInv

(* startUpdatePolling in a page that waits for nothing else, or has met. *)
LEMMA UpdPollsSound ==
  ASSUME NEW page, UpdPageSound(page),
         ~page.met => page.asks = {} /\ page.mount = "none" /\ ~page.handle
  PROVE  UpdPageSound(UpdPolls(page))
<1>1. page \in UpdPages /\ page.timers \in Nat
  BY DEF UpdPageSound, UpdPages
<1> DEFINE next == page.timers + 1
<1>2. next \in Nat /\ next > 0 /\ UpdPolls(page) = [page EXCEPT !.running = TRUE, !.timers = next, !.handle = TRUE]
  BY <1>1 DEF UpdPolls
<1>3. next = page.timers + 1
  OBVIOUS
<1> HIDE DEF next
<1>4. /\ UpdPolls(page) \in UpdPages /\ UpdPolls(page).timers = next /\ UpdPolls(page).handle
      /\ UpdPolls(page).met = page.met /\ UpdPolls(page).asks = page.asks /\ UpdPolls(page).mount = page.mount
  BY <1>1, <1>2 DEF UpdPages
<1> QED
  BY <1>1, <1>2, <1>3, <1>4 DEF UpdPageSound

LEMMA UpdTriggeredKeeps ==
  ASSUME UpdInv, NEW a \in UpdAskers, UpdTriggered(a)
  PROVE  UpdInv'
<1> DEFINE page == [updPage EXCEPT !.asks = @ \ {a}]
<1>1. updAsk' \in [UpdAskers -> {"idle", "sent", "listed", "started", "refused"}]
  BY DEF UpdTriggered, UpdInv, UpdTypes, UpdTypeOK
<1>2. UpdPageSound(updPage) /\ updPage \in UpdPages
  BY DEF UpdInv, UpdTypes, UpdPageSound
<1>3. /\ page \in UpdPages /\ page.asks = updPage.asks \ {a} /\ page.timers = updPage.timers
      /\ page.handle = updPage.handle /\ page.met = updPage.met /\ page.mount = updPage.mount
  BY <1>2 DEF UpdPages
<1>4. /\ \/ updPage' = UpdPolls(page) /\ a \in updPage.asks
         \/ updPage' = page
      /\ UNCHANGED <<updState, updRun, updFile, updRestarts, updLost>>
  BY DEF UpdTriggered
<1> HIDE DEF page
<1>5. UpdPageSound(page)
  BY <1>2, <1>3 DEF UpdPageSound
<1>6. a \in updPage.asks /\ ~page.met => page.asks = {} /\ page.mount = "none" /\ ~page.handle
  BY <1>2, <1>3 DEF UpdPageSound
<1>7. UpdPageSound(updPage')
  BY <1>4, <1>5, <1>6, UpdPollsSound
<1> QED
  BY <1>1, <1>4, <1>7, UpdCallStep

LEMMA UpdConfirmKeeps ==
  ASSUME UpdInv, NEW a \in UpdAskers, UpdConfirm(a)
  PROVE  UpdInv'
<1>1. /\ updAsk' \in [UpdAskers -> {"idle", "sent", "listed", "started", "refused"}]
      /\ UNCHANGED <<updState, updRun, updFile, updRestarts, updLost>>
  BY DEF UpdConfirm, UpdInv, UpdTypes, UpdTypeOK
<1>2. UpdPageSound(updPage) /\ updPage \in UpdPages
  BY DEF UpdInv, UpdTypes, UpdPageSound
<1>3. CASE a \notin UpdClicks
  <2>1. UpdPageSound(updPage')
    BY <1>2, <1>3 DEF UpdConfirm
  <2> QED
    BY <1>1, <2>1, UpdCallStep
<1>4. CASE a \in UpdClicks
  <2>1. updPage' = [updPage EXCEPT !.finished = FALSE, !.exit = "null", !.run = 0, !.dialog = FALSE,
                      !.asks = @ \cup {a}, !.met = UpdMeets]
    BY <1>4 DEF UpdConfirm
  <2>2. UpdMeets \in BOOLEAN /\ 0 \in 0 .. UpdRuns
    BY <1>2, UpdAssumption DEF UpdMeets, UpdPages
  <2>3. /\ updPage' \in UpdPages /\ updPage'.asks = updPage.asks \cup {a} /\ updPage'.met = UpdMeets
        /\ updPage'.timers = updPage.timers /\ updPage'.handle = updPage.handle /\ updPage'.mount = updPage.mount
    BY <1>2, <1>4, <2>1, <2>2 DEF UpdPages
  <2>4. ~updPage'.met =>
          ~updPage.met /\ updPage.asks = {} /\ updPage.mount = "none" /\ ~updPage.handle
    BY <2>3 DEF UpdMeets
  <2>5. UpdPageSound(updPage')
    BY <1>2, <2>3, <2>4 DEF UpdPageSound
  <2> QED
    BY <1>1, <2>5, UpdCallStep
<1> QED
  BY <1>3, <1>4

LEMMA UpdPageKeeps ==
  ASSUME UpdInv,
         \/ UpdDialog \/ UpdPoll \/ UpdServe \/ UpdAnswer
         \/ UpdOpen \/ UpdMount \/ UpdMounted \/ UpdUnanswered
  PROVE  UpdInv'
<1>1. /\ UpdPageSound(updPage) /\ updPage \in UpdPages /\ UpdStatus \in UpdStatuses
      /\ updPage.answers \subseteq UpdStatuses
  BY UpdStatusType DEF UpdInv, UpdTypes, UpdPageSound, UpdPages
<1>2. updAsk \in [UpdAskers -> {"idle", "sent", "listed", "started", "refused"}]
  BY DEF UpdInv, UpdTypes, UpdTypeOK
<1>3. ASSUME UpdPageSound(updPage'), UpdPageOnly
      PROVE  UpdInv'
  BY <1>2, <1>3, UpdCallStep DEF UpdPageOnly
<1>4. ASSUME updPage' \in UpdPages, updPage'.timers = updPage.timers, updPage'.handle = updPage.handle,
             updPage'.asks = updPage.asks, updPage'.mount \in {updPage.mount, "none"},
             updPage'.met = updPage.met
      PROVE  UpdPageSound(updPage')
  BY <1>1, <1>4 DEF UpdPageSound
<1>5. CASE UpdDialog
  <2>1. updPage' = [updPage EXCEPT !.dialog = TRUE] /\ UpdPageOnly
    BY <1>5 DEF UpdDialog, UpdPageOnly
  <2> QED
    BY <1>1, <1>3, <1>4, <2>1 DEF UpdPages
<1>6. CASE UpdPoll
  <2>1. updPage' = [updPage EXCEPT !.sent = @ + 1] /\ UpdPageOnly
    BY <1>6 DEF UpdPoll
  <2> QED
    BY <1>1, <1>3, <1>4, <2>1 DEF UpdPages
<1>7. CASE UpdServe
  <2>1. /\ updPage.sent > 0 /\ UpdPageOnly
        /\ updPage' = [updPage EXCEPT !.sent = @ - 1, !.answers = @ \cup {UpdStatus}]
    BY <1>7 DEF UpdServe
  <2>2. updPage.sent - 1 \in Nat /\ updPage.answers \cup {UpdStatus} \in SUBSET UpdStatuses
    BY <1>1, <2>1 DEF UpdPages
  <2> QED
    BY <1>1, <1>3, <1>4, <2>1, <2>2 DEF UpdPages
<1>8. CASE UpdAnswer
  <2>1. PICK s \in updPage.answers :
          LET stops == UpdStopsPolling(s) /\ updPage.handle
          IN /\ updPage' = [updPage EXCEPT !.answers = @ \ {s}, !.running = s.running,
                               !.finished = s.finished, !.exit = s.exit,
                               !.timers = IF stops THEN @ - 1 ELSE @, !.handle = @ /\ ~stops]
             /\ UpdPageOnly
    BY <1>8 DEF UpdAnswer
  <2> DEFINE stops == UpdStopsPolling(s) /\ updPage.handle
  <2>2. s \in UpdStatuses /\ stops \in BOOLEAN /\ (stops => updPage.handle)
    BY <1>1 DEF UpdStopsPolling
  <2> DEFINE next == IF stops THEN updPage.timers - 1 ELSE updPage.timers
             held == updPage.handle /\ ~stops
  <2>3. updPage' = [updPage EXCEPT !.answers = @ \ {s}, !.running = s.running,
                      !.finished = s.finished, !.exit = s.exit, !.timers = next, !.handle = held]
    BY <2>1
  <2> HIDE DEF stops
  <2>4. updPage.timers \in Nat /\ (updPage.handle => updPage.timers > 0)
    BY <1>1 DEF UpdPageSound, UpdPages
  <2>5. next \in Nat /\ held \in BOOLEAN
    BY <2>2, <2>4
  <2>6. /\ held => updPage.handle /\ next = updPage.timers
        /\ ~held => next = IF updPage.handle THEN updPage.timers - 1 ELSE updPage.timers
    BY <2>2
  <2> HIDE DEF next, held
  <2>7. /\ updPage' \in UpdPages /\ updPage'.handle = held /\ updPage'.timers = next
        /\ updPage'.asks = updPage.asks /\ updPage'.mount = updPage.mount /\ updPage'.met = updPage.met
    BY <1>1, <2>2, <2>3, <2>5 DEF UpdPages, UpdStatuses
  <2>8. UpdPageSound(updPage')
    <3>1. updPage'.handle => updPage'.timers > 0
      BY <2>4, <2>6, <2>7
    <3>2. ~updPage'.met =>
            /\ updPage'.timers = IF updPage'.handle THEN 1 ELSE 0
            /\ \A a, b \in updPage'.asks : a = b
            /\ updPage'.asks # {} => updPage'.mount = "none"
            /\ updPage'.asks # {} \/ updPage'.mount # "none" => ~updPage'.handle
      BY <1>1, <2>4, <2>6, <2>7 DEF UpdPageSound
    <3> QED
      BY <2>7, <3>1, <3>2 DEF UpdPageSound
  <2> QED
    BY <1>3, <2>1, <2>8
<1>9. CASE UpdOpen
  BY <1>3, <1>9, UpdOpenedSound DEF UpdOpen
<1>10. CASE UpdMount
  <2>1. /\ updPage.mount = "sent" /\ UpdPageOnly
        /\ updPage' = [updPage EXCEPT !.mount = IF UpdStatus.running THEN "running" ELSE "none"]
    BY <1>10 DEF UpdMount
  <2>2. /\ updPage' \in UpdPages /\ updPage'.timers = updPage.timers /\ updPage'.handle = updPage.handle
        /\ updPage'.asks = updPage.asks /\ updPage'.met = updPage.met
    BY <1>1, <2>1 DEF UpdPages
  <2>3. UpdPageSound(updPage')
    BY <1>1, <2>1, <2>2 DEF UpdPageSound
  <2> QED
    BY <1>3, <2>1, <2>3
<1>11. CASE UpdMounted
  <2> DEFINE page == [updPage EXCEPT !.mount = "none"]
  <2>1. updPage.mount = "running" /\ UpdPageOnly /\ updPage' = UpdPolls(page)
    BY <1>11 DEF UpdMounted
  <2>2. /\ page \in UpdPages /\ page.timers = updPage.timers /\ page.handle = updPage.handle
        /\ page.asks = updPage.asks /\ page.met = updPage.met /\ page.mount = "none"
    BY <1>1 DEF UpdPages
  <2> HIDE DEF page
  <2>3. UpdPageSound(page) /\ (~page.met => page.asks = {} /\ page.mount = "none" /\ ~page.handle)
    BY <1>1, <2>1, <2>2 DEF UpdPageSound
  <2> QED
    BY <1>3, <2>1, <2>3, UpdPollsSound
<1>12. CASE UpdUnanswered
  <2>1. CASE \E s \in updPage.answers : updPage' = [updPage EXCEPT !.answers = @ \ {s}] /\ UpdPageOnly
    BY <1>1, <1>3, <1>4, <2>1 DEF UpdPages
  <2>2. CASE updPage.mount # "none" /\ updPage' = [updPage EXCEPT !.mount = "none"] /\ UpdPageOnly
    BY <1>1, <1>3, <1>4, <2>2 DEF UpdPages
  <2>3. CASE \E a \in UpdAskers :
               /\ updAsk[a] = "started" /\ updAsk' = [updAsk EXCEPT ![a] = "refused"]
               /\ UNCHANGED <<updState, updRun, updFile, updPage, updRestarts, updLost>>
    <3>1. updAsk' \in [UpdAskers -> {"idle", "sent", "listed", "started", "refused"}]
      BY <1>2, <2>3
    <3> QED
      BY <1>1, <2>3, <3>1, UpdCallStep
  <2> QED
    BY <1>12, <2>1, <2>2, <2>3 DEF UpdUnanswered
<1> QED
  BY <1>5, <1>6, <1>7, <1>8, <1>9, <1>10, <1>11, <1>12

LEMMA UpdInvNext ==
  ASSUME UpdInv, [UpdNext]_UpdVars
  PROVE  UpdInv'
<1>1. CASE \E a \in UpdAskers : UpdConfirm(a) \/ UpdTrigger(a) \/ UpdStart(a) \/ UpdTriggered(a)
  BY <1>1, UpdConfirmKeeps, UpdTriggerKeeps, UpdStartKeeps, UpdTriggeredKeeps
<1>2. CASE \E n \in 1 .. UpdRuns : UpdScript(n) \/ UpdFinish(n) \/ UpdStreamLost(n)
  BY <1>2, UpdScriptKeeps, UpdFinishKeepsInv, UpdStreamLostKeeps
<1>3. CASE UNCHANGED UpdVars
  BY <1>3, UpdCallStep DEF UpdVars, UpdInv, UpdTypes, UpdTypeOK
<1> QED
  BY <1>1, <1>2, <1>3, UpdRestartKeeps, UpdPageKeeps DEF UpdNext

LEMMA UpdInvIsSound ==
  ASSUME UpdInv
  PROVE  UpdateIsTold
<1>1. SUFFICES ASSUME UpdStatus.finished, UpdSingle, NEW n \in UpdActive
               PROVE  updRun[n].step = "pull"
  <2>1. IntervalIsHeld
    BY DEF UpdInv, UpdTypes, UpdPageSound, IntervalIsHeld
  <2> QED
    BY <2>1 DEF UpdInv, UpdTypes, UpdateIsTold, CompleteMeansEnded, UpdSingle
<1>2. ~updState.lines
  BY <1>1 DEF UpdStatus, UpdInv, UpdMemorySound
<1>3. updFile = "complete"
  BY <1>1, <1>2 DEF UpdStatus
<1> QED
  BY <1>1, <1>3 DEF UpdInv, UpdFileSound

(* UpdateIsTold (system.ts:274-332, update-docker.sh). *)
THEOREM UpdateIsToldHolds == UpdSpec => []UpdateIsTold
<1>1. UpdInit => UpdInv
  BY UpdInvInit
<1>2. UpdInv /\ [UpdNext]_UpdVars => UpdInv'
  BY UpdInvNext
<1>3. UpdInv => UpdateIsTold
  BY UpdInvIsSound
<1> QED
  BY <1>1, <1>2, <1>3, PTL DEF UpdSpec

-----------------------------------------------------------------------------
(***************************************************************************)
(* GithubApp                                                               *)
(***************************************************************************)

AppSteps == {"idle", "upsert", "delete", "clear", "slug", "storeSlug", "refresh", "return"}
AppRuns == [op : {"none", "set", "exchange", "clear"}, conf : AppNumbers, step : AppSteps]
AppRefreshes == [step : {"none", "read", "clear", "fetch", "store", "failed"},
                 conf : AppNumbers, todo : SUBSET AppCacheKeys]
AppPages == [conf : AppNumbers, shown : AppNumbers, timer : BOOLEAN,
             request : {"none", "conf", "list", "off", "cache", "answered"},
             answer : AppNumbers, refreshing : BOOLEAN]

(* What the callers of the mutations ask for. *)
AppOpsFit ==
  /\ appAct["page"].op # "exchange"
  /\ \A a \in AppAdmins : appAct[a].op = "none" <=> appAct[a].step = "idle"

(* The numbers in use were given out; a list that is not there yet is being
   fetched when it is answered. *)
AppTypes ==
  /\ AppTypeOK /\ InFlightIsRefreshing /\ AppOpsFit
  /\ appPage \in AppPages
  /\ appCount \in [confs : AppNumbers, moves : Nat]
  /\ appConf.conf <= appCount.confs /\ appPage.conf <= appCount.confs
  /\ appPage.request = "answered" => appPage.answer # 0 \/ appPage.refreshing

(* Which mutation gets to which step. *)
AppStepFits(act) ==
  /\ act.op = "none" <=> act.step = "idle"
  /\ act.step = "delete" => act.op = "clear"
  /\ act.step = "upsert" => act.op \in {"set", "exchange"}
  /\ act.step = "clear" => act.op \in {"set", "clear"}
  /\ act.step \in {"slug", "storeSlug", "refresh"} => act.op = "set"

(* With nothing overlapping, a mutation is alone until it starts its refresh. *)
AppAlone ==
  /\ \A a, b \in AppAdmins : appAct[a].op # "none" /\ appAct[b].op # "none" => a = b
  /\ \A a \in AppAdmins :
       /\ AppStepFits(appAct[a])
       /\ appAct[a].op # "none" => appPage.request = "none" /\ ~appPage.timer
       /\ appAct[a].step \notin {"idle", "return"} => ~appInFlight
       /\ appAct[a].op = "set" /\ appAct[a].step \in {"clear", "slug", "storeSlug"} =>
            appAct[a].conf = appConf.conf

(* What the server and the page know is of the App configured now. *)
AppKnown ==
  /\ (\A a \in AppAdmins : appAct[a].step # "clear") =>
       \A k \in AppCacheKeys : appCache[k] \in {0, appConf.conf}
  /\ appConf.slug \in {0, appConf.conf}
  /\ appRefresh.step \notin {"none", "read"} => appRefresh.conf = appConf.conf
  /\ appPage.request = "answered" => appPage.answer \in {0, appConf.conf}
  /\ appPage.request \in {"list", "cache", "answered"} \/ appPage.timer => appConf.conf # 0
  /\ appPage.request # "off"
  /\ appPage.conf = appConf.conf /\ appConf.conf # 0 =>
       appPage.shown = appConf.conf \/ appPage.request # "none" \/ appPage.timer

AppInv == AppTypes /\ (appMixed \/ (AppAlone /\ AppKnown))

-----------------------------------------------------------------------------
(* Steps *)

LEMMA AppInvInit == AppInit => AppInv
<1> SUFFICES ASSUME AppInit PROVE AppInv
  OBVIOUS
<1>1. 0 \in AppNumbers /\ 0 \in Nat
  BY AppAssumption DEF AppNumbers
<1>2. /\ appConf = [conf |-> 0, slug |-> 0]
      /\ appRefresh = [step |-> "none", conf |-> 0, todo |-> {}]
      /\ appInFlight = FALSE /\ appRecent = FALSE /\ appMixed = FALSE
      /\ appPage = [conf |-> 0, shown |-> 0, timer |-> FALSE, request |-> "none", answer |-> 0,
                    refreshing |-> FALSE]
      /\ appCount = [confs |-> 0, moves |-> 0]
      /\ appCache = [k \in AppCacheKeys |-> 0]
      /\ appAct = [a \in AppAdmins |-> [op |-> "none", step |-> "idle", conf |-> 0]]
  BY DEF AppInit, AppNoRefresh, AppIdlePage, AppNoCache, AppNoAct
<1>3. \A a \in AppAdmins : appAct[a].op = "none" /\ appAct[a].step = "idle"
  BY <1>2
<1>4. appAct \in [AppAdmins -> AppRuns] /\ appCache \in [AppCacheKeys -> AppNumbers]
  BY <1>1, <1>2 DEF AppRuns, AppSteps
<1>5. AppTypeOK
  BY <1>1, <1>2, <1>4 DEF AppTypeOK, AppRuns, AppSteps
<1>6. AppTypes
  BY <1>1, <1>2, <1>3, <1>5 DEF AppTypes, AppOpsFit, AppAdmins, InFlightIsRefreshing, AppPages
<1>7. AppAlone /\ AppKnown
  BY <1>2, <1>3 DEF AppAlone, AppKnown, AppStepFits
<1> QED
  BY <1>6, <1>7 DEF AppInv

(* The types, variable by variable. *)
LEMMA AppTypesOf ==
  ASSUME AppTypes
  PROVE  /\ appConf \in [conf : AppNumbers, slug : AppNumbers]
         /\ appCache \in [AppCacheKeys -> AppNumbers]
         /\ appRefresh \in AppRefreshes /\ appPage \in AppPages
         /\ appAct \in [AppAdmins -> AppRuns]
         /\ appCount.confs \in AppNumbers /\ appCount.moves \in Nat
         /\ appInFlight \in BOOLEAN /\ appRecent \in BOOLEAN /\ appMixed \in BOOLEAN
         /\ appInFlight <=> appRefresh.step # "none"
         /\ 0 \in AppNumbers
<1>1. 0 \in AppNumbers
  BY AppAssumption DEF AppNumbers
<1> QED
  BY <1>1 DEF AppTypes, AppTypeOK, AppRefreshes, AppRuns, AppSteps, InFlightIsRefreshing

(* The types after a step. *)
LEMMA AppTypesNext ==
  ASSUME appConf' \in [conf : AppNumbers, slug : AppNumbers],
         appCache' \in [AppCacheKeys -> AppNumbers],
         appRefresh' \in AppRefreshes, appPage' \in AppPages,
         appRefresh'.step \in {"fetch", "store", "failed"} => appRefresh'.conf # 0,
         appAct' \in [AppAdmins -> AppRuns],
         appCount' \in [confs : AppNumbers, moves : Nat],
         appInFlight' \in BOOLEAN, appRecent' \in BOOLEAN, appMixed' \in BOOLEAN,
         appInFlight' <=> appRefresh'.step # "none",
         appConf'.conf <= appCount'.confs, appPage'.conf <= appCount'.confs,
         appPage'.request = "answered" => appPage'.answer # 0 \/ appPage'.refreshing,
         AppOpsFit'
  PROVE  AppTypes'
<1>1. /\ appPage'.conf \in AppNumbers /\ appPage'.shown \in AppNumbers /\ appPage'.answer \in AppNumbers
      /\ appPage'.timer \in BOOLEAN /\ appPage'.refreshing \in BOOLEAN
      /\ appPage'.request \in {"none", "conf", "list", "off", "cache", "answered"}
  BY DEF AppPages
<1>2. AppTypeOK'
  BY <1>1 DEF AppTypeOK, AppRefreshes, AppRuns, AppSteps
<1> QED
  BY <1>2 DEF AppTypes, InFlightIsRefreshing

(* refreshAppRepoCacheInBackground joins a refresh or starts one. *)
LEMMA AppRefreshDoes ==
  ASSUME AppTypes, NEW force \in BOOLEAN, AppRefresh(force)
  PROVE  /\ \/ /\ appRefresh' = appRefresh /\ appInFlight' = appInFlight
               /\ appRecent' = appRecent
            \/ /\ appRefresh' \in AppRefreshes /\ appRefresh'.step = "read"
               /\ appInFlight' = TRUE /\ appRecent' = TRUE
         /\ force => appInFlight' = TRUE
<1>1. CASE appInFlight \/ (~force /\ appRecent)
  BY <1>1, AppTypesOf DEF AppRefresh
<1>2. CASE ~(appInFlight \/ (~force /\ appRecent))
  <2>1. /\ appRefresh' = [step |-> "read", conf |-> 0, todo |-> {}]
        /\ appInFlight' = TRUE /\ appRecent' = TRUE
    BY <1>2 DEF AppRefresh, AppNoRefresh
  <2> QED
    BY <2>1, AppTypesOf DEF AppRefreshes
<1> QED
  BY <1>1, <1>2

-----------------------------------------------------------------------------
(* A step of the refresh: what it writes is of the configuration it read. *)
LEMMA AppRefreshStep ==
  ASSUME AppInv, appConf' = appConf, appAct' = appAct, appPage' = appPage, appCount' = appCount,
         appMixed' = appMixed, appRecent' \in BOOLEAN,
         appCache' \in [AppCacheKeys -> AppNumbers],
         \A k \in AppCacheKeys : \/ appCache'[k] \in {0, appCache[k]}
                                 \/ /\ appCache'[k] = appRefresh.conf
                                    /\ appRefresh.step \notin {"none", "read"},
         appRefresh' \in AppRefreshes, appInFlight' = (appRefresh'.step # "none"),
         appRefresh'.step # "none" => appRefresh.step # "none",
         appRefresh'.step \in {"fetch", "store", "failed"} => appRefresh'.conf # 0,
         appRefresh'.step \notin {"none", "read"} =>
           \/ appRefresh'.conf = appConf.conf
           \/ appRefresh.step \notin {"none", "read"} /\ appRefresh'.conf = appRefresh.conf
  PROVE  AppInv'
<1>1. AppTypes'
  <2>1. AppTypes
    BY DEF AppInv
  <2>2. appCount \in [confs : AppNumbers, moves : Nat]
    BY <2>1 DEF AppTypes
  <2>3. /\ appConf.conf <= appCount.confs /\ appPage.conf <= appCount.confs
        /\ appPage.request = "answered" => appPage.answer # 0 \/ appPage.refreshing
    BY <2>1 DEF AppTypes
  <2>4. appInFlight' \in BOOLEAN /\ (appInFlight' <=> appRefresh'.step # "none")
    OBVIOUS
  <2>5. AppOpsFit'
    BY <2>1 DEF AppTypes, AppOpsFit
  <2> QED
    BY <2>1, <2>2, <2>3, <2>4, <2>5, AppTypesOf, AppTypesNext
<1>2. ~appMixed => AppAlone'
  <2>1. appInFlight' => appInFlight
    BY DEF AppInv, AppTypes, InFlightIsRefreshing
  <2> QED
    BY <2>1 DEF AppInv, AppAlone
<1>3. ~appMixed => AppKnown'
  BY DEF AppInv, AppKnown
<1> QED
  BY <1>1, <1>2, <1>3 DEF AppInv

LEMMA AppReadConfKeeps ==
  ASSUME AppInv, AppReadConf
  PROVE  AppInv'
<1>1. AppTypes
  BY DEF AppInv
<1>2. appRefresh' = [appRefresh EXCEPT !.step = IF appConf.conf = 0 THEN "clear" ELSE "fetch",
                                       !.conf = appConf.conf]
  BY DEF AppReadConf
<1>3. /\ appRefresh' \in AppRefreshes /\ appRefresh'.conf = appConf.conf
      /\ appRefresh'.step = IF appConf.conf = 0 THEN "clear" ELSE "fetch"
  BY <1>1, <1>2, AppTypesOf DEF AppRefreshes
<1>4. appInFlight' = (appRefresh'.step # "none")
  <2>1. appRefresh'.step # "none" /\ appRefresh.step = "read"
    BY <1>3 DEF AppReadConf
  <2>2. appInFlight = TRUE /\ appInFlight' = appInFlight
    BY <1>1, <2>1, AppTypesOf DEF AppReadConf
  <2> QED
    BY <2>1, <2>2
<1> QED
  BY <1>1, <1>3, <1>4, AppTypesOf, AppRefreshStep DEF AppReadConf, AppRefreshRest

(* The end of a refresh. *)
LEMMA AppOver ==
  ASSUME AppTypes, AppRefreshOver
  PROVE  /\ appRefresh' \in AppRefreshes /\ appRefresh'.step = "none"
         /\ appInFlight' = (appRefresh'.step # "none")
BY AppTypesOf DEF AppRefreshOver, AppNoRefresh, AppRefreshes

LEMMA AppDropCacheKeeps ==
  ASSUME AppInv, AppDropCache
  PROVE  AppInv'
<1>1. AppTypes
  BY DEF AppInv
<1>2. /\ appRefresh' \in AppRefreshes /\ appRefresh'.step = "none"
      /\ appInFlight' = (appRefresh'.step # "none")
  BY <1>1, AppOver DEF AppDropCache
<1>3. appCache' \in [AppCacheKeys -> AppNumbers] /\ \A k \in AppCacheKeys : appCache'[k] = 0
  BY <1>1, AppTypesOf DEF AppDropCache, AppNoCache
<1> QED
  BY <1>1, <1>2, <1>3, AppTypesOf, AppRefreshStep DEF AppDropCache, AppRefreshRest

LEMMA AppFetchedKeeps ==
  ASSUME AppInv, AppFetched
  PROVE  AppInv'
<1>1. AppTypes
  BY DEF AppInv
<1>2. /\ appRefresh' \in AppRefreshes /\ appRefresh'.step \in {"store", "failed"}
      /\ appRefresh'.conf = appRefresh.conf
  BY <1>1, AppTypesOf DEF AppFetched, AppRefreshes
<1>3. appRefresh.step = "fetch" /\ appRefresh.conf # 0
  BY <1>1 DEF AppFetched, AppTypes, AppTypeOK
<1>4. appInFlight' = (appRefresh'.step # "none")
  BY <1>1, <1>2, <1>3, AppTypesOf DEF AppFetched
<1> QED
  BY <1>1, <1>2, <1>3, <1>4, AppTypesOf, AppRefreshStep DEF AppFetched, AppRefreshRest

LEMMA AppStoreKeeps ==
  ASSUME AppInv, AppStore
  PROVE  AppInv'
<1>1. AppTypes
  BY DEF AppInv
<1>2. appRefresh.step = "store" /\ appRefresh.conf # 0
  BY <1>1 DEF AppStore, AppTypes, AppTypeOK
<1>3. PICK k \in appRefresh.todo :
        /\ appCache' = [appCache EXCEPT ![k] = IF k = "error" THEN 0 ELSE appRefresh.conf]
        /\ IF appRefresh.todo = {k} THEN AppRefreshOver
           ELSE appRefresh' = [appRefresh EXCEPT !.todo = @ \ {k}] /\ UNCHANGED appInFlight
  BY DEF AppStore
<1>4. /\ appCache' \in [AppCacheKeys -> AppNumbers]
      /\ \A j \in AppCacheKeys : appCache'[j] \in {0, appCache[j], appRefresh.conf}
  BY <1>1, <1>3, AppTypesOf DEF AppRefreshes
<1>5. /\ appRefresh' \in AppRefreshes /\ appInFlight' = (appRefresh'.step # "none")
      /\ \/ appRefresh'.step = "none"
         \/ appRefresh'.step = "store" /\ appRefresh'.conf = appRefresh.conf
  <2>1. CASE appRefresh.todo = {k}
    BY <1>1, <1>3, <2>1, AppOver
  <2>2. CASE appRefresh.todo # {k}
    <3>1. appRefresh' = [appRefresh EXCEPT !.todo = @ \ {k}] /\ appInFlight' = appInFlight
      BY <1>3, <2>2
    <3>2. appRefresh \in AppRefreshes /\ appInFlight = (appRefresh.step # "none")
      BY <1>1, AppTypesOf
    <3> QED
      BY <1>2, <3>1, <3>2 DEF AppRefreshes
  <2> QED
    BY <2>1, <2>2
<1> QED
  BY <1>1, <1>2, <1>4, <1>5, AppTypesOf, AppRefreshStep DEF AppStore, AppRefreshRest

LEMMA AppStoreErrorKeeps ==
  ASSUME AppInv, AppStoreError
  PROVE  AppInv'
<1>1. AppTypes
  BY DEF AppInv
<1>2. /\ appRefresh' \in AppRefreshes /\ appRefresh'.step = "none"
      /\ appInFlight' = (appRefresh'.step # "none") /\ appRefresh.step = "failed"
  BY <1>1, AppOver DEF AppStoreError
<1>3. /\ appCache' \in [AppCacheKeys -> AppNumbers]
      /\ \A j \in AppCacheKeys : appCache'[j] \in {appCache[j], appRefresh.conf}
  BY <1>1, AppTypesOf DEF AppStoreError, AppRefreshes
<1> QED
  BY <1>1, <1>2, <1>3, AppTypesOf, AppRefreshStep DEF AppStoreError, AppRefreshRest

LEMMA AppThrottleEndsKeeps ==
  ASSUME AppInv, AppThrottleEnds
  PROVE  AppInv'
<1>1. AppTypes
  BY DEF AppInv
<1>2. appRefresh.step \in {"fetch", "store", "failed"} => appRefresh.conf # 0
  BY <1>1 DEF AppTypes, AppTypeOK
<1>3. appInFlight' = (appRefresh'.step # "none")
  BY <1>1, AppTypesOf DEF AppThrottleEnds
<1> QED
  BY <1>1, <1>2, <1>3, AppTypesOf, AppRefreshStep DEF AppThrottleEnds

-----------------------------------------------------------------------------
(* A step of the page, which may start a refresh.  With nothing overlapping
   no mutation is under way. *)
LEMMA AppPageStep ==
  ASSUME AppInv, appConf' = appConf, appCache' = appCache, appAct' = appAct,
         appCount' \in [confs : AppNumbers, moves : Nat], appCount'.confs = appCount.confs,
         appMixed' \in BOOLEAN, appMixed => appMixed',
         \/ /\ appRefresh' = appRefresh /\ appInFlight' = appInFlight
            /\ appRecent' = appRecent
         \/ /\ appRefresh' \in AppRefreshes /\ appRefresh'.step = "read"
            /\ appInFlight' = TRUE /\ appRecent' = TRUE,
         appPage' \in AppPages, appPage'.conf \in {0, appPage.conf, appConf.conf},
         appPage'.request = "answered" => appPage'.answer # 0 \/ appPage'.refreshing,
         ~appMixed' =>
           /\ \A a \in AppAdmins : appAct[a].op = "none"
           /\ appPage'.request = "answered" => appPage'.answer \in {0, appConf.conf}
           /\ appPage'.request \in {"list", "cache", "answered"} \/ appPage'.timer => appConf.conf # 0
           /\ appPage'.request # "off"
           /\ appPage'.conf = appConf.conf /\ appConf.conf # 0 =>
                appPage'.shown = appConf.conf \/ appPage'.request # "none" \/ appPage'.timer
  PROVE  AppInv'
<1>1. AppTypes
  BY DEF AppInv
<1>2. AppTypes'
  <2>1. /\ appConf.conf \in AppNumbers /\ appPage.conf \in AppNumbers /\ appCount.confs \in AppNumbers
    BY <1>1, AppTypesOf DEF AppPages
  <2>2. appPage'.conf <= appCount'.confs /\ appConf'.conf <= appCount'.confs
    BY <2>1, <1>1, AppAssumption DEF AppTypes, AppNumbers
  <2>3. /\ appRefresh' \in AppRefreshes /\ appInFlight' \in BOOLEAN /\ appRecent' \in BOOLEAN
        /\ appInFlight' <=> appRefresh'.step # "none"
        /\ appRefresh'.step \in {"fetch", "store", "failed"} => appRefresh'.conf # 0
    <3>1. CASE appRefresh' = appRefresh /\ appInFlight' = appInFlight /\ appRecent' = appRecent
      BY <1>1, <3>1, AppTypesOf DEF AppTypes, AppTypeOK
    <3>2. CASE /\ appRefresh' \in AppRefreshes /\ appRefresh'.step = "read"
               /\ appInFlight' = TRUE /\ appRecent' = TRUE
      BY <3>2
    <3> QED
      BY <3>1, <3>2
  <2>4. /\ appConf' \in [conf : AppNumbers, slug : AppNumbers]
        /\ appCache' \in [AppCacheKeys -> AppNumbers] /\ appAct' \in [AppAdmins -> AppRuns]
    BY <1>1, AppTypesOf
  <2>5. (appPage.request = "answered" => appPage.answer # 0 \/ appPage.refreshing)'
    OBVIOUS
  <2>6. AppOpsFit'
    BY <1>1 DEF AppTypes, AppOpsFit
  <2> QED
    BY <2>2, <2>3, <2>4, <2>5, <2>6, AppTypesNext
<1>3. ~appMixed' => AppAlone'
  <2>1. SUFFICES ASSUME ~appMixed' PROVE AppAlone'
    OBVIOUS
  <2>2. AppAlone /\ \A a \in AppAdmins : appAct[a].op = "none" /\ appAct[a].step = "idle"
    BY <2>1 DEF AppInv, AppAlone, AppStepFits
  <2> QED
    BY <2>2 DEF AppAlone, AppStepFits
<1>4. ~appMixed' => AppKnown'
  BY DEF AppInv, AppKnown
<1> QED
  BY <1>2, <1>3, <1>4 DEF AppInv

(* While the page asks or waits, no mutation is under way. *)
LEMMA AppAskingIsAlone ==
  ASSUME AppInv, ~appMixed, appPage.request # "none" \/ appPage.timer
  PROVE  /\ \A a \in AppAdmins : appAct[a].op = "none"
         /\ \A a \in AppAdmins : appAct[a].step = "idle"
BY DEF AppInv, AppAlone, AppStepFits

LEMMA AppOpenKeeps ==
  ASSUME AppInv, AppOpen
  PROVE  AppInv'
<1>1. AppTypes
  BY DEF AppInv
<1>2. appPage' = [conf |-> 0, shown |-> 0, timer |-> FALSE, request |-> "conf", answer |-> 0,
                  refreshing |-> FALSE]
  BY DEF AppOpen, AppIdlePage
<1>3. appPage' \in AppPages
  BY <1>1, <1>2, AppTypesOf DEF AppPages
<1>4. appCount' \in [confs : AppNumbers, moves : Nat] /\ appCount'.confs = appCount.confs
  BY <1>1 DEF AppOpen, AppMove, AppTypes
<1>5. appMixed' = (appMixed \/ \E a \in AppAdmins : appAct[a].op # "none")
  BY DEF AppOpen
<1>6. /\ appMixed' \in BOOLEAN /\ (appMixed => appMixed')
      /\ ~appMixed' => \A a \in AppAdmins : appAct[a].op = "none"
  BY <1>1, <1>5, AppTypesOf
<1> QED
  BY <1>2, <1>3, <1>4, <1>6, AppPageStep DEF AppOpen, AppNoRefreshStarted

(* The parts of a page step that only changes the page. *)
LEMMA AppPageOnlyStep ==
  ASSUME AppInv, appCount' = appCount, AppPageRest,
         \/ AppNoRefreshStarted
         \/ /\ appRefresh' \in AppRefreshes /\ appRefresh'.step = "read"
            /\ appInFlight' = TRUE /\ appRecent' = TRUE,
         appPage.request # "none" \/ appPage.timer,
         appPage' \in AppPages, appPage'.conf \in {0, appPage.conf, appConf.conf},
         appPage'.request = "answered" => appPage'.answer # 0 \/ appPage'.refreshing,
         ~appMixed =>
           /\ appPage'.request = "answered" => appPage'.answer \in {0, appConf.conf}
           /\ appPage'.request \in {"list", "cache", "answered"} \/ appPage'.timer => appConf.conf # 0
           /\ appPage'.request # "off"
           /\ appPage'.conf = appConf.conf /\ appConf.conf # 0 =>
                appPage'.shown = appConf.conf \/ appPage'.request # "none" \/ appPage'.timer
  PROVE  AppInv'
<1>1. AppTypes
  BY DEF AppInv
<1>2. /\ appConf' = appConf /\ appCache' = appCache /\ appAct' = appAct /\ appMixed' = appMixed
      /\ appMixed' \in BOOLEAN
  BY <1>1, AppTypesOf DEF AppPageRest
<1>3. ~appMixed' => \A a \in AppAdmins : appAct[a].op = "none"
  BY <1>2, AppAskingIsAlone
<1>4. appCount' \in [confs : AppNumbers, moves : Nat] /\ appCount'.confs = appCount.confs
  BY <1>1 DEF AppTypes
<1>5. \/ /\ appRefresh' = appRefresh /\ appInFlight' = appInFlight /\ appRecent' = appRecent
      \/ /\ appRefresh' \in AppRefreshes /\ appRefresh'.step = "read"
         /\ appInFlight' = TRUE /\ appRecent' = TRUE
  BY DEF AppNoRefreshStarted
<1> QED
  BY <1>2, <1>3, <1>4, <1>5, AppPageStep

LEMMA AppGetConfKeeps ==
  ASSUME AppInv, AppGetConf
  PROVE  AppInv'
<1>1. AppTypes
  BY DEF AppInv
<1>2. CASE appConf.conf = 0
  <2>1. appPage' = [appPage EXCEPT !.conf = 0, !.shown = 0, !.request = "none"]
    BY <1>2 DEF AppGetConf
  <2>2. /\ appPage' \in AppPages /\ appPage'.conf = 0 /\ appPage'.request = "none"
        /\ appPage'.timer = appPage.timer
    BY <1>1, <2>1, AppTypesOf DEF AppPages
  <2>3. ~appMixed /\ appPage.timer => appConf.conf # 0
    BY DEF AppInv, AppKnown
  <2> QED
    BY <1>2, <2>2, <2>3, AppPageOnlyStep DEF AppGetConf
<1>3. CASE appConf.conf # 0
  <2>1. appPage' = [appPage EXCEPT !.conf = appConf.conf, !.request = "list", !.timer = FALSE]
    BY <1>3 DEF AppGetConf
  <2>2. appPage' \in AppPages /\ appPage'.conf = appConf.conf /\ appPage'.request = "list"
    BY <1>1, <2>1, AppTypesOf DEF AppPages
  <2> QED
    BY <1>3, <2>2, AppPageOnlyStep DEF AppGetConf
<1> QED
  BY <1>2, <1>3

LEMMA AppTimerKeeps ==
  ASSUME AppInv, AppTimer
  PROVE  AppInv'
<1>1. AppTypes
  BY DEF AppInv
<1>2. /\ appPage' \in AppPages /\ appPage'.conf = appPage.conf /\ appPage'.request = "list"
      /\ appPage.timer
  BY <1>1, AppTypesOf DEF AppTimer, AppPages
<1>3. ~appMixed => appConf.conf # 0
  BY <1>2 DEF AppInv, AppKnown
<1> QED
  BY <1>2, <1>3, AppPageOnlyStep DEF AppTimer

LEMMA AppListConfKeeps ==
  ASSUME AppInv, AppListConf
  PROVE  AppInv'
<1>1. AppTypes
  BY DEF AppInv
<1>2. /\ appPage.request = "list"
      /\ appPage' = [appPage EXCEPT !.request = IF appConf.conf = 0 THEN "off" ELSE "cache"]
  BY DEF AppListConf
<1>3. /\ appPage' \in AppPages /\ appPage'.conf = appPage.conf
      /\ appPage'.request = IF appConf.conf = 0 THEN "off" ELSE "cache"
  BY <1>1, <1>2, AppTypesOf DEF AppPages
<1>4. ~appMixed => appConf.conf # 0
  BY <1>2 DEF AppInv, AppKnown
<1> QED
  BY <1>2, <1>3, <1>4, AppPageOnlyStep DEF AppListConf

LEMMA AppListCacheKeeps ==
  ASSUME AppInv, AppListCache
  PROVE  AppInv'
<1>1. AppTypes
  BY DEF AppInv
<1>2. /\ appPage.request = "cache"
      /\ appPage' = [appPage EXCEPT !.request = "answered", !.answer = appCache["repos"],
                                    !.refreshing = appInFlight']
  BY DEF AppListCache
<1> DEFINE force == appCache["repos"] = 0
<1>3. AppRefresh(force)
  BY DEF AppListCache
<1>4. force \in BOOLEAN /\ (~force => appCache["repos"] # 0)
  OBVIOUS
<1> HIDE DEF force
<1>5. /\ \/ AppNoRefreshStarted
         \/ /\ appRefresh' \in AppRefreshes /\ appRefresh'.step = "read"
            /\ appInFlight' = TRUE /\ appRecent' = TRUE
      /\ force => appInFlight' = TRUE
  BY <1>1, <1>3, <1>4, AppRefreshDoes DEF AppNoRefreshStarted
<1>6. appInFlight' \in BOOLEAN /\ appCache["repos"] \in AppNumbers
  BY <1>1, <1>5, AppTypesOf DEF AppNoRefreshStarted, AppCacheKeys
<1>7. /\ appPage' \in AppPages /\ appPage'.conf = appPage.conf /\ appPage'.request = "answered"
      /\ appPage'.answer = appCache["repos"] /\ appPage'.refreshing = appInFlight'
  BY <1>1, <1>2, <1>6, AppTypesOf DEF AppPages
<1>8. ~appMixed => appConf.conf # 0 /\ appCache["repos"] \in {0, appConf.conf}
  <2>1. SUFFICES ASSUME ~appMixed PROVE appConf.conf # 0 /\ appCache["repos"] \in {0, appConf.conf}
    OBVIOUS
  <2>2. \A a \in AppAdmins : appAct[a].step # "clear"
    BY <2>1, <1>2, AppAskingIsAlone
  <2> QED
    BY <2>1, <2>2, <1>2 DEF AppInv, AppKnown, AppCacheKeys
<1> QED
  BY <1>2, <1>4, <1>5, <1>7, <1>8, AppPageOnlyStep DEF AppListCache

LEMMA AppShowKeeps ==
  ASSUME AppInv, AppShow
  PROVE  AppInv'
<1>1. AppTypes
  BY DEF AppInv
<1>2. CASE appPage.request = "off"
  <2>1. appPage' = [appPage EXCEPT !.shown = 0, !.request = "none"]
    BY <1>2 DEF AppShow
  <2>2. appPage' \in AppPages /\ appPage'.conf = appPage.conf /\ appPage'.request = "none"
    BY <1>1, <2>1, AppTypesOf DEF AppPages
  <2>3. appMixed
    BY <1>2 DEF AppInv, AppKnown
  <2> QED
    BY <1>2, <2>2, <2>3, AppPageOnlyStep DEF AppShow
<1>3. CASE appPage.request = "answered"
  <2>1. appPage' = [appPage EXCEPT !.shown = appPage.answer, !.timer = appPage.refreshing,
                                   !.request = "none"]
    BY <1>3 DEF AppShow
  <2>2. /\ appPage' \in AppPages /\ appPage'.conf = appPage.conf /\ appPage'.request = "none"
        /\ appPage'.shown = appPage.answer /\ appPage'.timer = appPage.refreshing
    BY <1>1, <2>1, AppTypesOf DEF AppPages
  <2>3. appPage.answer # 0 \/ appPage.refreshing
    BY <1>1, <1>3 DEF AppTypes
  <2>4. ~appMixed => appConf.conf # 0 /\ appPage.answer \in {0, appConf.conf}
    BY <1>3 DEF AppInv, AppKnown
  <2> QED
    BY <1>3, <2>2, <2>3, <2>4, AppPageOnlyStep DEF AppShow
<1> QED
  BY <1>2, <1>3 DEF AppShow

-----------------------------------------------------------------------------
(* A mutation begins: alone, or the overlap is noted. *)
LEMMA AppStartKeeps ==
  ASSUME AppInv, NEW a \in AppAdmins, AppStart(a)
  PROVE  AppInv'
<1>1. AppTypes
  BY DEF AppInv
<1>2. PICK op \in {"set", "exchange", "clear"} :
        /\ a = "page" => op # "exchange"
        /\ appAct' = [appAct EXCEPT ![a] = [op |-> op, conf |-> 0,
                        step |-> IF op = "clear" THEN "delete" ELSE "upsert"]]
  BY DEF AppStart
<1> DEFINE new == [op |-> op, conf |-> 0, step |-> IF op = "clear" THEN "delete" ELSE "upsert"]
<1>3. /\ new \in AppRuns /\ new.op # "none" /\ new.step \in {"delete", "upsert"}
      /\ AppStepFits(new) /\ (a = "page" => new.op # "exchange")
  BY <1>1, <1>2, AppTypesOf DEF AppRuns, AppSteps, AppStepFits
<1>4. appAct' = [appAct EXCEPT ![a] = new]
  BY <1>2
<1> HIDE DEF new
<1>5. /\ appAct' \in [AppAdmins -> AppRuns] /\ appAct'[a] = new
      /\ \A b \in AppAdmins : b # a => appAct'[b] = appAct[b]
  BY <1>1, <1>3, <1>4, AppTypesOf
<1>6. /\ appConf' = appConf /\ appCache' = appCache /\ appRefresh' = appRefresh
      /\ appInFlight' = appInFlight /\ appRecent' = appRecent /\ appPage' = appPage
      /\ appMixed' = (appMixed \/ AppBusy)
      /\ appCount' \in [confs : AppNumbers, moves : Nat] /\ appCount'.confs = appCount.confs
  BY <1>1 DEF AppStart, AppActRest, AppMove, AppTypes
<1>7. appMixed' \in BOOLEAN /\ (~appMixed' => ~appMixed /\ ~AppBusy)
  BY <1>1, <1>6, AppTypesOf DEF AppBusy
<1>8. AppTypes'
  <2>1. /\ appRefresh.step \in {"fetch", "store", "failed"} => appRefresh.conf # 0
        /\ appConf.conf <= appCount.confs /\ appPage.conf <= appCount.confs
        /\ appPage.request = "answered" => appPage.answer # 0 \/ appPage.refreshing
    BY <1>1 DEF AppTypes, AppTypeOK
  <2>2. AppOpsFit'
    <3>1. "page" \in AppAdmins /\ new.step # "idle"
      BY <1>3 DEF AppAdmins
    <3>2. \A b \in AppAdmins : appAct'[b].op = "none" <=> appAct'[b].step = "idle"
      BY <3>1, <1>1, <1>3, <1>5 DEF AppTypes, AppOpsFit
    <3>3. appAct'["page"].op # "exchange"
      BY <3>1, <1>1, <1>3, <1>5 DEF AppTypes, AppOpsFit
    <3> QED
      BY <3>2, <3>3 DEF AppOpsFit
  <2> QED
    BY <1>1, <1>5, <1>6, <1>7, <2>1, <2>2, AppTypesOf, AppTypesNext
<1>9. ~appMixed' => AppAlone' /\ AppKnown'
  <2>1. SUFFICES ASSUME ~appMixed, ~AppBusy PROVE AppAlone' /\ AppKnown'
    BY <1>7
  <2>2. /\ AppAlone /\ AppKnown /\ ~appInFlight /\ appPage.request = "none" /\ ~appPage.timer
        /\ \A b \in AppAdmins : appAct[b].op = "none"
    BY <2>1 DEF AppInv, AppBusy
  <2>3. AppAlone'
    BY <1>3, <1>5, <1>6, <2>2 DEF AppAlone
  <2>4. AppKnown'
    <3>1. \A b \in AppAdmins : appAct[b].step = "idle"
      BY <2>2 DEF AppAlone, AppStepFits
    <3> QED
      BY <3>1, <1>6, <2>2 DEF AppKnown
  <2> QED
    BY <2>3, <2>4
<1> QED
  BY <1>8, <1>9 DEF AppInv

(* A step of a mutation before the refresh.  A configuration that changes is
   a new one or none. *)
LEMMA AppMutStep ==
  ASSUME AppInv, NEW a \in AppAdmins, NEW new \in AppRuns,
         appAct[a].step \notin {"idle", "return"}, appAct' = [appAct EXCEPT ![a] = new],
         new.op = appAct[a].op, new.step # "idle",
         appRefresh' = appRefresh, appInFlight' = appInFlight, appRecent' = appRecent,
         appPage' = appPage,
         appConf' \in [conf : AppNumbers, slug : AppNumbers],
         appCache' \in [AppCacheKeys -> AppNumbers],
         appCount' \in [confs : AppNumbers, moves : Nat],
         appConf'.conf <= appCount'.confs, appCount.confs <= appCount'.confs,
         appMixed' \in BOOLEAN, appMixed => appMixed',
         appConf'.conf \in {appConf.conf, 0} \/ appConf'.conf > appPage.conf,
         ~appMixed' =>
           /\ AppStepFits(new)
           /\ new.op = "set" /\ new.step \in {"clear", "slug", "storeSlug"} => new.conf = appConf'.conf
           /\ appConf'.slug \in {0, appConf'.conf}
           /\ new.step # "clear" => \A k \in AppCacheKeys : appCache'[k] \in {0, appConf'.conf}
  PROVE  AppInv'
<1>1. AppTypes
  BY DEF AppInv
<1>2. /\ appAct' \in [AppAdmins -> AppRuns] /\ appAct'[a] = new
      /\ \A b \in AppAdmins : b # a => appAct'[b] = appAct[b]
  BY <1>1, AppTypesOf
<1>3. AppTypes'
  <2>1. /\ appRefresh.step \in {"fetch", "store", "failed"} => appRefresh.conf # 0
        /\ appPage.conf <= appCount.confs
        /\ appPage.request = "answered" => appPage.answer # 0 \/ appPage.refreshing
    BY <1>1 DEF AppTypes, AppTypeOK
  <2>2. appPage.conf \in Nat /\ appCount.confs \in Nat /\ appCount'.confs \in Nat
    BY <1>1, AppTypesOf, AppAssumption DEF AppPages, AppNumbers
  <2>3. appPage'.conf <= appCount'.confs
    BY <2>1, <2>2
  <2>4. AppOpsFit'
    BY <1>1, <1>2 DEF AppTypes, AppOpsFit
  <2> QED
    BY <1>1, <1>2, <2>1, <2>3, <2>4, AppTypesOf, AppTypesNext
<1>4. SUFFICES ASSUME ~appMixed' PROVE AppAlone' /\ AppKnown'
  BY <1>3 DEF AppInv
<1>5. AppAlone /\ AppKnown
  BY <1>4 DEF AppInv
<1>6. /\ appAct[a].op # "none" /\ ~appInFlight /\ appPage.request = "none" /\ ~appPage.timer
      /\ \A b \in AppAdmins : b # a => appAct[b].op = "none" /\ appAct[b].step = "idle"
  BY <1>5 DEF AppAlone, AppStepFits
<1>7. AppAlone'
  BY <1>2, <1>4, <1>5, <1>6 DEF AppAlone
<1>8. AppKnown'
  <2>1. appRefresh.step = "none"
    BY <1>1, <1>6, AppTypesOf
  <2>2. appPage'.conf = appConf'.conf /\ appConf'.conf # 0 => appConf'.conf = appConf.conf
    <3>1. appPage.conf \in Nat /\ appConf'.conf \in Nat
      BY <1>1, AppTypesOf, AppAssumption DEF AppPages, AppNumbers
    <3> QED
      BY <3>1
  <2>3. appPage.conf = appConf.conf /\ appConf.conf # 0 => appPage.shown = appConf.conf
    BY <1>5, <1>6 DEF AppKnown
  <2> QED
    BY <1>2, <1>4, <1>6, <2>1, <2>2, <2>3 DEF AppKnown
<1> QED
  BY <1>7, <1>8

LEMMA AppTwoFields ==
  ASSUME NEW act \in AppRuns, NEW step, NEW conf
  PROVE  [[act EXCEPT !.step = step] EXCEPT !.conf = conf] = [op |-> act.op, conf |-> conf, step |-> step]
<1>1. PICK op, old, at : act = [op |-> op, conf |-> old, step |-> at]
  BY DEF AppRuns
<1> DEFINE mid == [act EXCEPT !.step = step]
<1>2. mid = [op |-> op, conf |-> old, step |-> step]
  BY <1>1
<1> HIDE DEF mid
<1>3. [mid EXCEPT !.conf = conf] = [op |-> op, conf |-> conf, step |-> step]
  BY <1>2
<1>4. act.op = op
  BY <1>1
<1>5. [mid EXCEPT !.conf = conf] = [op |-> act.op, conf |-> conf, step |-> step]
  BY <1>3, <1>4
<1> QED
  BY <1>5 DEF mid

LEMMA AppUpsertKeeps ==
  ASSUME AppInv, NEW a \in AppAdmins, AppUpsert(a)
  PROVE  AppInv'
<1>1. AppTypes
  BY DEF AppInv
<1> DEFINE n == appCount.confs + 1
           act == appAct[a]
           new == [op |-> act.op, conf |-> n,
                   step |-> IF act.op = "exchange" THEN "return" ELSE "clear"]
<1>2. act \in AppRuns /\ act.step = "upsert"
  BY <1>1, AppTypesOf DEF AppUpsert, AppActs
<1>3. /\ n \in AppNumbers /\ n \in Nat /\ n > appCount.confs /\ n > appPage.conf
      /\ appCount.confs \in Nat
  <2>1. /\ appCount.confs \in 0 .. AppConfs /\ appPage.conf \in 0 .. AppConfs
        /\ appPage.conf <= appCount.confs
    BY <1>1, AppTypesOf DEF AppTypes, AppPages, AppNumbers
  <2>2. n <= AppConfs
    BY DEF AppUpsert
  <2> QED
    BY <2>1, <2>2, AppAssumption DEF AppNumbers
<1>4. /\ appCount' = [appCount EXCEPT !.confs = n]
      /\ appConf' = [conf |-> n, slug |-> IF act.op = "exchange" THEN n ELSE 0]
      /\ appAct' = [appAct EXCEPT ![a].step = IF act.op = "exchange" THEN "return" ELSE "clear",
                                  ![a].conf = n]
      /\ appMixed' = (appMixed \/ act.op = "exchange")
      /\ appCache' = appCache /\ AppActRest
  BY DEF AppUpsert
<1>5. new \in AppRuns /\ new.op = act.op /\ new.step \in {"return", "clear"} /\ new.conf = n
  BY <1>2, <1>3 DEF AppRuns, AppSteps
<1>6. appAct' = [appAct EXCEPT ![a] = new]
  <2>1. [[act EXCEPT !.step = IF act.op = "exchange" THEN "return" ELSE "clear"] EXCEPT !.conf = n] = new
    BY <1>2, AppTwoFields
  <2>2. appAct \in [AppAdmins -> AppRuns]
    BY <1>1, AppTypesOf
  <2> HIDE DEF new, n
  <2> QED
    BY <1>4, <2>1, <2>2
<1>7. /\ appConf' \in [conf : AppNumbers, slug : AppNumbers] /\ appConf'.conf = n
      /\ appConf'.slug \in {0, n}
  BY <1>1, <1>3, <1>4, AppTypesOf
<1>8. appCount' \in [confs : AppNumbers, moves : Nat] /\ appCount'.confs = n
  BY <1>1, <1>3, <1>4 DEF AppTypes
<1>9. appMixed' \in BOOLEAN /\ (appMixed => appMixed') /\ (~appMixed' => ~appMixed /\ act.op # "exchange")
  BY <1>1, <1>4, AppTypesOf
<1>10. ~appMixed' => new.step = "clear" /\ AppStepFits(new)
  <2>1. SUFFICES ASSUME ~appMixed' PROVE new.step = "clear" /\ AppStepFits(new)
    OBVIOUS
  <2>2. act.op = "set"
    BY <1>2, <1>9, <2>1 DEF AppInv, AppAlone, AppStepFits
  <2> QED
    BY <2>2 DEF AppStepFits
<1>11. appCache' \in [AppCacheKeys -> AppNumbers]
  BY <1>1, <1>4, AppTypesOf
<1>12. appConf'.conf <= appCount'.confs /\ appCount.confs <= appCount'.confs /\ appConf'.conf > appPage.conf
  BY <1>3, <1>7, <1>8
<1> HIDE DEF new, n
<1> QED
  BY <1>2, <1>4, <1>5, <1>6, <1>7, <1>8, <1>9, <1>10, <1>11, <1>12, AppMutStep DEF AppActRest

(* A step of a mutation that leaves the configuration's number and the count. *)
LEMMA AppMutGoes ==
  ASSUME AppInv, NEW a \in AppAdmins, NEW step \in AppSteps \ {"idle"}, AppGoes(a, step),
         appAct[a].step \notin {"idle", "return"}, AppActRest, appCount' = appCount, appMixed' = appMixed,
         appConf' \in [conf : AppNumbers, slug : AppNumbers], appConf'.conf \in {appConf.conf, 0},
         appCache' \in [AppCacheKeys -> AppNumbers],
         ~appMixed =>
           /\ appAct[a].op # "none" => AppStepFits([appAct[a] EXCEPT !.step = step])
           /\ appAct[a].op = "set" /\ step \in {"clear", "slug", "storeSlug"} =>
                appAct[a].conf = appConf'.conf
           /\ appConf'.slug \in {0, appConf'.conf}
           /\ step # "clear" => \A k \in AppCacheKeys : appCache'[k] \in {0, appConf'.conf}
  PROVE  AppInv'
<1>1. AppTypes
  BY DEF AppInv
<1> DEFINE new == [appAct[a] EXCEPT !.step = step]
<1>2. /\ new \in AppRuns /\ new.op = appAct[a].op /\ new.step = step /\ new.conf = appAct[a].conf
  BY <1>1, AppTypesOf DEF AppRuns
<1>3. appAct' = [appAct EXCEPT ![a] = new]
  BY <1>1, AppTypesOf DEF AppGoes
<1>4. ~appMixed => appAct[a].op # "none"
  BY DEF AppInv, AppAlone, AppStepFits
<1>5. /\ appCount' \in [confs : AppNumbers, moves : Nat] /\ appCount'.confs = appCount.confs
      /\ appMixed' \in BOOLEAN
  BY <1>1, AppTypesOf DEF AppTypes
<1>6. appConf'.conf <= appCount'.confs /\ appCount.confs <= appCount'.confs
  <2>1. appConf.conf \in Nat /\ appCount.confs \in Nat /\ appConf.conf <= appCount.confs
    BY <1>1, AppTypesOf, AppAssumption DEF AppTypes, AppNumbers
  <2> QED
    BY <2>1, <1>5
<1> HIDE DEF new
<1>7. ~appMixed' => AppStepFits(new)
  BY <1>4 DEF new
<1> QED
  BY <1>2, <1>3, <1>5, <1>6, <1>7, AppMutStep DEF AppActRest

LEMMA AppDeleteConfKeeps ==
  ASSUME AppInv, NEW a \in AppAdmins, AppDeleteConf(a)
  PROVE  AppInv'
<1>1. AppTypes /\ appAct[a] \in AppRuns
  BY AppTypesOf DEF AppInv
<1>2. /\ appAct[a].step = "delete" /\ AppGoes(a, "clear")
      /\ appConf' = [conf |-> 0, slug |-> 0] /\ AppActRest
      /\ appCache' = appCache /\ appCount' = appCount /\ appMixed' = appMixed
  BY DEF AppDeleteConf, AppActs
<1>3. appConf' \in [conf : AppNumbers, slug : AppNumbers] /\ appConf'.conf = 0 /\ appConf'.slug = 0
  BY <1>1, <1>2, AppTypesOf
<1>4. ~appMixed => AppStepFits([appAct[a] EXCEPT !.step = "clear"]) /\ appAct[a].op = "clear"
  BY <1>1, <1>2 DEF AppInv, AppAlone, AppStepFits, AppRuns
<1>5. "clear" \in AppSteps \ {"idle"} /\ appCache' \in [AppCacheKeys -> AppNumbers]
  BY <1>1, <1>2, AppTypesOf DEF AppSteps
<1> QED
  BY <1>2, <1>3, <1>4, <1>5, AppMutGoes

LEMMA AppClearCacheKeeps ==
  ASSUME AppInv, NEW a \in AppAdmins, AppClearCache(a)
  PROVE  AppInv'
<1> DEFINE step == IF appAct[a].op = "set" THEN "slug" ELSE "return"
<1>1. AppTypes /\ appAct[a] \in AppRuns
  BY AppTypesOf DEF AppInv
<1>2. /\ appAct[a].step = "clear" /\ AppGoes(a, step)
      /\ appCache' = AppNoCache /\ appConf' = appConf /\ AppActRest
      /\ appCount' = appCount /\ appMixed' = appMixed
  BY DEF AppClearCache, AppActs
<1>3. /\ appCache' \in [AppCacheKeys -> AppNumbers] /\ \A k \in AppCacheKeys : appCache'[k] = 0
      /\ appConf' \in [conf : AppNumbers, slug : AppNumbers]
  BY <1>1, <1>2, AppTypesOf DEF AppNoCache
<1>4. step \in AppSteps \ {"idle"} /\ step \in {"slug", "return"}
  BY DEF AppSteps
<1>5. ~appMixed => /\ appAct[a].op # "none" => AppStepFits([appAct[a] EXCEPT !.step = step])
                   /\ appConf'.slug \in {0, appConf'.conf}
  BY <1>1, <1>2, <1>4 DEF AppInv, AppAlone, AppKnown, AppStepFits, AppRuns
<1>6. ~appMixed /\ appAct[a].op = "set" => appAct[a].conf = appConf'.conf
  BY <1>2 DEF AppInv, AppAlone
<1> QED
  BY <1>2, <1>3, <1>4, <1>5, <1>6, AppMutGoes

LEMMA AppAskSlugKeeps ==
  ASSUME AppInv, NEW a \in AppAdmins, AppAskSlug(a)
  PROVE  AppInv'
<1>1. AppTypes /\ appAct[a] \in AppRuns
  BY AppTypesOf DEF AppInv
<1>2. PICK step \in {"storeSlug", "refresh"} : AppGoes(a, step)
  BY DEF AppAskSlug
<1>3. /\ appAct[a].step = "slug" /\ appConf' = appConf /\ appCache' = appCache /\ AppActRest
      /\ appCount' = appCount /\ appMixed' = appMixed
  BY DEF AppAskSlug, AppActs
<1>4. /\ appCache' \in [AppCacheKeys -> AppNumbers]
      /\ appConf' \in [conf : AppNumbers, slug : AppNumbers]
  BY <1>1, <1>3, AppTypesOf
<1>5. step \in AppSteps \ {"idle"}
  BY DEF AppSteps
<1>6. ~appMixed => /\ AppStepFits([appAct[a] EXCEPT !.step = step])
                   /\ appAct[a].conf = appConf.conf /\ appConf.slug \in {0, appConf.conf}
                   /\ \A k \in AppCacheKeys : appCache[k] \in {0, appConf.conf}
  <2>1. SUFFICES ASSUME ~appMixed
                 PROVE  /\ AppStepFits([appAct[a] EXCEPT !.step = step])
                        /\ appAct[a].conf = appConf.conf /\ appConf.slug \in {0, appConf.conf}
                        /\ \A k \in AppCacheKeys : appCache[k] \in {0, appConf.conf}
    OBVIOUS
  <2>2. AppAlone /\ AppKnown
    BY <2>1 DEF AppInv
  <2>3. appAct[a].op = "set"
    BY <2>2, <1>3 DEF AppAlone, AppStepFits
  <2>4. \A b \in AppAdmins : appAct[b].step # "clear"
    BY <2>2, <2>3, <1>3 DEF AppAlone, AppStepFits
  <2>5. AppStepFits([appAct[a] EXCEPT !.step = step])
    BY <2>3, <1>1 DEF AppStepFits, AppRuns
  <2> QED
    BY <2>2, <2>3, <2>4, <2>5, <1>3 DEF AppAlone, AppKnown
<1> QED
  BY <1>2, <1>3, <1>4, <1>5, <1>6, AppMutGoes

LEMMA AppStoreSlugKeeps ==
  ASSUME AppInv, NEW a \in AppAdmins, AppStoreSlug(a)
  PROVE  AppInv'
<1>1. AppTypes /\ appAct[a] \in AppRuns
  BY AppTypesOf DEF AppInv
<1>2. /\ appAct[a].step = "storeSlug" /\ appConf' = [appConf EXCEPT !.slug = appAct[a].conf]
      /\ AppGoes(a, "refresh") /\ appCache' = appCache /\ AppActRest
      /\ appCount' = appCount /\ appMixed' = appMixed
  BY DEF AppStoreSlug, AppActs
<1>3. /\ appCache' \in [AppCacheKeys -> AppNumbers]
      /\ appConf' \in [conf : AppNumbers, slug : AppNumbers]
      /\ appConf'.conf = appConf.conf /\ appConf'.slug = appAct[a].conf
  BY <1>1, <1>2, AppTypesOf DEF AppRuns
<1>4. "refresh" \in AppSteps \ {"idle"}
  BY DEF AppSteps
<1>5. ~appMixed => /\ AppStepFits([appAct[a] EXCEPT !.step = "refresh"])
                   /\ appAct[a].conf = appConf.conf
                   /\ \A k \in AppCacheKeys : appCache[k] \in {0, appConf.conf}
  <2>1. SUFFICES ASSUME ~appMixed
                 PROVE  /\ AppStepFits([appAct[a] EXCEPT !.step = "refresh"])
                        /\ appAct[a].conf = appConf.conf
                        /\ \A k \in AppCacheKeys : appCache[k] \in {0, appConf.conf}
    OBVIOUS
  <2>2. AppAlone /\ AppKnown
    BY <2>1 DEF AppInv
  <2>3. appAct[a].op = "set"
    BY <2>2, <1>2 DEF AppAlone, AppStepFits
  <2>4. \A b \in AppAdmins : appAct[b].step # "clear"
    BY <2>2, <2>3, <1>2 DEF AppAlone, AppStepFits
  <2>5. AppStepFits([appAct[a] EXCEPT !.step = "refresh"])
    BY <2>3, <1>1 DEF AppStepFits, AppRuns
  <2> QED
    BY <2>2, <2>3, <2>4, <2>5, <1>2 DEF AppAlone, AppKnown
<1> QED
  BY <1>2, <1>3, <1>4, <1>5, AppMutGoes

(* The last step of setAppConfig starts a refresh, which from then on runs
   beside the answer on its way to the page. *)
LEMMA AppRefreshForcedKeeps ==
  ASSUME AppInv, NEW a \in AppAdmins, AppRefreshForced(a)
  PROVE  AppInv'
<1>1. AppTypes /\ appAct[a] \in AppRuns
  BY AppTypesOf DEF AppInv
<1> DEFINE new == [appAct[a] EXCEPT !.step = "return"]
<1>2. /\ appAct[a].step = "refresh" /\ appConf' = appConf /\ appCache' = appCache
      /\ appPage' = appPage /\ appCount' = appCount /\ appMixed' = appMixed
      /\ appAct' = [appAct EXCEPT ![a] = new]
  BY <1>1, AppTypesOf DEF AppRefreshForced, AppActs, AppGoes
<1>3. /\ new \in AppRuns /\ new.op = appAct[a].op /\ new.step = "return"
  BY <1>1 DEF AppRuns, AppSteps
<1> HIDE DEF new
<1>4. /\ appAct' \in [AppAdmins -> AppRuns] /\ appAct'[a] = new
      /\ \A b \in AppAdmins : b # a => appAct'[b] = appAct[b]
  BY <1>1, <1>2, <1>3, AppTypesOf
<1>5. \/ /\ appRefresh' = appRefresh /\ appInFlight' = appInFlight
         /\ appRecent' = appRecent
      \/ /\ appRefresh' \in AppRefreshes /\ appRefresh'.step = "read"
         /\ appInFlight' = TRUE /\ appRecent' = TRUE
  BY <1>1, AppRefreshDoes DEF AppRefreshForced
<1>6. /\ appRefresh' \in AppRefreshes /\ appInFlight' \in BOOLEAN /\ appRecent' \in BOOLEAN
      /\ appInFlight' <=> appRefresh'.step # "none"
      /\ appRefresh'.step \in {"fetch", "store", "failed"} => appRefresh'.conf # 0
  <2>1. CASE appRefresh' = appRefresh /\ appInFlight' = appInFlight /\ appRecent' = appRecent
    BY <1>1, <2>1, AppTypesOf DEF AppTypes, AppTypeOK
  <2>2. CASE /\ appRefresh' \in AppRefreshes /\ appRefresh'.step = "read"
             /\ appInFlight' = TRUE /\ appRecent' = TRUE
    BY <2>2
  <2> QED
    BY <1>5, <2>1, <2>2
<1>7. AppTypes'
  <2>1. /\ appConf.conf <= appCount.confs /\ appPage.conf <= appCount.confs
        /\ appPage.request = "answered" => appPage.answer # 0 \/ appPage.refreshing
        /\ appCount \in [confs : AppNumbers, moves : Nat]
    BY <1>1 DEF AppTypes
  <2>2. AppOpsFit'
    BY <1>1, <1>2, <1>3, <1>4 DEF AppTypes, AppOpsFit
  <2> QED
    BY <1>1, <1>2, <1>4, <1>6, <2>1, <2>2, AppTypesOf, AppTypesNext
<1>8. SUFFICES ASSUME ~appMixed PROVE AppAlone' /\ AppKnown'
  BY <1>2, <1>7 DEF AppInv
<1>9. AppAlone /\ AppKnown
  BY <1>8 DEF AppInv
<1>10. /\ appAct[a].op = "set"
       /\ \A b \in AppAdmins : b # a => appAct[b].op = "none" /\ appAct[b].step = "idle"
  BY <1>2, <1>9 DEF AppAlone, AppStepFits
<1>11. AppAlone'
  BY <1>2, <1>3, <1>4, <1>9, <1>10 DEF AppAlone, AppStepFits
<1>12. AppKnown'
  <2>1. appRefresh'.step \notin {"none", "read"} => appRefresh'.conf = appConf.conf
    BY <1>5, <1>9 DEF AppKnown
  <2>2. \A b \in AppAdmins : appAct[b].step # "clear"
    BY <1>2, <1>10
  <2> QED
    BY <1>2, <1>9, <2>1, <2>2 DEF AppKnown
<1> QED
  BY <1>11, <1>12

(* The answer reaches whoever asked. *)
LEMMA AppReturnedKeeps ==
  ASSUME AppInv, NEW a \in AppAdmins, AppReturned(a)
  PROVE  AppInv'
<1>1. AppTypes /\ appAct[a] \in AppRuns
  BY AppTypesOf DEF AppInv
<1> DEFINE new == [op |-> "none", step |-> "idle", conf |-> 0]
<1>2. /\ appAct[a].step = "return" /\ appConf' = appConf /\ appCache' = appCache
      /\ appRefresh' = appRefresh /\ appInFlight' = appInFlight /\ appRecent' = appRecent
      /\ appCount' = appCount /\ appMixed' = appMixed
      /\ appAct' = [appAct EXCEPT ![a] = new]
  BY DEF AppReturned, AppActs, AppReturns, AppNoAct
<1>3. /\ new \in AppRuns /\ new.op = "none" /\ new.step = "idle"
  BY <1>1, AppTypesOf DEF AppRuns, AppSteps
<1> HIDE DEF new
<1>4. /\ appAct' \in [AppAdmins -> AppRuns] /\ appAct'[a] = new
      /\ \A b \in AppAdmins : b # a => appAct'[b] = appAct[b]
  BY <1>1, <1>2, <1>3, AppTypesOf
<1>5. /\ appPage' \in AppPages /\ appPage'.conf \in {0, appPage.conf}
      /\ appPage'.request \in {appPage.request, "conf"} /\ appPage'.timer = appPage.timer
      /\ appPage'.answer = appPage.answer /\ appPage'.refreshing = appPage.refreshing
      /\ appPage'.request # "none" \/ appPage'.conf = 0 \/ appPage' = appPage
  <2>1. /\ appPage \in AppPages /\ 0 \in AppNumbers
    BY <1>1, AppTypesOf
  <2>2. CASE a = "other"
    BY <2>1, <2>2 DEF AppReturned, AppPages
  <2>3. CASE a = "page"
    <3>1. CASE appAct[a].op = "set"
      <4>1. appPage' = [appPage EXCEPT !.request = "conf"]
        BY <2>3, <3>1 DEF AppReturned
      <4> QED
        BY <4>1, <2>1 DEF AppPages
    <3>2. CASE appAct[a].op = "clear"
      <4>1. appPage' = [appPage EXCEPT !.conf = 0, !.shown = 0]
        BY <2>3, <3>2 DEF AppReturned
      <4> QED
        BY <4>1, <2>1 DEF AppPages
    <3>3. appAct[a].op \in {"set", "clear"}
      BY <1>1, <1>2, <2>3 DEF AppTypes, AppOpsFit, AppRuns
    <3> QED
      BY <3>1, <3>2, <3>3
  <2> QED
    BY <2>2, <2>3 DEF AppAdmins
<1>6. AppTypes'
  <2>1. /\ appConf.conf <= appCount.confs /\ appPage.conf <= appCount.confs
        /\ appPage.request = "answered" => appPage.answer # 0 \/ appPage.refreshing
        /\ appCount \in [confs : AppNumbers, moves : Nat]
        /\ appRefresh.step \in {"fetch", "store", "failed"} => appRefresh.conf # 0
    BY <1>1 DEF AppTypes, AppTypeOK
  <2>2. appPage'.conf <= appCount.confs
    <3>1. appCount.confs \in Nat
      BY <1>1, AppTypesOf, AppAssumption DEF AppNumbers
    <3> QED
      BY <3>1, <2>1, <1>5
  <2>3. AppOpsFit'
    <3>1. "page" \in AppAdmins
      BY DEF AppAdmins
    <3> QED
      BY <3>1, <1>1, <1>3, <1>4 DEF AppTypes, AppOpsFit
  <2> QED
    BY <1>1, <1>2, <1>4, <1>5, <2>1, <2>2, <2>3, AppTypesOf, AppTypesNext
<1>7. SUFFICES ASSUME ~appMixed PROVE AppAlone' /\ AppKnown'
  BY <1>2, <1>6 DEF AppInv
<1>8. AppAlone /\ AppKnown
  BY <1>7 DEF AppInv
<1>9. \A b \in AppAdmins : appAct'[b].op = "none" /\ appAct'[b].step = "idle"
  BY <1>2, <1>3, <1>4, <1>8 DEF AppAlone, AppStepFits
<1>10. AppAlone'
  BY <1>9 DEF AppAlone, AppStepFits
<1>11. AppKnown'
  <2>1. appPage.request = "none" /\ ~appPage.timer
    BY <1>2, <1>8 DEF AppAlone, AppStepFits
  <2>2. \A b \in AppAdmins : appAct[b].step # "clear"
    BY <1>2, <1>8 DEF AppAlone, AppStepFits
  <2> QED
    BY <1>2, <1>5, <1>8, <2>1, <2>2 DEF AppKnown
<1> QED
  BY <1>10, <1>11

-----------------------------------------------------------------------------
LEMMA AppInvStays ==
  ASSUME AppInv, UNCHANGED AppVars
  PROVE  AppInv'
<1>1. AppTypes' <=> AppTypes
  BY DEF AppVars, AppTypes, AppTypeOK, AppOpsFit, InFlightIsRefreshing
<1>2. (AppAlone' <=> AppAlone) /\ (AppKnown' <=> AppKnown)
  BY DEF AppVars, AppAlone, AppKnown
<1> QED
  BY <1>1, <1>2 DEF AppVars, AppInv

LEMMA AppInvNext ==
  ASSUME AppInv, [AppNext]_AppVars
  PROVE  AppInv'
<1>1. CASE \/ AppReadConf \/ AppDropCache \/ AppFetched \/ AppStore \/ AppStoreError
           \/ AppThrottleEnds
  BY <1>1, AppReadConfKeeps, AppDropCacheKeeps, AppFetchedKeeps, AppStoreKeeps, AppStoreErrorKeeps,
     AppThrottleEndsKeeps
<1>2. CASE \E a \in AppAdmins :
             \/ AppStart(a) \/ AppUpsert(a) \/ AppDeleteConf(a) \/ AppClearCache(a)
             \/ AppAskSlug(a) \/ AppStoreSlug(a) \/ AppRefreshForced(a) \/ AppReturned(a)
  BY <1>2, AppStartKeeps, AppUpsertKeeps, AppDeleteConfKeeps, AppClearCacheKeeps, AppAskSlugKeeps,
     AppStoreSlugKeeps, AppRefreshForcedKeeps, AppReturnedKeeps
<1>3. CASE AppOpen \/ AppGetConf \/ AppTimer \/ AppListConf \/ AppListCache \/ AppShow
  BY <1>3, AppOpenKeeps, AppGetConfKeeps, AppTimerKeeps, AppListConfKeeps, AppListCacheKeeps,
     AppShowKeeps
<1>4. CASE UNCHANGED AppVars
  BY <1>4, AppInvStays
<1> QED
  BY <1>1, <1>2, <1>3, <1>4 DEF AppNext

LEMMA AppInvIsSound ==
  ASSUME AppInv
  PROVE  CacheIsSound
<1>1. AppTypeOK /\ InFlightIsRefreshing
  BY DEF AppInv, AppTypes
<1>2. CacheIsOfApp
  <2>1. SUFFICES ASSUME ~appMixed, \A a \in AppAdmins : appAct[a].op = "none"
                 PROVE  /\ \A k \in AppCacheKeys : appCache[k] \in {0, appConf.conf}
                        /\ appConf.slug \in {0, appConf.conf}
    BY DEF CacheIsOfApp
  <2>2. \A a \in AppAdmins : appAct[a].step = "idle"
    BY <2>1 DEF AppInv, AppAlone, AppStepFits
  <2> QED
    BY <2>1, <2>2 DEF AppInv, AppKnown
<1>3. PageGetsRepos
  <2>1. SUFFICES ASSUME ~appMixed, ~AppBusy, appPage.conf = appConf.conf, appConf.conf # 0,
                        appCache["repos"] # 0
                 PROVE  appPage.shown = appCache["repos"]
    BY DEF PageGetsRepos
  <2>2. appCache["repos"] \in {0, appConf.conf}
    BY <2>1, <1>2 DEF CacheIsOfApp, AppBusy, AppCacheKeys
  <2>3. appPage.shown = appConf.conf
    BY <2>1 DEF AppInv, AppKnown, AppBusy
  <2> QED
    BY <2>1, <2>2, <2>3
<1> QED
  BY <1>1, <1>2, <1>3 DEF CacheIsSound

(* CacheIsSound (github.ts, Integrations.vue:321-444). *)
THEOREM CacheIsSoundHolds == AppSpec => []CacheIsSound
<1>1. AppInit => AppInv
  BY AppInvInit
<1>2. AppInv /\ [AppNext]_AppVars => AppInv'
  BY AppInvNext
<1>3. AppInv => CacheIsSound
  BY AppInvIsSound
<1> QED
  BY <1>1, <1>2, <1>3, PTL DEF AppSpec

-----------------------------------------------------------------------------
(***************************************************************************)
(* Webhooks                                                                *)
(***************************************************************************)

(***************************************************************************)
(* One delivery and its handler.                                           *)
(***************************************************************************)
HookMails ==
    [step : {"unsent", "sent", "services", "create", "created", "ok", "refused", "error"},
     kind : {"app", "hook"}, branch : HookBranches \union {"none"}, key : Nat,
     todo : SUBSET HookServices, wanted : SUBSET HookServices, tries : Nat]

HookCounts == [HookServices -> [HookDeliveries -> Nat]]

HookTypes ==
    /\ hookSvc \in [HookServices -> [here : BOOLEAN, active : BOOLEAN, branch : HookBranches]]
    /\ hookSecret \in Nat
    /\ hookMail \in [HookDeliveries -> HookMails]
    /\ hookRow \in HookCounts
    /\ hookJob \in HookCounts

(***************************************************************************)
(* The loop visits services that are wanted, has one to visit while it     *)
(* runs, and has enqueued a job of each wanted service behind it.          *)
(***************************************************************************)
HookLoopsForward(d) ==
    /\ hookMail[d].todo \subseteq hookMail[d].wanted
    /\ HookAt(d, "create") \/ HookAt(d, "created") => hookMail[d].todo # {}
    /\ HookAt(d, "ok") => hookMail[d].todo = {}
    /\ HookAt(d, "create") \/ HookAt(d, "created") \/ HookAt(d, "ok") =>
           \A s \in hookMail[d].wanted \ hookMail[d].todo : hookJob[s][d] > 0

(***************************************************************************)
(* A service the loop has still to create a deployment for got one by      *)
(* earlier sendings of the delivery only.                                  *)
(***************************************************************************)
HookToCreate(d, s) ==
    \/ HookAt(d, "sent") \/ HookAt(d, "services")
    \/ HookAt(d, "create") /\ s \in hookMail[d].todo
    \/ HookAt(d, "created") /\ s \in hookMail[d].todo \ {HookNextOf(d)}

HookRowsBounded(d) ==
    /\ HookAt(d, "unsent") => hookMail[d].tries = 0
    /\ \A s \in HookServices :
           /\ hookRow[s][d] <= hookMail[d].tries
           /\ HookToCreate(d, s) => hookRow[s][d] < hookMail[d].tries

(***************************************************************************)
(* HookRowHasJob for one delivery.                                         *)
(***************************************************************************)
HookRowsHaveJobs(d) ==
    \A s \in HookServices :
        hookRow[s][d] = hookJob[s][d] + (IF HookAt(d, "created") /\ HookNextOf(d) = s THEN 1 ELSE 0)

HookDeliveryInv(d) == HookLoopsForward(d) /\ HookRowsBounded(d) /\ HookRowsHaveJobs(d)

HookInv == HookTypes /\ \A d \in HookDeliveries : HookDeliveryInv(d)

-----------------------------------------------------------------------------
(* A set of numbers that is finite and not empty has a least one: no set of
   the numbers up to one of them is minimal but that of the least. *)
LEMMA HookHasLeast ==
    ASSUME NEW T, T \subseteq Nat, IsFiniteSet(T), T # {}
    PROVE  \E x \in T : \A y \in T : x <= y
<1> DEFINE UpTo(x) == {z \in T : z <= x}
           Segments == {UpTo(x) : x \in T}
           R == StrictSubsetOrdering(T)
<1>1. IsWellFoundedOn(R, SUBSET T)
  BY FS_StrictSubsetOrderingWellFounded, FS_FiniteSubsetsOfFinite
<1>2. Segments \subseteq SUBSET T /\ Segments # {}
  OBVIOUS
<1>3. PICK A \in Segments : \A B \in Segments : ~ (<<B, A>> \in R)
  <2> HIDE DEF R, Segments
  <2> QED  BY <1>1, <1>2, WFMin
<1>4. PICK x \in T : A = UpTo(x)
  BY <1>3
<1>5. \A y \in T : x <= y
  <2>1. SUFFICES ASSUME NEW y \in T, y < x
                 PROVE  FALSE
    OBVIOUS
  <2>2. UpTo(y) \in Segments
    OBVIOUS
  <2>3. UpTo(y) \subseteq UpTo(x)
    <3>1. ASSUME NEW z \in T, z <= y
          PROVE  z <= x
      BY <2>1, <3>1
    <3>2. QED  BY <3>1
  <2>4. x \in UpTo(x) /\ x \notin UpTo(y)
    BY <2>1, T \subseteq Nat
  <2>5. <<UpTo(y), UpTo(x)>> \in R
    BY <2>3, <2>4 DEF StrictSubsetOrdering
  <2>6. QED  BY <1>3, <1>4, <2>2, <2>5
<1>6. QED  BY <1>5

(* The loop's next service is one of those it has to visit. *)
LEMMA HookNextOfTodo ==
    ASSUME HookTypes, NEW d \in HookDeliveries, hookMail[d].todo # {}
    PROVE  HookNextOf(d) \in hookMail[d].todo
<1>1. hookMail[d].todo \subseteq HookServices
  BY DEF HookTypes, HookMails
<1>2. IsFiniteSet(hookMail[d].todo) /\ hookMail[d].todo \subseteq Nat
  BY <1>1, HookAssumption, FS_Subset
<1>3. \E x \in hookMail[d].todo : \A y \in hookMail[d].todo : x <= y
  BY <1>2, HookHasLeast
<1>4. QED
  BY <1>3 DEF HookNextOf
-----------------------------------------------------------------------------
LEMMA HookInv_Init == HookInit => HookInv
<1>1. SUFFICES ASSUME HookInit
               PROVE  HookInv
  OBVIOUS
<1>2. HookTypes
  <2>1. hookSvc \in [HookServices -> [here : BOOLEAN, active : BOOLEAN, branch : HookBranches]]
    <3>1. [here : {TRUE}, active : {TRUE}, branch : HookBranches]
            \subseteq [here : BOOLEAN, active : BOOLEAN, branch : HookBranches]
      OBVIOUS
    <3>2. QED  BY <1>1, <3>1 DEF HookInit
  <2>2. hookMail \in [HookDeliveries -> HookMails]
    BY <1>1 DEF HookInit, HookMails
  <2>3. hookSecret \in Nat /\ hookRow \in HookCounts /\ hookJob \in HookCounts
    BY <1>1 DEF HookInit, HookNone, HookCounts
  <2>4. QED  BY <2>1, <2>2, <2>3 DEF HookTypes
<1>3. ASSUME NEW d \in HookDeliveries
      PROVE  HookDeliveryInv(d)
  <2>1. /\ hookMail[d].step = "unsent" /\ hookMail[d].tries = 0
        /\ hookMail[d].todo = {} /\ hookMail[d].wanted = {}
        /\ \A s \in HookServices : hookRow[s][d] = 0 /\ hookJob[s][d] = 0
    BY <1>1 DEF HookInit, HookNone
  <2>2. QED
    BY <2>1 DEF HookDeliveryInv, HookLoopsForward, HookRowsBounded, HookRowsHaveJobs, HookToCreate, HookAt
<1>4. QED  BY <1>2, <1>3 DEF HookInv

(* What is said of a delivery holds as long as its handler does not move and
   its deployments are left alone. *)
LEMMA HookDeliveryKept ==
    ASSUME NEW d \in HookDeliveries, HookDeliveryInv(d), hookMail'[d] = hookMail[d],
           \A s \in HookServices : hookRow'[s][d] = hookRow[s][d] /\ hookJob'[s][d] = hookJob[s][d],
           HookTypes
    PROVE  HookDeliveryInv(d)'
<1>1. HookNextOf(d)' = HookNextOf(d)
  BY DEF HookNextOf
<1>2. HookLoopsForward(d)'
  BY DEF HookDeliveryInv, HookLoopsForward, HookAt, HookTypes, HookMails
<1>3. HookRowsBounded(d)'
  BY <1>1 DEF HookDeliveryInv, HookRowsBounded, HookToCreate, HookAt
<1>4. HookRowsHaveJobs(d)'
  BY <1>1 DEF HookDeliveryInv, HookRowsHaveJobs, HookAt
<1>5. QED  BY <1>2, <1>3, <1>4 DEF HookDeliveryInv

(* A step of one delivery's handler. *)
LEMMA HookMails_Step ==
    ASSUME HookTypes, NEW d \in HookDeliveries, NEW rec \in HookMails, HookBecomes(d, rec)
    PROVE  /\ hookMail' \in [HookDeliveries -> HookMails]
           /\ hookMail'[d] = rec
           /\ \A e \in HookDeliveries \ {d} : hookMail'[e] = hookMail[e]
BY DEF HookTypes, HookBecomes

(* One deployment more. *)
LEMMA HookAdd_Step ==
    ASSUME NEW count \in HookCounts, NEW s \in HookServices, NEW d \in HookDeliveries
    PROVE  /\ HookAdd(count, s, d) \in HookCounts
           /\ HookAdd(count, s, d)[s][d] = count[s][d] + 1
           /\ \A t \in HookServices, e \in HookDeliveries :
                  t # s \/ e # d => HookAdd(count, s, d)[t][e] = count[t][e]
BY DEF HookCounts, HookAdd

(* The other deliveries' handlers and deployments are as they were. *)
LEMMA HookOneMoves ==
    ASSUME HookInv, HookTypes', NEW d \in HookDeliveries, HookDeliveryInv(d)',
           \A e \in HookDeliveries \ {d} :
               /\ hookMail'[e] = hookMail[e]
               /\ \A s \in HookServices : hookRow'[s][e] = hookRow[s][e] /\ hookJob'[s][e] = hookJob[s][e]
    PROVE  HookInv'
<1>1. ASSUME NEW e \in HookDeliveries \ {d}
      PROVE  HookDeliveryInv(e)'
  BY HookDeliveryKept DEF HookInv
<1>2. QED  BY <1>1 DEF HookInv

-----------------------------------------------------------------------------
LEMMA HookSend_Step ==
    ASSUME HookInv, NEW d \in HookDeliveries, HookSend(d)
    PROVE  HookInv'
<1>1. PICK kind \in {"app", "hook"}, b \in HookBranches, key \in {0, hookSecret} :
        HookBecomes(d, [hookMail[d] EXCEPT !.step = "sent", !.kind = kind, !.branch = b,
                                           !.key = key, !.tries = 1])
  BY DEF HookSend
<1> DEFINE rec == [hookMail[d] EXCEPT !.step = "sent", !.kind = kind, !.branch = b,
                                      !.key = key, !.tries = 1]
<1>2. HookTypes /\ HookDeliveryInv(d)
  BY DEF HookInv
<1>3. rec \in HookMails
  <2>1. hookMail[d] \in HookMails /\ key \in Nat /\ b \in HookBranches \union {"none"}
    BY <1>2 DEF HookTypes
  <2>2. QED  BY <2>1 DEF HookMails
<1>4. /\ hookMail' \in [HookDeliveries -> HookMails] /\ hookMail'[d] = rec
      /\ \A e \in HookDeliveries \ {d} : hookMail'[e] = hookMail[e]
  <2> HIDE DEF rec
  <2> QED  BY <1>1, <1>2, <1>3, HookMails_Step DEF rec
<1>5. UNCHANGED <<hookSvc, hookSecret, hookRow, hookJob>>
  BY DEF HookSend
<1>6. HookTypes'
  BY <1>2, <1>4, <1>5 DEF HookTypes
<1>7. HookDeliveryInv(d)'
  <2>1. hookMail[d].step = "unsent"
    BY DEF HookSend, HookAt
  <2>2. /\ hookMail'[d].step = "sent" /\ hookMail'[d].tries = 1
        /\ hookMail'[d].todo = hookMail[d].todo /\ hookMail'[d].wanted = hookMail[d].wanted
    BY <1>2, <1>4 DEF HookTypes, HookMails
  <2>3. \A s \in HookServices : hookRow[s][d] = 0 /\ hookJob[s][d] = 0
    <3>1. \A s \in HookServices : hookRow[s][d] \in Nat /\ hookJob[s][d] \in Nat
      BY <1>2 DEF HookTypes, HookCounts
    <3>2. QED
      BY <1>2, <2>1, <3>1 DEF HookDeliveryInv, HookRowsBounded, HookRowsHaveJobs, HookAt
  <2>4. QED
    BY <1>2, <1>5, <2>1, <2>2, <2>3
       DEF HookDeliveryInv, HookLoopsForward, HookRowsBounded, HookRowsHaveJobs, HookToCreate, HookAt
<1>8. QED  BY <1>4, <1>5, <1>6, <1>7, HookOneMoves

LEMMA HookRedeliver_Step ==
    ASSUME HookInv, NEW d \in HookDeliveries, HookRedeliver(d)
    PROVE  HookInv'
<1> DEFINE rec == [hookMail[d] EXCEPT !.step = "sent", !.key = hookSecret, !.tries = @ + 1]
<1>1. HookTypes /\ HookDeliveryInv(d)
  BY DEF HookInv
<1>2. hookMail[d] \in HookMails /\ hookSecret \in Nat
  BY <1>1 DEF HookTypes
<1>3. rec \in HookMails
  <2>1. hookMail[d].tries + 1 \in Nat
    BY <1>2 DEF HookMails
  <2>2. QED  BY <1>2, <2>1 DEF HookMails
<1>4. /\ hookMail' \in [HookDeliveries -> HookMails] /\ hookMail'[d] = rec
      /\ \A e \in HookDeliveries \ {d} : hookMail'[e] = hookMail[e]
  <2>1. HookBecomes(d, rec)
    BY DEF HookRedeliver
  <2> HIDE DEF rec
  <2> QED  BY <1>1, <1>3, <2>1, HookMails_Step
<1>5. UNCHANGED <<hookSvc, hookSecret, hookRow, hookJob>>
  BY DEF HookRedeliver
<1>6. HookTypes'
  BY <1>1, <1>4, <1>5 DEF HookTypes
<1>7. HookDeliveryInv(d)'
  <2>1. hookMail[d].step = "error"
    BY DEF HookRedeliver, HookAt
  <2>2. /\ hookMail'[d].step = "sent" /\ hookMail'[d].tries = hookMail[d].tries + 1
        /\ hookMail'[d].todo = hookMail[d].todo /\ hookMail'[d].wanted = hookMail[d].wanted
    BY <1>2, <1>4 DEF HookMails
  <2>3. hookMail[d].tries \in Nat /\ \A s \in HookServices : hookRow[s][d] \in Nat
    BY <1>1, <1>2 DEF HookTypes, HookMails, HookCounts
  <2>4. QED
    BY <1>1, <1>5, <2>1, <2>2, <2>3
       DEF HookDeliveryInv, HookLoopsForward, HookRowsBounded, HookRowsHaveJobs, HookToCreate, HookAt
<1>8. QED  BY <1>4, <1>5, <1>6, <1>7, HookOneMoves

(* The handler goes to a step outside of its loop. *)
LEMMA HookReply_Step ==
    ASSUME HookInv, NEW d \in HookDeliveries,
           NEW reply \in {"services", "refused", "error"}, HookReplies(d, reply),
           reply = "services" => HookAt(d, "sent"), ~HookAt(d, "created"),
           UNCHANGED <<hookSvc, hookSecret, hookRow, hookJob>>
    PROVE  HookInv'
<1> DEFINE rec == [hookMail[d] EXCEPT !.step = reply]
<1>1. HookTypes /\ HookDeliveryInv(d)
  BY DEF HookInv
<1>2. hookMail[d] \in HookMails
  BY <1>1 DEF HookTypes
<1>3. rec \in HookMails
  BY <1>2 DEF HookMails
<1>4. /\ hookMail' \in [HookDeliveries -> HookMails] /\ hookMail'[d] = rec
      /\ \A e \in HookDeliveries \ {d} : hookMail'[e] = hookMail[e]
  <2>1. HookBecomes(d, rec)
    BY DEF HookReplies
  <2> HIDE DEF rec
  <2> QED  BY <1>1, <1>3, <2>1, HookMails_Step
<1>5. HookTypes'
  BY <1>1, <1>4 DEF HookTypes
<1>6. HookDeliveryInv(d)'
  <2>1. /\ hookMail'[d].step = reply /\ hookMail'[d].tries = hookMail[d].tries
        /\ hookMail'[d].todo = hookMail[d].todo /\ hookMail'[d].wanted = hookMail[d].wanted
    BY <1>2, <1>4 DEF HookMails
  <2>2. QED
    BY <1>1, <2>1 DEF HookDeliveryInv, HookLoopsForward, HookRowsBounded, HookRowsHaveJobs, HookToCreate, HookAt
<1>7. QED  BY <1>4, <1>5, <1>6, HookOneMoves

(* The services are read. *)
LEMMA HookLoops_Step ==
    ASSUME HookInv, NEW d \in HookDeliveries, HookLoops(d),
           HookAt(d, "sent") \/ HookAt(d, "services"),
           UNCHANGED <<hookSvc, hookSecret, hookRow, hookJob>>
    PROVE  HookInv'
<1> DEFINE found == HookMatches(hookMail[d].branch)
           rec == [hookMail[d] EXCEPT !.step = IF found = {} THEN "ok" ELSE "create",
                     !.todo = found, !.wanted = found]
<1>1. HookTypes /\ HookDeliveryInv(d)
  BY DEF HookInv
<1>2. hookMail[d] \in HookMails
  BY <1>1 DEF HookTypes
<1>3. found \in SUBSET HookServices
  BY DEF HookMatches
<1>4. HookBecomes(d, rec)
  BY DEF HookLoops, HookMatches
<1>5. rec \in HookMails
  <2> HIDE DEF found
  <2> QED  BY <1>2, <1>3 DEF HookMails
<1>6. /\ hookMail' \in [HookDeliveries -> HookMails] /\ hookMail'[d] = rec
      /\ \A e \in HookDeliveries \ {d} : hookMail'[e] = hookMail[e]
  <2> HIDE DEF rec
  <2> QED  BY <1>1, <1>4, <1>5, HookMails_Step
<1>7. HookTypes'
  BY <1>1, <1>6 DEF HookTypes
<1>8. HookDeliveryInv(d)'
  <2> HIDE DEF found
  <2>1. /\ hookMail'[d].step = IF found = {} THEN "ok" ELSE "create"
        /\ hookMail'[d].tries = hookMail[d].tries
        /\ hookMail'[d].todo = found /\ hookMail'[d].wanted = found
    BY <1>2, <1>6 DEF HookMails
  <2>2. QED
    BY <1>1, <2>1 DEF HookDeliveryInv, HookLoopsForward, HookRowsBounded, HookRowsHaveJobs, HookToCreate, HookAt
<1>9. QED  BY <1>6, <1>7, <1>8, HookOneMoves

LEMMA HookVerify_Step ==
    ASSUME HookInv, NEW d \in HookDeliveries, HookVerify(d)
    PROVE  HookInv'
<1>1. HookAt(d, "sent") /\ ~HookAt(d, "created") /\ UNCHANGED <<hookSvc, hookSecret, hookRow, hookJob>>
  BY DEF HookVerify, HookAt
<1>2. CASE HookLoops(d)
  BY <1>1, <1>2, HookLoops_Step
<1>3. CASE \E reply \in {"services", "refused", "error"} : HookReplies(d, reply)
  BY <1>1, <1>3, HookReply_Step
<1>4. QED  BY <1>2, <1>3 DEF HookVerify

LEMMA HookCreate_Step ==
    ASSUME HookInv, NEW d \in HookDeliveries, HookCreate(d)
    PROVE  HookInv'
<1> DEFINE n == HookNextOf(d)
           rec == [hookMail[d] EXCEPT !.step = "created"]
<1>1. HookTypes /\ HookDeliveryInv(d)
  BY DEF HookInv
<1>2. hookMail[d].step = "create" /\ UNCHANGED <<hookSvc, hookSecret, hookJob>>
  BY DEF HookCreate, HookAt
<1>3. CASE HookReplies(d, "error") /\ UNCHANGED hookRow
  BY <1>2, <1>3, HookReply_Step DEF HookAt
<1>4. CASE HookReplies(d, "created") /\ hookRow' = HookAdd(hookRow, n, d)
  <2>1. n \in hookMail[d].todo
    BY <1>1, <1>2, HookNextOfTodo DEF HookDeliveryInv, HookLoopsForward, HookAt
  <2>2. hookMail[d] \in HookMails /\ hookRow \in HookCounts /\ hookJob \in HookCounts
    BY <1>1 DEF HookTypes
  <2>3. n \in HookServices
    BY <2>1, <2>2 DEF HookMails
  <2>4. rec \in HookMails
    BY <2>2 DEF HookMails
  <2>5. /\ hookMail' \in [HookDeliveries -> HookMails] /\ hookMail'[d] = rec
        /\ \A e \in HookDeliveries \ {d} : hookMail'[e] = hookMail[e]
    <3>1. HookBecomes(d, rec)
      BY <1>4 DEF HookReplies
    <3> HIDE DEF rec
    <3> QED  BY <1>1, <2>4, <3>1, HookMails_Step
  <2>6. /\ hookRow' \in HookCounts /\ hookRow'[n][d] = hookRow[n][d] + 1
        /\ \A t \in HookServices, e \in HookDeliveries :
               t # n \/ e # d => hookRow'[t][e] = hookRow[t][e]
    <3> HIDE DEF n
    <3> QED  BY <1>4, <2>2, <2>3, HookAdd_Step
  <2>7. HookTypes'
    BY <1>1, <1>2, <2>5, <2>6 DEF HookTypes
  <2>8. /\ hookMail'[d].step = "created" /\ hookMail'[d].tries = hookMail[d].tries
        /\ hookMail'[d].todo = hookMail[d].todo /\ hookMail'[d].wanted = hookMail[d].wanted
    BY <2>2, <2>5 DEF HookMails
  <2>9. HookNextOf(d)' = n
    BY <2>8 DEF HookNextOf
  <2>10. \A s \in HookServices : hookRow[s][d] \in Nat /\ hookJob[s][d] \in Nat
    BY <2>2 DEF HookCounts
  <2>11. hookMail[d].tries \in Nat
    BY <2>2 DEF HookMails
  <2>12. HookLoopsForward(d)'
    BY <1>1, <1>2, <2>8 DEF HookDeliveryInv, HookLoopsForward, HookAt
  <2>13. HookRowsBounded(d)'
    <3> HIDE DEF n
    <3> QED
      BY <1>1, <1>2, <2>1, <2>6, <2>8, <2>9, <2>10, <2>11
         DEF HookDeliveryInv, HookRowsBounded, HookToCreate, HookAt
  <2>14. HookRowsHaveJobs(d)'
    <3> HIDE DEF n
    <3> QED
      BY <1>1, <1>2, <2>6, <2>8, <2>9, <2>10 DEF HookDeliveryInv, HookRowsHaveJobs, HookAt
  <2>15. HookDeliveryInv(d)'
    BY <2>12, <2>13, <2>14 DEF HookDeliveryInv
  <2>16. QED  BY <1>2, <2>5, <2>6, <2>7, <2>15, HookOneMoves
<1>5. QED  BY <1>3, <1>4 DEF HookCreate

LEMMA HookEnqueue_Step ==
    ASSUME HookInv, NEW d \in HookDeliveries, HookEnqueue(d)
    PROVE  HookInv'
<1> DEFINE n == HookNextOf(d)
           rest == hookMail[d].todo \ {n}
           rec == [hookMail[d] EXCEPT !.todo = rest, !.step = IF rest = {} THEN "ok" ELSE "create"]
<1>1. HookTypes /\ HookDeliveryInv(d)
  BY DEF HookInv
<1>2. /\ hookMail[d].step = "created" /\ hookJob' = HookAdd(hookJob, n, d)
      /\ HookBecomes(d, rec) /\ UNCHANGED <<hookSvc, hookSecret, hookRow>>
  BY DEF HookEnqueue, HookAt
<1>3. n \in hookMail[d].todo
  BY <1>1, <1>2, HookNextOfTodo DEF HookDeliveryInv, HookLoopsForward, HookAt
<1>4. hookMail[d] \in HookMails /\ hookRow \in HookCounts /\ hookJob \in HookCounts
  BY <1>1 DEF HookTypes
<1>5. n \in HookServices /\ rest \in SUBSET HookServices
  BY <1>3, <1>4 DEF HookMails
<1> HIDE DEF n
<1>6. rec \in HookMails
  <2> HIDE DEF rest
  <2> QED  BY <1>4, <1>5 DEF HookMails
<1>7. /\ hookMail' \in [HookDeliveries -> HookMails] /\ hookMail'[d] = rec
      /\ \A e \in HookDeliveries \ {d} : hookMail'[e] = hookMail[e]
  <2> HIDE DEF rec
  <2> QED  BY <1>1, <1>2, <1>6, HookMails_Step
<1>8. /\ hookJob' \in HookCounts /\ hookJob'[n][d] = hookJob[n][d] + 1
      /\ \A t \in HookServices, e \in HookDeliveries :
             t # n \/ e # d => hookJob'[t][e] = hookJob[t][e]
  <2> HIDE DEF rest, rec
  <2>1. hookJob' = HookAdd(hookJob, n, d) /\ hookJob \in HookCounts
    BY <1>2, <1>4
  <2>2. /\ HookAdd(hookJob, n, d) \in HookCounts
        /\ HookAdd(hookJob, n, d)[n][d] = hookJob[n][d] + 1
        /\ \A t \in HookServices, e \in HookDeliveries :
               t # n \/ e # d => HookAdd(hookJob, n, d)[t][e] = hookJob[t][e]
    BY <1>5, <2>1, HookAdd_Step
  <2> QED
    BY <2>1, <2>2
<1>9. HookTypes'
  BY <1>1, <1>2, <1>7, <1>8 DEF HookTypes
<1>10. /\ hookMail'[d].step = IF rest = {} THEN "ok" ELSE "create"
       /\ hookMail'[d].todo = rest /\ hookMail'[d].wanted = hookMail[d].wanted
       /\ hookMail'[d].tries = hookMail[d].tries
  <2> HIDE DEF rest
  <2> QED  BY <1>4, <1>7 DEF HookMails
<1>11. \A s \in HookServices : hookRow[s][d] \in Nat /\ hookJob[s][d] \in Nat
  BY <1>4 DEF HookCounts
<1>12. HookLoopsForward(d)'
  <2>1. hookMail[d].wanted \subseteq HookServices
    BY <1>4 DEF HookMails
  <2>2. \A s \in hookMail[d].wanted \ rest : hookJob'[s][d] > 0
    BY <1>1, <1>2, <1>8, <1>11, <2>1 DEF HookDeliveryInv, HookLoopsForward, HookAt
  <2>3. QED
    BY <1>1, <1>2, <1>10, <2>2 DEF HookDeliveryInv, HookLoopsForward, HookAt
<1>13. HookRowsBounded(d)'
  BY <1>1, <1>2, <1>10 DEF n, HookDeliveryInv, HookRowsBounded, HookToCreate, HookAt
<1>14. HookRowsHaveJobs(d)'
  BY <1>1, <1>2, <1>8, <1>10, <1>11 DEF n, HookDeliveryInv, HookRowsHaveJobs, HookAt
<1>15. HookDeliveryInv(d)'
  BY <1>12, <1>13, <1>14 DEF HookDeliveryInv
<1>16. QED  BY <1>2, <1>7, <1>8, <1>9, <1>15, HookOneMoves

(* Nothing moves in the handlers. *)
LEMMA HookRest_Step ==
    ASSUME HookInv, HookTypes', UNCHANGED <<hookMail, hookRow, hookJob>>
    PROVE  HookInv'
<1>1. ASSUME NEW d \in HookDeliveries
      PROVE  HookDeliveryInv(d)'
  BY HookDeliveryKept DEF HookInv
<1>2. QED  BY <1>1 DEF HookInv

LEMMA HookEdit_Step ==
    ASSUME HookInv, NEW s \in HookServices, HookEditService(s)
    PROVE  HookInv'
<1> DEFINE Row == [here : BOOLEAN, active : BOOLEAN, branch : HookBranches]
<1>1. HookTypes /\ hookSvc[s] \in Row
  BY DEF HookInv, HookTypes
<1>2. UNCHANGED <<hookSecret, hookMail, hookRow, hookJob>>
  BY DEF HookEditService
<1>3. \E row \in Row : hookSvc' = [hookSvc EXCEPT ![s] = row]
  <2>1. CASE \E b \in HookBranches : hookSvc' = [hookSvc EXCEPT ![s].branch = b]
    <3>1. PICK b \in HookBranches : hookSvc' = [hookSvc EXCEPT ![s].branch = b]
      BY <2>1
    <3>2. [hookSvc[s] EXCEPT !.branch = b] \in Row
      BY <1>1
    <3>3. QED  BY <3>1, <3>2
  <2>2. CASE hookSvc' = [hookSvc EXCEPT ![s].active = ~@]
    <3>1. (~hookSvc[s].active) \in BOOLEAN
      OBVIOUS
    <3>2. [hookSvc[s] EXCEPT !.active = ~@] \in Row
      BY <1>1, <3>1
    <3>3. QED  BY <2>2, <3>2
  <2>3. CASE hookSvc' = [hookSvc EXCEPT ![s].here = FALSE]
    <3>1. [hookSvc[s] EXCEPT !.here = FALSE] \in Row
      BY <1>1
    <3>2. QED  BY <2>3, <3>1
  <2>4. QED  BY <2>1, <2>2, <2>3 DEF HookEditService
<1>4. HookTypes'
  BY <1>1, <1>2, <1>3 DEF HookTypes
<1>5. QED  BY <1>2, <1>4, HookRest_Step

LEMMA HookInv_Step == HookInv /\ [HookNext]_HookVars => HookInv'
<1> SUFFICES ASSUME HookInv, [HookNext]_HookVars
             PROVE  HookInv'
  OBVIOUS
<1>1. ASSUME NEW d \in HookDeliveries, HookSend(d)
      PROVE  HookInv'
  BY <1>1, HookSend_Step
<1>2. ASSUME NEW d \in HookDeliveries, HookRedeliver(d)
      PROVE  HookInv'
  BY <1>2, HookRedeliver_Step
<1>3. ASSUME NEW d \in HookDeliveries, HookVerify(d)
      PROVE  HookInv'
  BY <1>3, HookVerify_Step
<1>4. ASSUME NEW d \in HookDeliveries, HookServicesRead(d)
      PROVE  HookInv'
  BY <1>4, HookLoops_Step DEF HookServicesRead
<1>5. ASSUME NEW d \in HookDeliveries, HookCreate(d)
      PROVE  HookInv'
  BY <1>5, HookCreate_Step
<1>6. ASSUME NEW d \in HookDeliveries, HookEnqueue(d)
      PROVE  HookInv'
  BY <1>6, HookEnqueue_Step
<1>7. ASSUME NEW s \in HookServices, HookEditService(s)
      PROVE  HookInv'
  BY <1>7, HookEdit_Step
<1>8. CASE HookRotate
  <2>1. HookTypes'
    BY <1>8 DEF HookRotate, HookInv, HookTypes
  <2>2. QED  BY <1>8, <2>1, HookRest_Step DEF HookRotate
<1>9. CASE UNCHANGED HookVars
  <2>1. HookTypes'
    BY <1>9 DEF HookVars, HookInv, HookTypes
  <2>2. QED  BY <1>9, <2>1, HookRest_Step DEF HookVars
<1>10. QED
  BY <1>1, <1>2, <1>3, <1>4, <1>5, <1>6, <1>7, <1>8, <1>9 DEF HookNext

LEMMA HookInv_Implies == HookInv => PushIsDeployed
<1> SUFFICES ASSUME HookInv
             PROVE  PushIsDeployed
  OBVIOUS
<1>1. HookTypeOK
  <2>1. ASSUME NEW d \in HookDeliveries, NEW s \in HookServices
        PROVE  hookRow[s][d] \in 0 .. hookMail[d].tries
    <3>1. hookRow[s][d] \in Nat /\ hookMail[d].tries \in Nat
      BY DEF HookInv, HookTypes, HookCounts, HookMails
    <3>2. hookRow[s][d] <= hookMail[d].tries
      BY DEF HookInv, HookDeliveryInv, HookRowsBounded
    <3>3. QED  BY <3>1, <3>2
  <2>2. ASSUME NEW d \in HookDeliveries
        PROVE  /\ hookMail[d].step \in {"unsent", "sent", "services", "create", "created", "ok",
                                         "refused", "error"}
               /\ hookMail[d].todo \subseteq hookMail[d].wanted
               /\ hookMail[d].wanted \subseteq HookServices
    BY DEF HookInv, HookTypes, HookMails, HookDeliveryInv, HookLoopsForward
  <2>3. QED  BY <2>1, <2>2 DEF HookTypeOK, HookInv, HookTypes
<1>2. HookRowHasJob
  BY DEF HookInv, HookDeliveryInv, HookRowsHaveJobs, HookRowHasJob
<1>3. HookOkIsComplete
  BY DEF HookInv, HookDeliveryInv, HookLoopsForward, HookOkIsComplete
<1>4. QED  BY <1>1, <1>2, <1>3 DEF PushIsDeployed

(***************************************************************************)
(* However deliveries are sent again, statements throw and services are    *)
(* edited in the middle of the loops: a push that is answered "ok" has got *)
(* a job for each service it should deploy, and no row is left without.    *)
(***************************************************************************)
THEOREM PushIsDeployedHolds == HookSpec => []PushIsDeployed
<1>1. HookSpec => []HookInv
  BY HookInv_Init, HookInv_Step, PTL DEF HookSpec
<1>2. QED
  BY <1>1, HookInv_Implies, PTL
=============================================================================
