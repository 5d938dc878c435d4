---------------------------- MODULE ClientProofs ----------------------------
(***************************************************************************)
(* Proofs about the clients of the server, which share no state, each for  *)
(* any constants its assumption allows and any bounds. A part's names      *)
(* begin with its prefix: Pg is the page of a service (ServicePage), Ctl a *)
(* run of siteyctl (Siteyctl), Dlg the dialog that creates a service       *)
(* (ServiceDialog), Sess the session of a browser tab (WebSession), Arg    *)
(* the command line of siteyctl (SiteyctlArgs).                            *)
(***************************************************************************)
EXTENDS TLAPS, ServicePage, Siteyctl, ServiceDialog, WebSession, SiteyctlArgs,
        FiniteSetTheorems, SequenceTheorems, WellFoundedInduction

-----------------------------------------------------------------------------
(***************************************************************************)
(* ServicePage                                                             *)
(***************************************************************************)

(* A deployment's status, what a handler awaits, the page's refs, lines and
   requests for logs when there are n deployments. *)
PgStatus == {"ongoing", "ended"}
PgLoads == {"fetch", "read", "hook"}
PgJobs == [step : {"idle", "call", "fetch", "read", "hook", "logs"}, snap : Seq(PgStatus)]
PgFlags == [loading : BOOLEAN, error : BOOLEAN, logs : BOOLEAN, loaded : BOOLEAN]
PgLinesOf(n) == [of : 0 .. n, at : {"none"} \cup PgStatus]
PgAsksOf(n) == [of : 1 .. n, by : {PgNobody} \cup PgHandlers, at : {"none"} \cup PgStatus]

PgTypes ==
  /\ pgDeps \in Seq(PgStatus) /\ pgView \in Seq(PgStatus) /\ Len(pgView) <= Len(pgDeps)
  /\ pgSel \in 0 .. Len(pgDeps) /\ pgLines \in PgLinesOf(Len(pgDeps))
  /\ pgJob \in [PgHandlers -> PgJobs] /\ \A b \in PgHandlers : Len(pgJob[b].snap) <= Len(pgDeps)
  /\ pgFlag \in PgFlags /\ pgMissed \in BOOLEAN
  /\ pgAsked \in SUBSET PgAsksOf(Len(pgDeps))

(* The flag logsLoading keeps requests for logs apart. *)
PgOneAsk == (pgFlag.logs <=> pgAsked # {}) /\ \A a, c \in pgAsked : a = c

(* A handler awaits logs exactly while its request is out. *)
PgAskOfJob == \A b \in PgHandlers : pgJob[b].step = "logs" <=> \E a \in pgAsked : a.by = b

(* "Loading..." has a handler that is loading. *)
PgLoadingSound == pgFlag.loading => \E b \in PgHandlers : pgJob[b].step \in PgLoads \cup {"logs"}

(* What is asked for is of the selected deployment, or the page knows better. *)
PgAsksFit == \A a \in pgAsked : PgFits(a.of)

PgInv ==
  /\ PgTypes /\ PgOneAsk /\ PgAskOfJob /\ PgLoadingSound /\ LinesAreOfSelected /\ PgAsksFit

(* Nobody is no handler; the buttons are. *)
LEMMA PgHandlersFacts ==
  /\ PgNobody \notin PgHandlers /\ "deploy" \in PgHandlers /\ PgButtons \subseteq PgHandlers
<1>1. PgNobody # "open"
  BY Zenon DEF PgNobody
<1> QED
  BY <1>1, PgAssumption DEF PgHandlers

(* The types, with the lengths as numbers. *)
LEMMA PgTypesOf ==
  ASSUME PgTypes
  PROVE  /\ pgDeps \in Seq(PgStatus) /\ Len(pgDeps) \in Nat /\ pgView \in Seq(PgStatus) /\ Len(pgView) \in Nat
         /\ pgJob \in [PgHandlers -> PgJobs] /\ pgFlag \in PgFlags
         /\ pgAsked \in SUBSET PgAsksOf(Len(pgDeps))
         /\ \A h \in PgHandlers : Len(pgJob[h].snap) \in Nat /\ Len(pgJob[h].snap) <= Len(pgDeps)
BY DEF PgTypes, PgJobs

LEMMA PgInvInit == PgInit => PgInv
<1> SUFFICES ASSUME PgInit PROVE PgInv
  OBVIOUS
<1> DEFINE idle == [step |-> "idle", snap |-> <<>>]
           fetch == [step |-> "fetch", snap |-> <<>>]
<1>1. /\ pgDeps \in Seq(PgStatus) /\ Len(pgDeps) \in Nat /\ pgView = <<>> /\ pgSel = 0
      /\ pgLines = [of |-> 0, at |-> "none"] /\ pgAsked = {} /\ pgMissed = FALSE
      /\ pgFlag = [loading |-> TRUE, error |-> FALSE, logs |-> FALSE, loaded |-> FALSE]
  <2>1. <<>> \in Seq(PgStatus) /\ Len(<<>>) \in Nat
    OBVIOUS
  <2>2. <<"ended">> \in Seq(PgStatus) /\ Len(<<"ended">>) \in Nat
    BY DEF PgStatus
  <2>3. pgDeps \in {<<>>, <<"ended">>}
    BY DEF PgInit
  <2>4. pgDeps \in Seq(PgStatus) /\ Len(pgDeps) \in Nat
    BY <2>1, <2>2, <2>3
  <2> QED
    BY <2>4 DEF PgInit
<1>2. idle \in PgJobs /\ fetch \in PgJobs
  BY DEF PgJobs, PgStatus
<1>3. /\ pgJob \in [PgHandlers -> {idle, fetch}] /\ pgJob["open"] = fetch /\ "open" \in PgHandlers
  BY DEF PgInit, PgIdle, PgHandlers
<1>4. PgTypes
  <2>1. pgView \in Seq(PgStatus) /\ Len(pgView) = 0
    BY <1>1
  <2>2. pgLines \in PgLinesOf(Len(pgDeps)) /\ pgFlag \in PgFlags
    BY <1>1 DEF PgLinesOf, PgFlags
  <2>3. \A b \in PgHandlers : pgJob[b] \in PgJobs /\ Len(pgJob[b].snap) = 0
    BY <1>2, <1>3
  <2>4. pgJob \in [PgHandlers -> PgJobs]
    <3> HIDE DEF idle, fetch
    <3>1. pgJob = [b \in PgHandlers |-> pgJob[b]]
      BY <1>3
    <3> QED
      BY <2>3, <3>1
  <2>5. pgSel \in 0 .. Len(pgDeps) /\ Len(pgView) <= Len(pgDeps)
    BY <1>1, <2>1
  <2>6. \A b \in PgHandlers : Len(pgJob[b].snap) <= Len(pgDeps)
    BY <1>1, <2>3
  <2>7. pgAsked \in SUBSET PgAsksOf(Len(pgDeps)) /\ pgMissed \in BOOLEAN
    BY <1>1
  <2> QED
    BY <1>1, <2>1, <2>2, <2>4, <2>5, <2>6, <2>7 DEF PgTypes
<1>5. PgOneAsk /\ PgAskOfJob /\ PgLoadingSound /\ LinesAreOfSelected /\ PgAsksFit
  BY <1>1, <1>3 DEF PgOneAsk, PgAskOfJob, PgLoadingSound, PgLoads, LinesAreOfSelected, PgFits, PgAsksFit
<1> QED
  BY <1>4, <1>5 DEF PgInv

(* A handler goes on, with the list of deployments or the selection perhaps
   changed on the way, and asks for no logs. *)
LEMMA PgJobStep ==
  ASSUME PgInv, NEW b \in PgHandlers, NEW job \in PgJobs,
         pgJob' = [pgJob EXCEPT ![b] = job], pgJob[b].step # "logs", job.step # "logs",
         pgDeps' \in Seq(PgStatus), Len(pgDeps) <= Len(pgDeps'), Len(job.snap) <= Len(pgDeps'),
         pgView' \in Seq(PgStatus), Len(pgView') <= Len(pgDeps'), pgSel' \in 0 .. Len(pgDeps'),
         pgLines' = pgLines, pgAsked' = pgAsked, pgMissed' = pgMissed,
         pgFlag' \in PgFlags, pgFlag'.logs = pgFlag.logs,
         \/ job.step \in PgLoads \/ pgFlag'.error
         \/ (pgSel' = pgSel /\ pgFlag'.error = pgFlag.error /\ pgJob[b].step \notin PgLoads),
         pgFlag'.loading =>
           job.step \in PgLoads \/ (pgFlag.loading /\ pgJob[b].step \notin PgLoads)
  PROVE  PgInv'
<1>1. /\ Len(pgDeps) \in Nat /\ Len(pgDeps') \in Nat
      /\ pgJob \in [PgHandlers -> PgJobs] /\ \A h \in PgHandlers : Len(pgJob[h].snap) \in Nat
  BY DEF PgInv, PgTypes, PgJobs
<1>2. /\ pgJob' \in [PgHandlers -> PgJobs] /\ pgJob'[b] = job
      /\ \A h \in PgHandlers : h # b => pgJob'[h] = pgJob[h]
  BY <1>1
<1>3. PgTypes'
  <2>1. pgLines \in PgLinesOf(Len(pgDeps')) /\ pgAsked \in SUBSET PgAsksOf(Len(pgDeps'))
    <3>1. 0 .. Len(pgDeps) \subseteq 0 .. Len(pgDeps') /\ 1 .. Len(pgDeps) \subseteq 1 .. Len(pgDeps')
      BY <1>1
    <3>2. /\ PgLinesOf(Len(pgDeps)) \subseteq PgLinesOf(Len(pgDeps'))
          /\ PgAsksOf(Len(pgDeps)) \subseteq PgAsksOf(Len(pgDeps'))
      BY <3>1 DEF PgLinesOf, PgAsksOf
    <3> QED
      BY <3>2 DEF PgInv, PgTypes
  <2>2. \A h \in PgHandlers : Len(pgJob'[h].snap) <= Len(pgDeps')
    BY <1>1, <1>2 DEF PgInv, PgTypes
  <2> QED
    BY <1>2, <2>1, <2>2 DEF PgInv, PgTypes
<1>4. PgOneAsk' /\ PgAskOfJob'
  BY <1>2 DEF PgInv, PgOneAsk, PgAskOfJob
<1>5. PgLoadingSound'
  <2> SUFFICES ASSUME pgFlag'.loading
               PROVE  \E h \in PgHandlers : pgJob'[h].step \in PgLoads \cup {"logs"}
    BY DEF PgLoadingSound
  <2>1. CASE job.step \in PgLoads
    BY <1>2, <2>1
  <2>2. CASE job.step \notin PgLoads
    <3>1. PICK h \in PgHandlers : pgJob[h].step \in PgLoads \cup {"logs"}
      BY <2>2 DEF PgInv, PgLoadingSound
    <3>2. h # b
      BY <2>2, <3>1
    <3> QED
      BY <1>2, <3>1, <3>2
  <2> QED
    BY <2>1, <2>2
<1>6. ASSUME NEW d, PgFits(d)
      PROVE  PgFits(d)'
  <2>1. CASE job.step \in PgLoads
    BY <1>2, <2>1 DEF PgFits, PgLoads
  <2>2. CASE pgFlag'.error
    BY <2>2 DEF PgFits
  <2>3. CASE pgSel' = pgSel /\ pgFlag'.error = pgFlag.error /\ pgJob[b].step \notin PgLoads
    <3>1. ASSUME NEW h \in PgHandlers, pgJob[h].step \in PgLoads
          PROVE  pgJob'[h].step \in PgLoads
      BY <1>2, <2>3, <3>1
    <3> QED
      BY <1>6, <2>3, <3>1 DEF PgFits, PgLoads
  <2> QED
    BY <2>1, <2>2, <2>3
<1>7. LinesAreOfSelected' /\ PgAsksFit'
  BY <1>6 DEF PgInv, LinesAreOfSelected, PgAsksFit
<1> QED
  BY <1>3, <1>4, <1>5, <1>7 DEF PgInv

(* fetchLogs: what is wished for is the selected deployment. *)
LEMMA PgAskStep ==
  ASSUME PgInv, NEW b \in {PgNobody} \cup PgHandlers, NEW sel \in 0 .. Len(pgDeps), PgAskLogs(sel, b),
         b # PgNobody => pgJob[b].step # "logs",
         pgSel' = sel, pgDeps' = pgDeps, pgView' \in Seq(PgStatus), Len(pgView') <= Len(pgDeps),
         pgLines' \in PgLinesOf(Len(pgDeps))
  PROVE  PgInv'
<1>1. /\ Len(pgDeps) \in Nat /\ pgJob \in [PgHandlers -> PgJobs] /\ pgFlag \in PgFlags
      /\ pgAsked \in SUBSET PgAsksOf(Len(pgDeps))
      /\ \A h \in PgHandlers : Len(pgJob[h].snap) <= Len(pgDeps)
  BY PgTypesOf DEF PgInv
<1> DEFINE job(step) == [step |-> step, snap |-> <<>>]
<1>2. \A step \in {"logs", "idle"} : job(step) \in PgJobs /\ Len(job(step).snap) <= Len(pgDeps)
  <2>1. <<>> \in Seq(PgStatus) /\ Len(<<>>) = 0
    OBVIOUS
  <2> QED
    BY <1>1, <2>1 DEF PgJobs
<1>3. CASE sel # 0 /\ PgLogsMayStart
  <2> DEFINE ask == [of |-> sel, by |-> b, at |-> "none"]
  <2>1. ~pgFlag.logs /\ pgAsked = {} /\ pgAsked' = {ask} /\ pgMissed' = FALSE
    BY <1>3 DEF PgAskLogs, PgLogsMayStart, PgInv, PgOneAsk
  <2>2. /\ pgFlag'.logs /\ pgFlag' \in PgFlags /\ pgFlag'.loading = pgFlag.loading
    BY <1>1, <1>3 DEF PgAskLogs, PgFlags
  <2>3. /\ pgJob' \in [PgHandlers -> PgJobs]
        /\ \A h \in PgHandlers : pgJob'[h] = IF h = b THEN job("logs") ELSE pgJob[h]
    <3>1. CASE b = PgNobody
      BY <1>1, <1>3, <3>1, PgHandlersFacts DEF PgAskLogs
    <3>2. CASE b # PgNobody
      <4>1. pgJob' = [pgJob EXCEPT ![b] = job("logs")]
        BY <1>3, <3>2 DEF PgAskLogs, PgStep, PgIdle
      <4> HIDE DEF job
      <4> QED
        BY <1>1, <1>2, <3>2, <4>1
    <3> QED
      BY <3>1, <3>2
  <2>4. PgTypes'
    <3>1. ask \in PgAsksOf(Len(pgDeps))
      BY <1>1, <1>3 DEF PgAsksOf
    <3>2. \A h \in PgHandlers : Len(pgJob'[h].snap) <= Len(pgDeps)
      <4> HIDE DEF job
      <4> QED
        BY <1>1, <1>2, <2>3
    <3> HIDE DEF ask
    <3> QED
      BY <1>1, <2>1, <2>2, <2>3, <3>1, <3>2 DEF PgInv, PgTypes
  <2>5. PgOneAsk'
    BY <2>1, <2>2 DEF PgOneAsk
  <2>6. PgAskOfJob'
    <3>1. \A h \in PgHandlers : pgJob[h].step # "logs"
      BY <2>1 DEF PgInv, PgAskOfJob
    <3>2. \A h \in PgHandlers : pgJob'[h].step = "logs" <=> h = b
      BY <2>3, <3>1
    <3> QED
      BY <2>1, <3>2 DEF PgAskOfJob
  <2>7. PgLoadingSound'
    BY <2>2, <2>3 DEF PgInv, PgLoadingSound
  <2>8. LinesAreOfSelected' /\ PgAsksFit'
    BY <2>1 DEF LinesAreOfSelected, PgAsksFit, PgFits
  <2> QED
    BY <2>4, <2>5, <2>6, <2>7, <2>8 DEF PgInv
<1>4. CASE ~(sel # 0 /\ PgLogsMayStart)
  <2>1. pgAsked' = pgAsked /\ pgMissed' = TRUE
    BY <1>4 DEF PgAskLogs
  <2>2. /\ pgFlag'.logs = pgFlag.logs /\ pgFlag' \in PgFlags
        /\ pgFlag'.loading => b = PgNobody /\ pgFlag.loading
    BY <1>1, <1>4 DEF PgAskLogs, PgFlags
  <2>3. /\ pgJob' \in [PgHandlers -> PgJobs]
        /\ \A h \in PgHandlers : pgJob'[h] = IF h = b THEN job("idle") ELSE pgJob[h]
    <3>1. CASE b = PgNobody
      BY <1>1, <1>4, <3>1, PgHandlersFacts DEF PgAskLogs
    <3>2. CASE b # PgNobody
      <4>1. pgJob' = [pgJob EXCEPT ![b] = job("idle")]
        BY <1>4, <3>2 DEF PgAskLogs, PgStep, PgIdle
      <4> HIDE DEF job
      <4> QED
        BY <1>1, <1>2, <3>2, <4>1
    <3> QED
      BY <3>1, <3>2
  <2>4. PgTypes'
    <3>1. \A h \in PgHandlers : Len(pgJob'[h].snap) <= Len(pgDeps)
      <4> HIDE DEF job
      <4> QED
        BY <1>1, <1>2, <2>3
    <3> QED
      BY <1>1, <2>1, <2>2, <2>3, <3>1 DEF PgInv, PgTypes
  <2>5. PgOneAsk'
    BY <2>1, <2>2 DEF PgInv, PgOneAsk
  <2>6. PgAskOfJob'
    <3>1. \A h \in PgHandlers : pgJob'[h].step = "logs" <=> pgJob[h].step = "logs"
      BY <2>3, PgHandlersFacts
    <3> QED
      BY <2>1, <3>1 DEF PgInv, PgAskOfJob
  <2>7. PgLoadingSound'
    <3>1. pgFlag'.loading => pgFlag.loading /\ \A h \in PgHandlers : pgJob'[h] = pgJob[h]
      BY <2>2, <2>3, PgHandlersFacts
    <3> QED
      BY <3>1 DEF PgInv, PgLoadingSound
  <2>8. LinesAreOfSelected' /\ PgAsksFit'
    BY <2>1 DEF LinesAreOfSelected, PgAsksFit, PgFits
  <2> QED
    BY <2>4, <2>5, <2>6, <2>7, <2>8 DEF PgInv
<1> QED
  BY <1>3, <1>4

(* A request for logs ends, and with it the handler that awaits it. *)
LEMMA PgOverStep ==
  ASSUME PgInv, NEW a \in pgAsked, NEW failed \in BOOLEAN, PgLogsOver(a, failed),
         pgLines' \in PgLinesOf(Len(pgDeps)), pgMissed' \in BOOLEAN,
         pgMissed' \/ (pgMissed' = pgMissed /\ pgLines'.of = a.of)
  PROVE  PgInv'
<1>1. /\ PgTypes /\ Len(pgDeps) \in Nat /\ pgJob \in [PgHandlers -> PgJobs] /\ pgFlag \in PgFlags
      /\ \A h \in PgHandlers : Len(pgJob[h].snap) <= Len(pgDeps)
      /\ a \in PgAsksOf(Len(pgDeps))
  BY PgTypesOf DEF PgInv
<1>2. /\ pgAsked' = {} /\ pgDeps' = pgDeps /\ pgView' = pgView /\ pgSel' = pgSel
  BY DEF PgLogsOver, PgServer, PgInv, PgOneAsk
<1>3. /\ a.by \in {PgNobody} \cup PgHandlers
      /\ a.by \in PgHandlers => pgJob[a.by].step = "logs"
  BY <1>1 DEF PgAsksOf, PgInv, PgAskOfJob
<1>4. PgIdle \in PgJobs /\ PgIdle.step = "idle" /\ Len(PgIdle.snap) = 0
  <2>1. <<>> \in Seq(PgStatus) /\ Len(<<>>) = 0
    OBVIOUS
  <2> QED
    BY <2>1 DEF PgIdle, PgJobs
<1>5. /\ pgJob' \in [PgHandlers -> PgJobs]
      /\ \A h \in PgHandlers : pgJob'[h] = IF h = a.by THEN PgIdle ELSE pgJob[h]
  <2>1. pgJob' = IF a.by = PgNobody THEN pgJob ELSE [pgJob EXCEPT ![a.by] = PgIdle]
    BY DEF PgLogsOver
  <2> QED
    BY <1>1, <1>3, <1>4, <2>1, PgHandlersFacts
<1>6. /\ pgFlag' \in PgFlags /\ ~pgFlag'.logs
      /\ pgFlag.error => pgFlag'.error
      /\ pgFlag'.loading => pgFlag.loading /\ a.by = PgNobody
  BY <1>1 DEF PgLogsOver, PgLogsFlag, PgFlags
<1>7. PgTypes'
  <2>1. \A h \in PgHandlers : Len(pgJob'[h].snap) <= Len(pgDeps)
    BY <1>1, <1>4, <1>5
  <2> QED
    BY <1>1, <1>2, <1>5, <1>6, <2>1 DEF PgTypes
<1>8. PgOneAsk'
  BY <1>2, <1>6 DEF PgOneAsk
<1>9. PgAskOfJob'
  <2>1. ASSUME NEW h \in PgHandlers PROVE pgJob'[h].step # "logs"
    <3>1. CASE h = a.by
      BY <1>4, <1>5, <3>1
    <3>2. CASE h # a.by
      <4>1. \A c \in pgAsked : c = a
        BY DEF PgInv, PgOneAsk
      <4>2. pgJob[h].step # "logs"
        BY <3>2, <4>1 DEF PgInv, PgAskOfJob
      <4> QED
        BY <1>5, <3>2, <4>2
    <3> QED
      BY <3>1, <3>2
  <2> QED
    BY <1>2, <2>1 DEF PgAskOfJob
<1>10. PgLoadingSound'
  BY <1>5, <1>6, PgHandlersFacts DEF PgInv, PgLoadingSound
<1>11. LinesAreOfSelected'
  <2>1. CASE pgMissed'
    BY <2>1 DEF LinesAreOfSelected, PgFits
  <2>2. CASE pgMissed' = pgMissed /\ pgLines'.of = a.of
    <3>1. PgFits(a.of)
      BY DEF PgInv, PgAsksFit
    <3>2. \A h \in PgHandlers : pgJob[h].step \in {"fetch", "read", "hook"} => pgJob'[h] = pgJob[h]
      BY <1>3, <1>5
    <3>3. PgFits(a.of)'
      BY <1>2, <1>6, <2>2, <3>1, <3>2 DEF PgFits
    <3> QED
      BY <2>2, <3>3 DEF LinesAreOfSelected, PgFits
  <2> QED
    BY <2>1, <2>2
<1>12. PgAsksFit'
  BY <1>2 DEF PgAsksFit
<1> QED
  BY <1>7, <1>8, <1>9, <1>10, <1>11, <1>12 DEF PgInv

LEMMA PgLogsArriveKeeps == ASSUME PgInv, NEW a \in pgAsked, PgLogsArrive(a) PROVE PgInv'
<1>1. /\ PgLogsOver(a, FALSE) /\ pgLines' = [of |-> a.of, at |-> a.at] /\ pgMissed' = pgMissed
  BY DEF PgLogsArrive
<1>2. a \in PgAsksOf(Len(pgDeps)) /\ Len(pgDeps) \in Nat /\ pgMissed \in BOOLEAN
  BY PgTypesOf DEF PgInv, PgTypes
<1>3. pgLines' \in PgLinesOf(Len(pgDeps)) /\ pgLines'.of = a.of
  BY <1>1, <1>2 DEF PgLinesOf, PgAsksOf
<1>4. FALSE \in BOOLEAN
  OBVIOUS
<1> QED
  BY <1>1, <1>2, <1>3, <1>4, PgOverStep

LEMMA PgLogsFailKeeps == ASSUME PgInv, NEW a \in pgAsked, PgLogsFail(a) PROVE PgInv'
<1>1. PgLogsOver(a, TRUE) /\ pgLines' = pgLines /\ pgMissed' = TRUE
  BY DEF PgLogsFail
<1>2. pgLines' \in PgLinesOf(Len(pgDeps))
  BY <1>1 DEF PgInv, PgTypes
<1>3. TRUE \in BOOLEAN
  OBVIOUS
<1> QED
  BY <1>1, <1>2, <1>3, PgOverStep

LEMMA PgLogsReadKeeps == ASSUME PgInv, NEW a \in pgAsked, PgLogsRead(a) PROVE PgInv'
<1> DEFINE c == [a EXCEPT !.at = pgDeps[a.of]]
<1>1. /\ PgTypes /\ a \in PgAsksOf(Len(pgDeps)) /\ pgDeps \in Seq(PgStatus) /\ Len(pgDeps) \in Nat
  BY PgTypesOf DEF PgInv
<1>2. /\ pgDeps' = pgDeps /\ pgView' = pgView /\ pgSel' = pgSel /\ pgLines' = pgLines /\ pgJob' = pgJob
      /\ pgFlag' = pgFlag /\ pgMissed' = pgMissed /\ pgAsked' = (pgAsked \ {a}) \cup {c}
  BY DEF PgLogsRead, PgServer
<1>3. pgDeps[a.of] \in PgStatus
  BY <1>1 DEF PgAsksOf
<1>4. c \in PgAsksOf(Len(pgDeps)) /\ c.of = a.of /\ c.by = a.by
  BY <1>1, <1>3 DEF PgAsksOf
<1> HIDE DEF c
<1>5. pgAsked' = {c} /\ \A e \in pgAsked : e = a
  BY <1>2 DEF PgInv, PgOneAsk
<1>6. PgTypes'
  BY <1>1, <1>2, <1>4, <1>5 DEF PgTypes
<1>7. PgOneAsk' /\ PgAskOfJob' /\ PgLoadingSound'
  BY <1>2, <1>4, <1>5 DEF PgInv, PgOneAsk, PgAskOfJob, PgLoadingSound
<1>8. LinesAreOfSelected' /\ PgAsksFit'
  BY <1>2, <1>4, <1>5 DEF PgInv, LinesAreOfSelected, PgAsksFit, PgFits
<1> QED
  BY <1>6, <1>7, <1>8 DEF PgInv

(* The actions, one by one. *)
LEMMA PgPickKeeps == ASSUME PgInv, PgPick \/ PgRefresh \/ PgPoll PROVE PgInv'
<1>1. /\ PgTypes /\ pgSel \in 0 .. Len(pgDeps) /\ Len(pgView) <= Len(pgDeps) /\ pgView \in Seq(PgStatus)
      /\ pgLines \in PgLinesOf(Len(pgDeps)) /\ Len(pgDeps) \in Nat /\ Len(pgView) \in Nat
  BY PgTypesOf DEF PgInv, PgTypes
<1>2. pgDeps' = pgDeps /\ pgView' = pgView /\ pgLines' = pgLines
  BY DEF PgPick, PgRefresh, PgPoll, PgServer
<1>3. PgNobody \in {PgNobody} \cup PgHandlers
  OBVIOUS
<1>4. PICK sel \in 0 .. Len(pgDeps) : pgSel' = sel /\ PgAskLogs(sel, PgNobody)
  <2>1. CASE PgPick
    <3>1. PICK d \in DOMAIN pgView : pgSel' = d /\ PgAskLogs(d, PgNobody)
      BY <2>1 DEF PgPick
    <3>2. d \in 0 .. Len(pgDeps)
      BY <1>1
    <3> QED
      BY <3>1, <3>2
  <2>2. CASE PgRefresh \/ PgPoll
    BY <1>1, <2>2 DEF PgRefresh, PgPoll
  <2> QED
    BY <2>1, <2>2
<1> QED
  BY <1>1, <1>2, <1>3, <1>4, PgAskStep

(* What is loaded is shown, and its newest deployment is selected. *)
LEMMA PgSelectStep ==
  ASSUME PgInv, NEW b \in PgHandlers, NEW deps \in Seq(PgStatus), Len(deps) <= Len(pgDeps),
         PgSelect(b, deps), pgJob[b].step # "logs", pgDeps' = pgDeps, pgView' = deps
  PROVE  PgInv'
<1>1. /\ PgTypes /\ pgLines \in PgLinesOf(Len(pgDeps)) /\ Len(pgDeps) \in Nat
  BY PgTypesOf DEF PgInv, PgTypes
<1>2. /\ pgSel' = Len(deps) /\ PgAskLogs(Len(deps), b) /\ Len(deps) \in 0 .. Len(pgDeps)
  BY <1>1 DEF PgSelect
<1>3. pgLines' \in PgLinesOf(Len(pgDeps))
  BY <1>1 DEF PgSelect, PgLinesOf
<1>4. b \in {PgNobody} \cup PgHandlers
  OBVIOUS
<1> QED
  BY <1>2, <1>3, <1>4, PgAskStep

(* The record of a handler that has gone to a step. *)
LEMMA PgStepFits ==
  ASSUME NEW step \in {"idle", "call", "fetch", "hook"}
  PROVE  /\ [PgIdle EXCEPT !.step = step] \in PgJobs /\ [PgIdle EXCEPT !.step = step].step = step
         /\ Len([PgIdle EXCEPT !.step = step].snap) = 0
<1>1. <<>> \in Seq(PgStatus) /\ Len(<<>>) = 0
  OBVIOUS
<1> QED
  BY <1>1 DEF PgIdle, PgJobs

(* A handler goes from a step to another while the server and the log rest. *)
LEMMA PgGoesStep ==
  ASSUME PgInv, NEW b \in PgHandlers, NEW step \in {"idle", "call", "fetch", "hook"},
         pgJob' = PgStep(b, step), pgJob[b].step # "logs",
         pgDeps' \in Seq(PgStatus), Len(pgDeps) <= Len(pgDeps'),
         pgView' \in Seq(PgStatus), Len(pgView') <= Len(pgDeps'), pgSel' \in 0 .. Len(pgDeps'),
         pgLines' = pgLines, pgAsked' = pgAsked, pgMissed' = pgMissed,
         pgFlag' \in PgFlags, pgFlag'.logs = pgFlag.logs,
         \/ step \in PgLoads \/ pgFlag'.error
         \/ (pgSel' = pgSel /\ pgFlag'.error = pgFlag.error /\ pgJob[b].step \notin PgLoads),
         pgFlag'.loading =>
           step \in PgLoads \/ (pgFlag.loading /\ pgJob[b].step \notin PgLoads)
  PROVE  PgInv'
<1> DEFINE job == [PgIdle EXCEPT !.step = step]
<1>1. Len(pgDeps') \in Nat
  OBVIOUS
<1>2. job \in PgJobs /\ job.step = step /\ Len(job.snap) <= Len(pgDeps') /\ step # "logs"
  <2>1. job \in PgJobs /\ job.step = step /\ Len(job.snap) = 0
    BY PgStepFits
  <2> HIDE DEF job
  <2> QED
    BY <1>1, <2>1
<1>3. pgJob' = [pgJob EXCEPT ![b] = job]
  BY DEF PgStep
<1> HIDE DEF job
<1> QED
  BY <1>2, <1>3, PgJobStep

LEMMA PgReadKeeps == ASSUME PgInv, NEW b \in PgHandlers, PgRead(b) PROVE PgInv'
<1> DEFINE job == [step |-> "read", snap |-> pgDeps]
<1>1. /\ pgJob[b].step = "fetch" /\ pgJob' = [pgJob EXCEPT ![b] = job]
      /\ pgDeps' = pgDeps /\ pgView' = pgView /\ pgSel' = pgSel /\ pgLines' = pgLines
      /\ pgAsked' = pgAsked /\ pgMissed' = pgMissed /\ pgFlag' = pgFlag
  BY DEF PgRead, PgServer, PgLog
<1>2. /\ PgTypes /\ pgDeps \in Seq(PgStatus) /\ Len(pgDeps) \in Nat /\ pgFlag \in PgFlags
      /\ pgView \in Seq(PgStatus) /\ Len(pgView) <= Len(pgDeps) /\ pgSel \in 0 .. Len(pgDeps)
  BY PgTypesOf DEF PgInv, PgTypes
<1>3. job \in PgJobs /\ job.step = "read" /\ job.snap = pgDeps /\ "read" \in PgLoads
  BY <1>2 DEF PgJobs, PgLoads
<1>4. Len(pgDeps) <= Len(pgDeps')
  BY <1>1, <1>2
<1> HIDE DEF job
<1> QED
  BY <1>1, <1>2, <1>3, <1>4, PgJobStep

LEMMA PgQuietKeeps ==
  ASSUME PgInv, NEW b \in PgHandlers,
         PgFetchFails(b) \/ PgClick(b) \/ PgCalled(b)
  PROVE  PgInv'
<1>1. /\ pgDeps' = pgDeps /\ pgView' = pgView /\ pgSel' = pgSel /\ pgLines' = pgLines
      /\ pgAsked' = pgAsked /\ pgMissed' = pgMissed
  BY DEF PgFetchFails, PgClick, PgCalled, PgServer, PgLog
<1>2. /\ PgTypes /\ pgDeps \in Seq(PgStatus) /\ Len(pgDeps) \in Nat /\ pgFlag \in PgFlags
      /\ pgView \in Seq(PgStatus) /\ Len(pgView) <= Len(pgDeps) /\ pgSel \in 0 .. Len(pgDeps)
  BY PgTypesOf DEF PgInv, PgTypes
<1>3. /\ Len(pgDeps) <= Len(pgDeps') /\ Len(pgView') <= Len(pgDeps') /\ pgSel' \in 0 .. Len(pgDeps')
      /\ pgDeps' \in Seq(PgStatus) /\ pgView' \in Seq(PgStatus)
  BY <1>1, <1>2
<1>4. CASE PgFetchFails(b)
  <2>1. /\ pgJob' = PgStep(b, "idle") /\ pgJob[b].step # "logs"
        /\ pgFlag' \in PgFlags /\ pgFlag'.logs = pgFlag.logs /\ pgFlag'.error /\ ~pgFlag'.loading
    BY <1>2, <1>4 DEF PgFetchFails, PgAfterFailure, PgFlags
  <2> QED
    BY <1>1, <1>3, <2>1, PgGoesStep
<1>5. CASE PgClick(b)
  <2>1. pgJob' = PgStep(b, "call") /\ pgJob[b].step = "idle" /\ pgFlag' = pgFlag /\ pgFlag' \in PgFlags
    BY <1>2, <1>5 DEF PgClick
  <2>2. pgJob[b].step \notin PgLoads
    BY <2>1 DEF PgLoads
  <2> QED
    BY <1>1, <1>3, <2>1, <2>2, PgGoesStep
<1>6. CASE PgCalled(b)
  <2>1. pgJob[b].step = "call" /\ pgJob[b].step \notin PgLoads
    BY <1>6 DEF PgCalled, PgLoads
  <2>2. CASE PgFetch(b)
    <3>1. /\ pgJob' = PgStep(b, "fetch") /\ pgFlag' \in PgFlags /\ pgFlag'.logs = pgFlag.logs
          /\ "fetch" \in PgLoads
      BY <1>2, <2>2 DEF PgFetch, PgFlags, PgLoads
    <3> QED
      BY <1>1, <1>3, <2>1, <3>1, PgGoesStep
  <2>3. CASE PgGivesUp(b)
    <3>1. pgJob' = PgStep(b, "idle") /\ pgFlag' = pgFlag /\ pgFlag' \in PgFlags
      BY <1>2, <2>3 DEF PgGivesUp
    <3> QED
      BY <1>1, <1>3, <2>1, <3>1, PgGoesStep
  <2> QED
    BY <1>6, <2>2, <2>3 DEF PgCalled
<1> QED
  BY <1>4, <1>5, <1>6

LEMMA PgApplyKeeps ==
  ASSUME PgInv, NEW b \in PgHandlers, PgApply(b) \/ PgHooked(b)
  PROVE  PgInv'
<1>1. /\ PgTypes /\ pgDeps \in Seq(PgStatus) /\ Len(pgDeps) \in Nat /\ pgFlag \in PgFlags
      /\ pgJob[b].snap \in Seq(PgStatus) /\ Len(pgJob[b].snap) <= Len(pgDeps)
      /\ pgView \in Seq(PgStatus) /\ Len(pgView) <= Len(pgDeps) /\ pgSel \in 0 .. Len(pgDeps)
  BY PgTypesOf DEF PgInv, PgTypes, PgJobs
<1>2. pgDeps' = pgDeps
  BY DEF PgApply, PgHooked, PgServer
<1>3. CASE PgApply(b) /\ pgHook
  <2>1. /\ pgJob[b].step = "read" /\ pgJob' = PgStep(b, "hook") /\ pgView' = pgJob[b].snap
        /\ pgSel' = pgSel /\ pgLines' = pgLines /\ pgAsked' = pgAsked /\ pgMissed' = pgMissed
        /\ pgFlag' = [pgFlag EXCEPT !.loaded = TRUE]
    BY <1>3 DEF PgApply, PgLog
  <2>2. pgFlag' \in PgFlags /\ pgFlag'.logs = pgFlag.logs /\ "hook" \in PgLoads
    BY <1>1, <2>1 DEF PgFlags, PgLoads
  <2>3. /\ Len(pgDeps) <= Len(pgDeps') /\ Len(pgView') <= Len(pgDeps') /\ pgSel' \in 0 .. Len(pgDeps')
        /\ pgDeps' \in Seq(PgStatus) /\ pgView' \in Seq(PgStatus)
    BY <1>1, <1>2, <2>1
  <2> QED
    BY <2>1, <2>2, <2>3, PgGoesStep
<1>4. CASE PgApply(b) /\ ~pgHook
  <2>1. pgJob[b].step = "read" /\ PgSelect(b, pgJob[b].snap) /\ pgView' = pgJob[b].snap
    BY <1>4 DEF PgApply
  <2> QED
    BY <1>1, <1>2, <2>1, PgSelectStep
<1>5. CASE PgHooked(b)
  <2>1. pgJob[b].step = "hook" /\ PgSelect(b, pgView) /\ pgView' = pgView
    BY <1>5 DEF PgHooked
  <2> QED
    BY <1>1, <1>2, <2>1, PgSelectStep
<1> QED
  BY <1>3, <1>4, <1>5

(* A deployment more. *)
LEMMA PgQueuedGrows ==
  ASSUME PgInv, PgQueued
  PROVE  pgDeps' \in Seq(PgStatus) /\ Len(pgDeps') = Len(pgDeps) + 1
<1>1. pgDeps \in Seq(PgStatus) /\ "ongoing" \in PgStatus
  BY DEF PgInv, PgTypes, PgStatus
<1>2. pgDeps' = Append(pgDeps, "ongoing")
  BY DEF PgQueued
<1> QED
  BY <1>1, <1>2

LEMMA PgDeployedKeeps == ASSUME PgInv, PgDeployed PROVE PgInv'
<1>1. /\ PgTypes /\ pgDeps \in Seq(PgStatus) /\ Len(pgDeps) \in Nat /\ pgFlag \in PgFlags /\ Len(pgView) \in Nat
      /\ pgView \in Seq(PgStatus) /\ Len(pgView) <= Len(pgDeps) /\ pgSel \in 0 .. Len(pgDeps)
  BY PgTypesOf DEF PgInv, PgTypes
<1>2. /\ pgJob["deploy"].step = "call" /\ pgView' = pgView /\ pgLines' = pgLines
      /\ pgAsked' = pgAsked /\ pgMissed' = pgMissed /\ "deploy" \in PgHandlers
      /\ pgJob["deploy"].step \notin PgLoads
  BY PgHandlersFacts DEF PgDeployed, PgLoads
<1>3. CASE PgQueued /\ PgFetch("deploy") /\ pgSel' = Len(pgDeps')
  <2>1. /\ pgJob' = PgStep("deploy", "fetch") /\ pgFlag' \in PgFlags /\ pgFlag'.logs = pgFlag.logs
        /\ "fetch" \in PgLoads
    BY <1>1, <1>3 DEF PgFetch, PgFlags, PgLoads
  <2>2. pgDeps' \in Seq(PgStatus) /\ Len(pgDeps') = Len(pgDeps) + 1
    BY <1>3, PgQueuedGrows
  <2>3. Len(pgDeps) <= Len(pgDeps') /\ Len(pgView') <= Len(pgDeps') /\ pgSel' \in 0 .. Len(pgDeps')
    BY <1>1, <1>2, <1>3, <2>2
  <2> QED
    BY <1>1, <1>2, <2>1, <2>2, <2>3, PgGoesStep
<1>4. CASE (PgQueued \/ pgDeps' = pgDeps) /\ PgGivesUp("deploy") /\ pgSel' = pgSel
  <2>1. pgJob' = PgStep("deploy", "idle") /\ pgFlag' = pgFlag /\ pgFlag' \in PgFlags
    BY <1>1, <1>4 DEF PgGivesUp
  <2>2. pgDeps' \in Seq(PgStatus) /\ Len(pgDeps') \in {Len(pgDeps), Len(pgDeps) + 1}
    BY <1>1, <1>4, PgQueuedGrows
  <2>3. Len(pgDeps) <= Len(pgDeps') /\ Len(pgView') <= Len(pgDeps') /\ pgSel' \in 0 .. Len(pgDeps')
    BY <1>1, <1>2, <1>4, <2>2
  <2> QED
    BY <1>1, <1>2, <1>4, <2>1, <2>2, <2>3, PgGoesStep
<1> QED
  BY <1>3, <1>4 DEF PgDeployed

LEMMA PgServerKeeps == ASSUME PgInv, PgEnds \/ PgOtherDeploy PROVE PgInv'
<1>1. /\ pgView' = pgView /\ pgSel' = pgSel /\ pgLines' = pgLines /\ pgJob' = pgJob
      /\ pgFlag' = pgFlag /\ pgMissed' = pgMissed /\ pgAsked' = pgAsked
  BY DEF PgEnds, PgOtherDeploy, PgLog
<1>2. /\ PgTypes /\ pgDeps \in Seq(PgStatus) /\ Len(pgDeps) \in Nat /\ Len(pgView) \in Nat
      /\ \A h \in PgHandlers : Len(pgJob[h].snap) \in Nat
  BY PgTypesOf DEF PgInv
<1>3. pgDeps' \in Seq(PgStatus) /\ Len(pgDeps') \in {Len(pgDeps), Len(pgDeps) + 1}
  <2>1. CASE PgEnds
    <3>1. PICK d \in DOMAIN pgDeps : pgDeps' = [pgDeps EXCEPT ![d] = "ended"]
      BY <2>1 DEF PgEnds
    <3>2. "ended" \in PgStatus
      BY DEF PgStatus
    <3> QED
      BY <1>2, <3>1, <3>2
  <2>2. CASE PgOtherDeploy
    BY <2>2, PgQueuedGrows DEF PgOtherDeploy
  <2> QED
    BY <2>1, <2>2
<1>4. PgTypes'
  <2>1. Len(pgDeps) <= Len(pgDeps') /\ Len(pgDeps') \in Nat
    BY <1>2, <1>3
  <2>2. 0 .. Len(pgDeps) \subseteq 0 .. Len(pgDeps') /\ 1 .. Len(pgDeps) \subseteq 1 .. Len(pgDeps')
    BY <1>2, <2>1
  <2>3. /\ PgLinesOf(Len(pgDeps)) \subseteq PgLinesOf(Len(pgDeps'))
        /\ PgAsksOf(Len(pgDeps)) \subseteq PgAsksOf(Len(pgDeps'))
    BY <2>2 DEF PgLinesOf, PgAsksOf
  <2>4. /\ pgSel \in 0 .. Len(pgDeps') /\ pgLines \in PgLinesOf(Len(pgDeps'))
        /\ pgAsked \in SUBSET PgAsksOf(Len(pgDeps'))
    BY <2>2, <2>3 DEF PgInv, PgTypes
  <2>5. Len(pgView) <= Len(pgDeps') /\ \A h \in PgHandlers : Len(pgJob[h].snap) <= Len(pgDeps')
    BY <1>2, <2>1 DEF PgTypes
  <2> QED
    BY <1>1, <1>3, <2>4, <2>5 DEF PgInv, PgTypes
<1>5. PgOneAsk' /\ PgAskOfJob' /\ PgLoadingSound'
  BY <1>1 DEF PgInv, PgOneAsk, PgAskOfJob, PgLoadingSound
<1>6. LinesAreOfSelected' /\ PgAsksFit'
  BY <1>1 DEF PgInv, LinesAreOfSelected, PgAsksFit, PgFits
<1> QED
  BY <1>4, <1>5, <1>6 DEF PgInv

LEMMA PgInvNext == PgInv /\ [PgNext]_PgVars => PgInv'
<1> SUFFICES ASSUME PgInv, [PgNext]_PgVars PROVE PgInv'
  OBVIOUS
<1>1. CASE PgPick \/ PgRefresh \/ PgPoll
  BY <1>1, PgPickKeeps
<1>2. CASE \E b \in PgHandlers : PgRead(b) \/ PgApply(b) \/ PgHooked(b)
  BY <1>2, PgReadKeeps, PgApplyKeeps
<1>3. CASE \E b \in PgHandlers : PgFetchFails(b)
  BY <1>3, PgQuietKeeps
<1>4. CASE \E b \in PgButtons : PgClick(b) \/ PgCalled(b)
  BY <1>4, PgQuietKeeps, PgHandlersFacts
<1>5. CASE PgDeployed
  BY <1>5, PgDeployedKeeps
<1>6. CASE \E a \in pgAsked : PgLogsRead(a) \/ PgLogsArrive(a) \/ PgLogsFail(a)
  BY <1>6, PgLogsReadKeeps, PgLogsArriveKeeps, PgLogsFailKeeps
<1>7. CASE PgEnds \/ PgOtherDeploy
  BY <1>7, PgServerKeeps
<1>8. CASE UNCHANGED PgVars
  BY <1>8 DEF PgVars, PgInv, PgTypes, PgOneAsk, PgAskOfJob, PgLoadingSound, LinesAreOfSelected, PgAsksFit, PgFits
<1> QED
  BY <1>1, <1>2, <1>3, <1>4, <1>5, <1>6, <1>7, <1>8 DEF PgNext, PgAnswer, PgLogAnswer

(* What the invariant says of the page. *)
LEMMA PgInvIsSound == PgInv => PageIsSound
<1> SUFFICES ASSUME PgInv PROVE PageIsSound
  OBVIOUS
<1>1. pgLines.of \in 0 .. Len(pgDeps)
  BY DEF PgInv, PgTypes, PgLinesOf
<1>2. pgFlag.loading => \E b \in PgHandlers : pgJob[b].step \in {"fetch", "read", "hook", "logs"}
  BY DEF PgInv, PgLoadingSound, PgLoads
<1>3. PgTypeOK
  BY <1>1, <1>2 DEF PgInv, PgTypes, PgTypeOK
<1> QED
  BY <1>3 DEF PgInv, PageIsSound

(* PageIsSound (ServiceDetail.vue:745-830, 1031-1066). *)
THEOREM PageIsSoundHolds == PgSpec => []PageIsSound
<1>1. PgInit => PgInv
  BY PgInvInit
<1>2. PgInv /\ [PgNext]_PgVars => PgInv'
  BY PgInvNext
<1>3. PgInv => PageIsSound
  BY PgInvIsSound
<1> QED
  BY <1>1, <1>2, <1>3, PTL DEF PgSpec

-----------------------------------------------------------------------------
(***************************************************************************)
(* Siteyctl                                                                *)
(***************************************************************************)

(* A row, a deployment, what a poll saw and the record of the run. *)
CtlRows == [name : CtlNames, active : BOOLEAN, routes : SUBSET CtlRoutes]
CtlStatuses == {"queued", "building", "success", "failed", "gone"}
CtlDeps == [svc : Nat, status : CtlStatuses]
CtlViews == [active : BOOLEAN, routes : SUBSET CtlRoutes, dep : Nat, status : CtlStatuses \cup {"none"}]
CtlAnswers == [cert : BOOLEAN, page : CtlPages, deployed : BOOLEAN]
CtlSeenSet == UNION {[R -> CtlAnswers] : R \in SUBSET CtlRoutes}
CtlLive == {"status", "status wait", "deploy wait"}
CtlPolling == {"describe", "deployment", "check"}
CtlEarly == {"idle", "resolve", "mutate", "confirm", "deleting", "preflight", "create"}
CtlRuns ==
  [cmd : CtlCommands \cup {"none"}, step : CtlPolling \cup CtlEarly \cup {"done"},
   ref : CtlRefs \cup {[id |-> 0, name |-> CtlNoName]}, word : CtlNames \cup {CtlNoName},
   route : SUBSET CtlRoutes, svc : Nat, dep : Nat, view : CtlViews, seen : CtlSeenSet,
   reports : Seq(CtlStates), fails : Nat, made : Nat, exit : CtlExits]

(* The table of services keeps names and routes apart. *)
CtlTableOK ==
  /\ ctlNext \in Nat \ {0} /\ DOMAIN ctlSvc \subseteq 1 .. ctlNext - 1
  /\ ctlSvc \in [DOMAIN ctlSvc -> CtlRows]
  /\ \A i, j \in DOMAIN ctlSvc :
       i # j => /\ ctlSvc[i].name # ctlSvc[j].name
                /\ ctlSvc[i].routes \cap ctlSvc[j].routes = {}

(* Which command is at which step, and what it knows there. *)
CtlFresh ==
  /\ ctl.view.active = FALSE /\ ctl.view.routes = {} /\ ctl.view.dep = 0 /\ ctl.view.status = "none"
  /\ Len(ctl.reports) = 0 /\ ctl.dep = 0 /\ ctl.fails = 0 /\ DOMAIN ctl.seen = {}
CtlEarlyFits ==
  /\ ctl.step \in CtlEarly => CtlFresh
  /\ ctl.step \notin {"idle", "done"} => ctl.word \in CtlNames
  /\ ctl.step = "mutate" => ctl.cmd \notin {"status", "status wait"}
  /\ ctl.step \in {"confirm", "deleting"} => ctl.cmd = "delete"
  /\ ctl.step \in {"preflight", "create"} => ctl.cmd = "create"
CtlPollFits ==
  /\ ctl.step \in CtlPolling =>
       /\ ctl.cmd \in CtlLive /\ (ctl.dep # 0 <=> ctl.cmd = "deploy wait") /\ Len(ctl.reports) < CtlPolls
  /\ ctl.step = "deployment" => ctl.dep # 0
  /\ ctl.step = "check" /\ ctl.dep # 0 => ctl.view.dep = ctl.dep
  /\ ctl.dep # 0 => ctl.dep \in DOMAIN ctlDep

(* What was seen of a deployment that has ended stays true. *)
CtlViewSound ==
  /\ ctl.view.dep # 0 => ctl.view.dep \in DOMAIN ctlDep
  /\ ctl.view.status # "none" => ctl.view.dep # 0
  /\ ctl.view.status \in {"success", "failed"} => ctlDep[ctl.view.dep].status \in {ctl.view.status, "gone"}
CtlSeenSound == DOMAIN ctl.seen \subseteq ctl.view.routes /\ \A r \in DOMAIN ctl.seen : ctl.seen[r].deployed

(* routeFailures counts the polls that failed last. *)
CtlCounted ==
  /\ Len(ctl.reports) <= CtlPolls /\ ctl.fails <= Len(ctl.reports)
  /\ \A k \in Nat : k < ctl.fails => ctl.reports[Len(ctl.reports) - k] = "fail"

(* How a run has ended. *)
CtlEnded ==
  /\ ctl.step # "done" => ctl.exit = 0 /\ ctl.made = 0
  /\ ctl.made # 0 => ctl.exit # 3
  /\ ctl.step = "done" /\ ctl.exit = 1 /\ ctl.cmd \in {"status wait", "deploy wait"} /\ Len(ctl.reports) > 0
       /\ CtlHard(ctl.view) = "pass" => ctl.fails >= CtlFailAfter
  /\ ctl.step = "done" /\ ctl.exit = 1 /\ ctl.cmd = "deploy wait" /\ ctl.view.active
       => ctl.dep # 0 /\ ctl.view.dep = ctl.dep

CtlInv ==
  /\ CtlTableOK /\ ctlDep \in Seq(CtlDeps) /\ ctl \in CtlRuns
  /\ CtlEarlyFits /\ CtlPollFits /\ CtlViewSound /\ CtlSeenSound /\ CtlCounted /\ CtlEnded /\ LiveIsProven

(* Deployments are added and move on; what has ended stays or goes with its
   service. *)
CtlDepGoesOn ==
  /\ ctlDep' \in Seq(CtlDeps) /\ DOMAIN ctlDep \subseteq DOMAIN ctlDep'
  /\ \A k \in DOMAIN ctlDep : ctlDep[k].status \in {"success", "failed", "gone"} =>
       ctlDep'[k].status \in {ctlDep[k].status, "gone"}

-----------------------------------------------------------------------------
(* The table *)

LEMMA CtlBounds == CtlPolls \in Nat \ {0} /\ CtlFailAfter \in Nat \ {0} /\ 0 < CtlPolls
<1>1. CtlPolls \in Nat \ {0} /\ CtlFailAfter \in Nat \ {0}
  BY CtlAssumption
<1> QED
  BY <1>1

LEMMA CtlCommandNames == "none" \notin CtlCommands
BY CtlAssumption

LEMMA CtlTableStores ==
  ASSUME CtlTableOK, NEW name \in CtlNames, NEW routes \in SUBSET CtlRoutes,
         name \notin CtlTakenNames, routes \cap CtlTakenRoutes = {}, CtlStores(name, routes)
  PROVE  CtlTableOK'
<1> DEFINE row == [name |-> name, active |-> TRUE, routes |-> routes]
<1>0. /\ ctlNext \in Nat \ {0} /\ DOMAIN ctlSvc \subseteq 1 .. ctlNext - 1
  BY DEF CtlTableOK
<1>1. /\ ctlNext' = ctlNext + 1
      /\ ctlSvc' = [i \in DOMAIN ctlSvc \cup {ctlNext} |-> IF i = ctlNext THEN row ELSE ctlSvc[i]]
  BY DEF CtlStores
<1>2. row \in CtlRows /\ row.name = name /\ row.routes = routes
  BY DEF CtlRows
<1> HIDE DEF row
<1>3. /\ DOMAIN ctlSvc' = DOMAIN ctlSvc \cup {ctlNext} /\ ctlSvc'[ctlNext] = row
      /\ \A i \in DOMAIN ctlSvc : ctlSvc'[i] = ctlSvc[i]
  <2>1. ctlNext \notin DOMAIN ctlSvc
    BY <1>0
  <2> QED
    BY <1>1, <2>1
<1>4. ctlSvc' \in [DOMAIN ctlSvc' -> CtlRows]
  BY <1>1, <1>2 DEF CtlTableOK
<1>5. DOMAIN ctlSvc' \subseteq 1 .. ctlNext' - 1 /\ ctlNext' \in Nat \ {0} /\ ctlNext \notin DOMAIN ctlSvc
  BY <1>0, <1>1, <1>3
<1>6. ASSUME NEW i \in DOMAIN ctlSvc
      PROVE  ctlSvc[i].name # name /\ ctlSvc[i].routes \cap routes = {}
  BY DEF CtlTakenNames, CtlTakenRoutes
<1>7. ASSUME NEW i \in DOMAIN ctlSvc', NEW j \in DOMAIN ctlSvc', i # j
      PROVE  ctlSvc'[i].name # ctlSvc'[j].name /\ ctlSvc'[i].routes \cap ctlSvc'[j].routes = {}
  <2>1. CASE i = ctlNext
    BY <1>2, <1>3, <1>6, <1>7, <2>1
  <2>2. CASE j = ctlNext
    BY <1>2, <1>3, <1>6, <1>7, <2>2
  <2>3. CASE i # ctlNext /\ j # ctlNext
    BY <1>3, <1>7, <2>3 DEF CtlTableOK
  <2> QED
    BY <2>1, <2>2, <2>3
<1> QED
  BY <1>4, <1>5, <1>7 DEF CtlTableOK

LEMMA CtlTableEdit ==
  ASSUME CtlTableOK, NEW i \in DOMAIN ctlSvc, NEW row \in CtlRows,
         ctlSvc' = [ctlSvc EXCEPT ![i] = row], ctlNext' = ctlNext,
         \A j \in DOMAIN ctlSvc \ {i} : ctlSvc[j].name # row.name /\ ctlSvc[j].routes \cap row.routes = {}
  PROVE  CtlTableOK'
<1>1. /\ DOMAIN ctlSvc' = DOMAIN ctlSvc /\ ctlSvc'[i] = row
      /\ \A j \in DOMAIN ctlSvc \ {i} : ctlSvc'[j] = ctlSvc[j]
      /\ ctlSvc' \in [DOMAIN ctlSvc' -> CtlRows]
  BY DEF CtlTableOK
<1>2. ASSUME NEW j \in DOMAIN ctlSvc', NEW k \in DOMAIN ctlSvc', j # k
      PROVE  ctlSvc'[j].name # ctlSvc'[k].name /\ ctlSvc'[j].routes \cap ctlSvc'[k].routes = {}
  <2>1. CASE j = i
    BY <1>1, <1>2, <2>1
  <2>2. CASE k = i
    BY <1>1, <1>2, <2>2
  <2>3. CASE j # i /\ k # i
    BY <1>1, <1>2, <2>3 DEF CtlTableOK
  <2> QED
    BY <2>1, <2>2, <2>3
<1> QED
  BY <1>1, <1>2 DEF CtlTableOK

LEMMA CtlTableWithout ==
  ASSUME CtlTableOK, ctlDep \in Seq(CtlDeps), NEW i, CtlWithout(i), ctlNext' = ctlNext
  PROVE  CtlTableOK' /\ CtlDepGoesOn
<1>1. CtlTableOK'
  BY DEF CtlTableOK, CtlWithout
<1>2. CtlDepGoesOn
  <2>1. /\ DOMAIN ctlDep' = DOMAIN ctlDep
        /\ \A k \in DOMAIN ctlDep : ctlDep'[k] \in {ctlDep[k], [ctlDep[k] EXCEPT !.status = "gone"]}
        /\ ctlDep' = [k \in DOMAIN ctlDep |-> ctlDep'[k]]
    BY DEF CtlWithout
  <2>2. ASSUME NEW k \in DOMAIN ctlDep
        PROVE  /\ ctlDep'[k] \in CtlDeps
               /\ ctlDep'[k].status \in {ctlDep[k].status, "gone"}
    <3>1. ctlDep[k] \in CtlDeps
      OBVIOUS
    <3>2. ctlDep'[k] \in {ctlDep[k], [ctlDep[k] EXCEPT !.status = "gone"]}
      BY <2>1
    <3> QED
      BY <3>1, <3>2 DEF CtlDeps, CtlStatuses
  <2>3. ctlDep' \in Seq(CtlDeps)
    <3>1. Len(ctlDep) \in Nat /\ DOMAIN ctlDep = 1 .. Len(ctlDep)
      OBVIOUS
    <3> QED
      BY <2>1, <2>2, <3>1
  <2> QED
    BY <2>1, <2>2, <2>3 DEF CtlDepGoesOn
<1> QED
  BY <1>1, <1>2

-----------------------------------------------------------------------------
(* The run *)

LEMMA CtlInvInit == CtlInit => CtlInv
<1> SUFFICES ASSUME CtlInit PROVE CtlInv
  OBVIOUS
<1>1. PICK n \in CtlNames, R \in SUBSET CtlRoutes :
        ctlSvc = [i \in {1} |-> [name |-> n, active |-> TRUE, routes |-> R]]
  BY DEF CtlInit
<1>2. CtlTableOK
  <2> DEFINE row == [name |-> n, active |-> TRUE, routes |-> R]
  <2>1. row \in CtlRows
    BY DEF CtlRows
  <2> HIDE DEF row
  <2>2. ctlSvc = [i \in {1} |-> row]
    BY <1>1 DEF row
  <2>3. ctlNext = 2
    BY DEF CtlInit
  <2> QED
    BY <2>1, <2>2, <2>3 DEF CtlTableOK
<1> DEFINE none == <<>>
<1>3. none \in Seq(CtlDeps) /\ none \in Seq(CtlStates) /\ Len(none) = 0
  OBVIOUS
<1>4. none \in CtlSeenSet /\ DOMAIN none = {}
  <2>1. none \in [{} -> CtlAnswers] /\ DOMAIN none = {}
    OBVIOUS
  <2>2. {} \in SUBSET CtlRoutes
    OBVIOUS
  <2> QED
    BY <2>1, <2>2 DEF CtlSeenSet
<1>5. ctlDep = none
  BY DEF CtlInit
<1>6. CtlNoView \in CtlViews /\ CtlNoView.active = FALSE /\ CtlNoView.routes = {} /\ CtlNoView.dep = 0
      /\ CtlNoView.status = "none"
  BY DEF CtlNoView, CtlViews
<1>7. ctl = [cmd |-> "none", step |-> "idle", ref |-> [id |-> 0, name |-> CtlNoName], word |-> CtlNoName,
             route |-> {}, svc |-> 0, dep |-> 0, view |-> CtlNoView, seen |-> none, reports |-> none,
             fails |-> 0, made |-> 0, exit |-> 0]
  BY DEF CtlInit, CtlIdle
<1> HIDE DEF none
<1>8. ctl \in CtlRuns
  <2> DEFINE ref == [id |-> 0, name |-> CtlNoName]
  <2>1. ref \in CtlRefs \cup {ref} /\ CtlNoName \in CtlNames \cup {CtlNoName} /\ {} \in SUBSET CtlRoutes
    OBVIOUS
  <2>2. "none" \in CtlCommands \cup {"none"} /\ "idle" \in CtlPolling \cup CtlEarly \cup {"done"}
    BY DEF CtlEarly
  <2>3. 0 \in Nat /\ 0 \in CtlExits
    BY DEF CtlExits
  <2>4. ctl = [cmd |-> "none", step |-> "idle", ref |-> ref, word |-> CtlNoName, route |-> {}, svc |-> 0,
               dep |-> 0, view |-> CtlNoView, seen |-> none, reports |-> none, fails |-> 0,
               made |-> 0, exit |-> 0]
    BY <1>7
  <2>5. CtlRuns = [cmd : CtlCommands \cup {"none"}, step : CtlPolling \cup CtlEarly \cup {"done"},
                   ref : CtlRefs \cup {ref}, word : CtlNames \cup {CtlNoName}, route : SUBSET CtlRoutes,
                   svc : Nat, dep : Nat, view : CtlViews, seen : CtlSeenSet, reports : Seq(CtlStates),
                   fails : Nat, made : Nat, exit : CtlExits]
    BY DEF CtlRuns
  <2> HIDE DEF ref
  <2> QED
    BY <1>3, <1>4, <1>6, <2>1, <2>2, <2>3, <2>4, <2>5
<1>9. CtlFresh
  BY <1>3, <1>4, <1>6, <1>7 DEF CtlFresh
<1>10. CtlEarlyFits /\ CtlPollFits /\ CtlViewSound /\ CtlSeenSound /\ CtlEnded
  BY <1>4, <1>6, <1>7, <1>9
     DEF CtlEarlyFits, CtlPollFits, CtlViewSound, CtlSeenSound, CtlEnded, CtlPolling
<1>11. CtlCounted /\ LiveIsProven
  <2>1. ctl.fails = 0 /\ Len(ctl.reports) = 0
    BY <1>3, <1>7
  <2>2. CtlCounted
    BY <2>1, CtlBounds DEF CtlCounted
  <2> QED
    BY <1>7, <2>2 DEF LiveIsProven
<1> QED
  BY <1>2, <1>3, <1>5, <1>8, <1>10, <1>11 DEF CtlInv

(* Others act, and deployments go on. *)
LEMMA CtlOthersStep ==
  ASSUME CtlInv, CtlTableOK', CtlDepGoesOn, ctl' = ctl
  PROVE  CtlInv'
<1>1. CtlEarlyFits' /\ CtlSeenSound' /\ CtlCounted' /\ CtlEnded' /\ LiveIsProven'
  BY DEF CtlInv, CtlEarlyFits, CtlFresh, CtlSeenSound, CtlCounted, CtlEnded, LiveIsProven
<1>2. CtlPollFits' /\ CtlViewSound'
  BY DEF CtlInv, CtlDepGoesOn, CtlPollFits, CtlViewSound
<1> QED
  BY <1>1, <1>2 DEF CtlInv, CtlDepGoesOn

(* The run ends before any poll, or finds its service or deployment gone. *)
LEMMA CtlExitStep ==
  ASSUME CtlInv, CtlTableOK', CtlDepGoesOn, NEW code \in CtlExits, CtlExit(code),
         code = 0 => ctl.cmd \notin CtlLive, code = 1 => ctl.step \in CtlEarly, ctl.step # "done"
  PROVE  CtlInv'
<1>1. ctl \in CtlRuns /\ ctl.made = 0
  BY DEF CtlInv, CtlEnded
<1>2. /\ ctl' \in CtlRuns /\ ctl'.step = "done" /\ ctl'.exit = code
      /\ ctl'.cmd = ctl.cmd /\ ctl'.dep = ctl.dep /\ ctl'.view = ctl.view /\ ctl'.seen = ctl.seen
      /\ ctl'.reports = ctl.reports /\ ctl'.fails = ctl.fails /\ ctl'.made = ctl.made
  BY <1>1 DEF CtlExit, CtlRuns
<1>3. CtlEarlyFits' /\ CtlSeenSound' /\ CtlCounted' /\ LiveIsProven'
  BY <1>2 DEF CtlInv, CtlEarlyFits, CtlEarly, CtlSeenSound, CtlCounted, LiveIsProven, CtlLive
<1>4. CtlPollFits'
  BY <1>2 DEF CtlInv, CtlDepGoesOn, CtlPollFits, CtlPolling
<1>6. CtlViewSound'
  BY <1>2 DEF CtlInv, CtlDepGoesOn, CtlViewSound
<1>5. CtlEnded'
  <2>1. code = 1 => ctl.view.active = FALSE /\ Len(ctl.reports) = 0
    BY DEF CtlInv, CtlEarlyFits, CtlFresh
  <2> QED
    <3>1. code = 1 => ctl'.view.active = FALSE /\ ~(Len(ctl'.reports) > 0)
      <4>1. Len(ctl.reports) = 0 => ~(Len(ctl.reports) > 0)
        OBVIOUS
      <4> QED
        BY <1>2, <2>1, <4>1, Zenon
    <3> QED
      BY <1>1, <1>2, <3>1, Zenon DEF CtlEnded
<1> QED
  BY <1>2, <1>3, <1>4, <1>5, <1>6 DEF CtlInv, CtlDepGoesOn

(* A step of a run that has not polled yet. *)
LEMMA CtlEarlyStep ==
  ASSUME CtlInv, CtlTableOK', CtlDepGoesOn, ctl' \in CtlRuns, ctl.step \in CtlEarly,
         ctl'.step \in CtlEarly \cup {"describe"},
         ctl'.view = ctl.view, ctl'.reports = ctl.reports, ctl'.dep = ctl.dep, ctl'.fails = ctl.fails,
         ctl'.seen = ctl.seen, ctl'.exit = 0, ctl'.made = 0,
         ctl'.step # "idle" => ctl'.word \in CtlNames,
         ctl'.step = "mutate" => ctl'.cmd \notin {"status", "status wait"},
         ctl'.step \in {"confirm", "deleting"} => ctl'.cmd = "delete",
         ctl'.step \in {"preflight", "create"} => ctl'.cmd = "create",
         ctl'.step = "describe" => ctl'.cmd \in {"status", "status wait"}
  PROVE  CtlInv'
<1>1. CtlFresh /\ CtlFresh'
  BY DEF CtlInv, CtlEarlyFits, CtlFresh
<1>2. ctl'.step \notin {"done", "deployment", "check"}
  BY DEF CtlEarly
<1>3. CtlEarlyFits'
  BY <1>1, <1>2 DEF CtlEarlyFits
<1>4. CtlPollFits'
  <2>1. Len(ctl'.reports) = 0 /\ 0 < CtlPolls /\ ctl'.dep = 0
    <3>1. Len(ctl'.reports) = 0 /\ ctl'.dep = 0
      BY <1>1, Zenon DEF CtlFresh
    <3>2. 0 < CtlPolls
      BY CtlBounds, Zenon
    <3> QED
      BY <3>1, <3>2, Zenon
  <2>2. "describe" \notin CtlEarly /\ CtlPolling = {"describe", "deployment", "check"}
    BY DEF CtlEarly, CtlPolling
  <2> QED
    <3>1. ctl'.step \in CtlPolling => ctl'.step = "describe"
      BY <1>2, <2>2
    <3>2. "describe" # "deployment" /\ "describe" # "check"
      OBVIOUS
    <3>3. ctl'.step = "describe" => ctl'.cmd \in CtlLive /\ ctl'.cmd # "deploy wait"
      BY DEF CtlLive
    <3>4. Len(ctl'.reports) < CtlPolls
      BY <2>1, CtlBounds, Zenon
    <3> QED
      BY <1>2, <2>1, <3>1, <3>3, <3>4 DEF CtlPollFits
<1>5. CtlViewSound' /\ CtlSeenSound' /\ CtlEnded' /\ LiveIsProven'
  BY <1>1, <1>2 DEF CtlFresh, CtlViewSound, CtlSeenSound, CtlEnded, LiveIsProven
<1>6. CtlCounted'
  BY DEF CtlInv, CtlCounted
<1> QED
  BY <1>3, <1>4, <1>5, <1>6 DEF CtlInv, CtlDepGoesOn

(* The actions, one by one.  A step of the command alone leaves the table and
   the deployments as they are. *)
LEMMA CtlRests ==
  ASSUME CtlInv, CtlRest
  PROVE  CtlTableOK' /\ CtlDepGoesOn
BY DEF CtlInv, CtlRest, CtlTableOK, CtlDepGoesOn

LEMMA CtlRunKeeps == ASSUME CtlInv, CtlRun PROVE CtlInv'
<1>1. PICK c \in CtlCommands, r \in CtlRefs, w \in CtlNames, R \in SUBSET CtlRoutes :
        ctl' = [ctl EXCEPT !.cmd = c, !.ref = r, !.word = w, !.route = R,
                               !.step = IF c = "create" THEN "preflight" ELSE "resolve"]
  <2>1. PICK c \in CtlCommands, r \in CtlRefs, w \in CtlNames, R \in {{}} \cup {{x} : x \in CtlRoutes} :
          ctl' = [ctl EXCEPT !.cmd = c, !.ref = r, !.word = w, !.route = R,
                             !.step = IF c = "create" THEN "preflight" ELSE "resolve"]
    BY DEF CtlRun
  <2>2. R \in SUBSET CtlRoutes
    OBVIOUS
  <2> QED
    BY <2>1, <2>2
<1>2. CtlTableOK' /\ CtlDepGoesOn /\ ctl.step = "idle"
  BY CtlRests DEF CtlRun, CtlAt
<1>3. ctl \in CtlRuns /\ CtlFresh
  BY <1>2 DEF CtlInv, CtlEarlyFits, CtlEarly
<1>4. c # "none" /\ c \in CtlCommands \cup {"none"} /\ ctl.exit = 0 /\ ctl.made = 0
  BY <1>2, CtlCommandNames DEF CtlInv, CtlEnded
<1> DEFINE step == IF c = "create" THEN "preflight" ELSE "resolve"
<1>5. /\ step \in CtlEarly /\ (step = "resolve" \/ (step = "preflight" /\ c = "create"))
  <2>1. CASE c = "create"
    BY <2>1 DEF CtlEarly
  <2>2. CASE c # "create"
    BY <2>2 DEF CtlEarly
  <2> QED
    BY <2>1, <2>2
<1>6. ctl' = [ctl EXCEPT !.cmd = c, !.ref = r, !.word = w, !.route = R, !.step = step]
  BY <1>1
<1> HIDE DEF step
<1>7. /\ ctl' \in CtlRuns /\ ctl'.cmd = c /\ ctl'.word = w /\ ctl'.step = step
      /\ ctl'.view = ctl.view /\ ctl'.reports = ctl.reports /\ ctl'.dep = ctl.dep /\ ctl'.fails = ctl.fails
      /\ ctl'.seen = ctl.seen /\ ctl'.exit = 0 /\ ctl'.made = 0
  BY <1>3, <1>4, <1>5, <1>6 DEF CtlRuns
<1> QED
  BY <1>2, <1>5, <1>7, CtlEarlyStep DEF CtlEarly

LEMMA CtlResolveKeeps == ASSUME CtlInv, CtlResolve PROVE CtlInv'
<1>1. CtlTableOK' /\ CtlDepGoesOn /\ ctl.step = "resolve" /\ ctl.step \in CtlEarly /\ ctl.step # "done"
  BY CtlRests DEF CtlResolve, CtlAt, CtlEarly
<1>2. 2 \in CtlExits /\ 3 \in CtlExits /\ 2 # 0 /\ 2 # 1 /\ 3 # 0 /\ 3 # 1
  BY DEF CtlExits
<1>3. CASE CtlExit(2)
  BY <1>1, <1>2, <1>3, CtlExitStep
<1>4. CASE CtlExit(3)
  BY <1>1, <1>2, <1>4, CtlExitStep
<1>5. CASE ~CtlExit(2) /\ ~CtlExit(3)
  <2> DEFINE to == IF ctl.cmd \in {"status", "status wait"} THEN "describe"
                   ELSE IF ctl.cmd = "delete" THEN "confirm" ELSE "mutate"
  <2>1. PICK i \in DOMAIN ctlSvc : ctl' = [ctl EXCEPT !.svc = i, !.step = to]
    BY <1>5 DEF CtlResolve, CtlMatches
  <2>2. i \in Nat
    BY DEF CtlInv, CtlTableOK
  <2>3. \/ to = "describe" /\ ctl.cmd \in {"status", "status wait"}
        \/ to = "confirm" /\ ctl.cmd = "delete"
        \/ to = "mutate" /\ ctl.cmd \notin {"status", "status wait"}
    OBVIOUS
  <2> HIDE DEF to
  <2>4. ctl \in CtlRuns /\ ctl.word \in CtlNames /\ ctl.exit = 0 /\ ctl.made = 0
    BY <1>1 DEF CtlInv, CtlEarlyFits, CtlEnded
  <2>5. to \in CtlEarly \cup {"describe"} /\ to \in CtlPolling \cup CtlEarly
    BY <2>3 DEF CtlEarly, CtlPolling
  <2>6. /\ ctl' \in CtlRuns /\ ctl'.cmd = ctl.cmd /\ ctl'.word = ctl.word /\ ctl'.step = to
        /\ ctl'.view = ctl.view /\ ctl'.reports = ctl.reports /\ ctl'.dep = ctl.dep /\ ctl'.fails = ctl.fails
        /\ ctl'.seen = ctl.seen /\ ctl'.exit = 0 /\ ctl'.made = 0
    BY <2>1, <2>2, <2>4, <2>5 DEF CtlRuns
  <2> QED
    BY <1>1, <2>3, <2>4, <2>5, <2>6, CtlEarlyStep
<1> QED
  BY <1>3, <1>4, <1>5

LEMMA CtlMutateKeeps == ASSUME CtlInv, CtlMutate PROVE CtlInv'
<1>1. /\ ctl.step = "mutate" /\ ctl.step \in CtlEarly /\ ctl.step # "done"
      /\ ctl.cmd \notin CtlLive /\ ctl.word \in CtlNames /\ ctl \in CtlRuns
  BY DEF CtlMutate, CtlAt, CtlEarly, CtlLive, CtlInv, CtlEarlyFits
<1>2. CtlDepGoesOn /\ ctlNext' = ctlNext
  BY DEF CtlMutate, CtlInv, CtlDepGoesOn
<1>3. PICK code \in {0, 1, 3} : CtlExit(code)
  BY DEF CtlMutate
<1>4. CtlTableOK'
  <2>1. CASE UNCHANGED ctlSvc
    BY <1>2, <2>1 DEF CtlInv, CtlTableOK
  <2>2. CASE ~UNCHANGED ctlSvc
    <3>1. PICK i \in CtlTarget(ctl) : ~CtlConflict(i) /\ ctlSvc' = [ctlSvc EXCEPT ![i] = CtlChanged(@)]
      BY <2>2 DEF CtlMutate
    <3>2. i \in DOMAIN ctlSvc
      BY DEF CtlTarget
    <3>3. ctlSvc[i] \in CtlRows /\ ctl.route \in SUBSET CtlRoutes
      BY <1>1, <3>2 DEF CtlInv, CtlTableOK, CtlRuns
    <3> DEFINE row == CtlChanged(ctlSvc[i])
    <3>4. /\ row \in CtlRows
          /\ row.name = IF ctl.cmd = "rename" THEN ctl.word ELSE ctlSvc[i].name
          /\ row.routes \subseteq IF ctl.cmd = "route add" THEN ctlSvc[i].routes \cup ctl.route ELSE ctlSvc[i].routes
      BY <1>1, <3>3 DEF CtlChanged, CtlRows
    <3>5. ctlSvc' = [ctlSvc EXCEPT ![i] = row]
      BY <3>1
    <3> HIDE DEF row
    <3>6. ASSUME NEW j \in DOMAIN ctlSvc \ {i}
          PROVE  ctlSvc[j].name # row.name /\ ctlSvc[j].routes \cap row.routes = {}
      <4>1. ctlSvc[j].name # ctlSvc[i].name /\ ctlSvc[j].routes \cap ctlSvc[i].routes = {}
        BY <3>2 DEF CtlInv, CtlTableOK
      <4>2. ctl.cmd = "rename" => ctlSvc[j].name # ctl.word
        BY <3>1 DEF CtlConflict
      <4>3. ctl.cmd = "route add" => ctlSvc[j].routes \cap ctl.route = {}
        BY <3>1 DEF CtlConflict
      <4> QED
        BY <3>4, <4>1, <4>2, <4>3
    <3> QED
      BY <1>2, <3>2, <3>4, <3>5, <3>6, CtlTableEdit DEF CtlInv
  <2> QED
    BY <2>1, <2>2
<1>5. code \in CtlExits
  BY DEF CtlExits
<1> QED
  BY <1>1, <1>2, <1>3, <1>4, <1>5, CtlExitStep

LEMMA CtlDeleteConfirmKeeps == ASSUME CtlInv, CtlDeleteConfirm PROVE CtlInv'
<1>1. CtlTableOK' /\ CtlDepGoesOn /\ ctl.step = "confirm" /\ ctl.step \in CtlEarly /\ ctl.step # "done"
  BY CtlRests DEF CtlDeleteConfirm, CtlAt, CtlEarly
<1>2. 2 \in CtlExits /\ 3 \in CtlExits /\ 2 # 0 /\ 2 # 1 /\ 3 # 0 /\ 3 # 1
  BY DEF CtlExits
<1>3. CASE CtlExit(2)
  BY <1>1, <1>2, <1>3, CtlExitStep
<1>4. CASE CtlExit(3)
  BY <1>1, <1>2, <1>4, CtlExitStep
<1>5. CASE ctl' = [ctl EXCEPT !.step = "deleting"]
  <2>1. ctl \in CtlRuns /\ ctl.word \in CtlNames /\ ctl.exit = 0 /\ ctl.made = 0 /\ ctl.cmd = "delete"
    BY <1>1 DEF CtlInv, CtlEarlyFits, CtlEnded
  <2>2. "deleting" \in CtlEarly
    BY DEF CtlEarly
  <2>3. /\ ctl' \in CtlRuns /\ ctl'.cmd = ctl.cmd /\ ctl'.word = ctl.word /\ ctl'.step = "deleting"
        /\ ctl'.view = ctl.view /\ ctl'.reports = ctl.reports /\ ctl'.dep = ctl.dep /\ ctl'.fails = ctl.fails
        /\ ctl'.seen = ctl.seen /\ ctl'.exit = 0 /\ ctl'.made = 0
    BY <1>5, <2>1, <2>2 DEF CtlRuns
  <2> QED
    BY <1>1, <2>1, <2>2, <2>3, CtlEarlyStep
<1> QED
  BY <1>3, <1>4, <1>5 DEF CtlDeleteConfirm

LEMMA CtlDeleteKeeps == ASSUME CtlInv, CtlDelete PROVE CtlInv'
<1>1. /\ ctl.step = "deleting" /\ ctl.step \in CtlEarly /\ ctl.step # "done" /\ ctl.cmd = "delete"
      /\ ctl.cmd \notin CtlLive
  BY DEF CtlDelete, CtlAt, CtlEarly, CtlInv, CtlEarlyFits, CtlLive
<1>2. PICK code \in {0, 1} : CtlExit(code)
  BY DEF CtlDelete
<1>3. CtlTableOK' /\ CtlDepGoesOn
  <2>1. CASE UNCHANGED <<ctlSvc, ctlNext, ctlDep>>
    BY <2>1 DEF CtlInv, CtlTableOK, CtlDepGoesOn
  <2>2. CASE ~UNCHANGED <<ctlSvc, ctlNext, ctlDep>>
    <3>1. ctlNext' = ctlNext
      BY DEF CtlDelete
    <3>2. PICK i \in CtlTarget(ctl) : CtlWithout(i)
      BY <2>2, <3>1 DEF CtlDelete
    <3> QED
      BY <3>1, <3>2, CtlTableWithout DEF CtlInv
  <2> QED
    BY <2>1, <2>2
<1>4. code \in CtlExits
  BY DEF CtlExits
<1> QED
  BY <1>1, <1>2, <1>3, <1>4, CtlExitStep

LEMMA CtlPreflightKeeps == ASSUME CtlInv, CtlPreflight PROVE CtlInv'
<1>1. CtlTableOK' /\ CtlDepGoesOn /\ ctl.step = "preflight" /\ ctl.step \in CtlEarly /\ ctl.step # "done"
  BY CtlRests DEF CtlPreflight, CtlAt, CtlEarly
<1>2. ctl \in CtlRuns /\ ctl.word \in CtlNames /\ ctl.exit = 0 /\ ctl.made = 0 /\ ctl.cmd = "create"
  BY <1>1 DEF CtlInv, CtlEarlyFits, CtlEnded
<1>3. CASE \E code \in {1, 2, 3} : CtlExit(code)
  <2>1. PICK code \in {1, 2, 3} : CtlExit(code)
    BY <1>3
  <2>2. code \in CtlExits /\ code # 0
    BY DEF CtlExits
  <2> QED
    BY <1>1, <2>1, <2>2, CtlExitStep
<1>4. CASE ctl' = [ctl EXCEPT !.step = "create"]
  <2>1. "create" \in CtlEarly
    BY DEF CtlEarly
  <2>2. /\ ctl' \in CtlRuns /\ ctl'.cmd = ctl.cmd /\ ctl'.word = ctl.word /\ ctl'.step = "create"
        /\ ctl'.view = ctl.view /\ ctl'.reports = ctl.reports /\ ctl'.dep = ctl.dep /\ ctl'.fails = ctl.fails
        /\ ctl'.seen = ctl.seen /\ ctl'.exit = 0 /\ ctl'.made = 0
    BY <1>2, <1>4, <2>1 DEF CtlRuns
  <2> QED
    BY <1>1, <1>2, <2>1, <2>2, CtlEarlyStep
<1> QED
  BY <1>3, <1>4 DEF CtlPreflight

(* Deployments only move on. *)
LEMMA CtlDepAppends ==
  ASSUME CtlInv, NEW i \in Nat, ctlDep' = Append(ctlDep, [svc |-> i, status |-> "queued"])
  PROVE  CtlDepGoesOn /\ Len(ctlDep) + 1 \in DOMAIN ctlDep' /\ Len(ctlDep) \in Nat
<1> DEFINE new == [svc |-> i, status |-> "queued"]
<1>1. new \in CtlDeps
  BY DEF CtlDeps, CtlStatuses
<1> HIDE DEF new
<1>2. ctlDep \in Seq(CtlDeps) /\ ctlDep' = Append(ctlDep, new)
  BY DEF CtlInv, new
<1>3. /\ ctlDep' \in Seq(CtlDeps) /\ Len(ctlDep) + 1 \in DOMAIN ctlDep' /\ Len(ctlDep) \in Nat
      /\ DOMAIN ctlDep \subseteq DOMAIN ctlDep' /\ \A k \in DOMAIN ctlDep : ctlDep'[k] = ctlDep[k]
  BY <1>1, <1>2
<1> QED
  BY <1>3 DEF CtlDepGoesOn

LEMMA CtlCreateKeeps == ASSUME CtlInv, CtlCreate PROVE CtlInv'
<1>1. /\ ctl.step = "create" /\ ctl.step \in CtlEarly /\ ctl.step # "done" /\ ctl.cmd = "create"
      /\ ctl.word \in CtlNames /\ ctl \in CtlRuns /\ ctlNext \in Nat
  BY DEF CtlCreate, CtlAt, CtlEarly, CtlInv, CtlEarlyFits, CtlTableOK
<1>2. CASE CtlExit(3) /\ UNCHANGED <<ctlSvc, ctlNext, ctlDep>>
  <2>1. CtlTableOK' /\ CtlDepGoesOn
    BY <1>2 DEF CtlInv, CtlTableOK, CtlDepGoesOn
  <2>2. 3 \in CtlExits /\ 3 # 0 /\ 3 # 1
    BY DEF CtlExits
  <2> QED
    BY <1>1, <1>2, <2>1, <2>2, CtlExitStep
<1>3. CASE ~(CtlExit(3) /\ UNCHANGED <<ctlSvc, ctlNext, ctlDep>>)
  <2>1. /\ ctl.word \notin CtlTakenNames /\ ctl.route \cap CtlTakenRoutes = {}
        /\ CtlStores(ctl.word, ctl.route)
        /\ ctlDep' = Append(ctlDep, [svc |-> ctlNext, status |-> "queued"])
    BY <1>3 DEF CtlCreate
  <2>2. PICK code \in {0, 1} : ctl' = [ctl EXCEPT !.step = "done", !.made = ctlNext, !.exit = code]
    BY <1>3 DEF CtlCreate
  <2>3. CtlTableOK'
    <3>1. ctl.route \in SUBSET CtlRoutes
      BY <1>1 DEF CtlRuns
    <3> QED
      BY <1>1, <2>1, <3>1, CtlTableStores DEF CtlInv
  <2>4. CtlDepGoesOn
    BY <1>1, <2>1, CtlDepAppends
  <2>5. code \in CtlExits /\ code # 3
    BY DEF CtlExits
  <2>6. /\ ctl' \in CtlRuns /\ ctl'.step = "done" /\ ctl'.exit = code
        /\ ctl'.cmd = "create" /\ ctl'.dep = ctl.dep /\ ctl'.view = ctl.view /\ ctl'.seen = ctl.seen
        /\ ctl'.reports = ctl.reports /\ ctl'.fails = ctl.fails
    BY <1>1, <2>2, <2>5 DEF CtlRuns
  <2>7. CtlEarlyFits' /\ CtlSeenSound' /\ CtlCounted' /\ LiveIsProven' /\ CtlEnded'
    BY <2>5, <2>6 DEF CtlInv, CtlEarlyFits, CtlEarly, CtlSeenSound, CtlCounted, LiveIsProven, CtlEnded
  <2>8. CtlPollFits'
    BY <2>4, <2>6 DEF CtlInv, CtlDepGoesOn, CtlPollFits, CtlPolling
  <2>9. CtlViewSound'
    BY <2>4, <2>6 DEF CtlInv, CtlDepGoesOn, CtlViewSound
  <2> QED
    BY <2>3, <2>4, <2>6, <2>7, <2>8, <2>9 DEF CtlInv, CtlDepGoesOn
<1> QED
  BY <1>2, <1>3

LEMMA CtlTriggerKeeps == ASSUME CtlInv, CtlTrigger PROVE CtlInv'
<1>1. /\ ctl.step = "mutate" /\ ctl.step \in CtlEarly /\ ctl.step # "done"
      /\ ctl.cmd \in {"deploy", "deploy wait"} /\ ctl.word \in CtlNames /\ ctl \in CtlRuns /\ CtlFresh
      /\ ctl.made = 0
  BY DEF CtlTrigger, CtlAt, CtlEarly, CtlInv, CtlEarlyFits, CtlEnded
<1>2. CtlTableOK'
  BY DEF CtlTrigger, CtlInv, CtlTableOK
<1>3. CASE UNCHANGED ctlDep /\ \E code \in {2, 3} : CtlExit(code)
  <2>1. CtlDepGoesOn
    BY <1>3 DEF CtlInv, CtlDepGoesOn
  <2>2. PICK code \in {2, 3} : CtlExit(code)
    BY <1>3
  <2>3. code \in CtlExits /\ code # 0 /\ code # 1
    BY DEF CtlExits
  <2> QED
    BY <1>1, <1>2, <2>1, <2>2, <2>3, CtlExitStep
<1>4. CASE ~(UNCHANGED ctlDep /\ \E code \in {2, 3} : CtlExit(code))
  <2> DEFINE to == IF ctl.cmd = "deploy" THEN "done" ELSE "describe"
  <2>1. PICK i \in CtlTarget(ctl) :
          /\ ctlDep' = Append(ctlDep, [svc |-> i, status |-> "queued"])
          /\ \/ ctl' = [ctl EXCEPT !.dep = Len(ctlDep) + 1, !.exit = 0, !.step = to]
             \/ CtlExit(1)
    BY <1>4 DEF CtlTrigger
  <2>2. i \in Nat
    BY DEF CtlTarget, CtlInv, CtlTableOK
  <2>3. CtlDepGoesOn /\ Len(ctlDep) + 1 \in DOMAIN ctlDep' /\ Len(ctlDep) \in Nat
    BY <2>1, <2>2, CtlDepAppends
  <2>4. \/ to = "done" /\ ctl.cmd = "deploy"
        \/ to = "describe" /\ ctl.cmd = "deploy wait"
    BY <1>1
  <2> HIDE DEF to
  <2>5. CASE CtlExit(1)
    <3>1. 1 \in CtlExits /\ 1 # 0
      BY DEF CtlExits
    <3> QED
      BY <1>1, <1>2, <2>3, <2>5, <3>1, CtlExitStep
  <2>6. CASE ctl' = [ctl EXCEPT !.dep = Len(ctlDep) + 1, !.exit = 0, !.step = to]
    <3> DEFINE dep == Len(ctlDep) + 1
    <3>1. dep \in Nat /\ dep # 0 /\ dep \in DOMAIN ctlDep'
      BY <2>3
    <3>2. ctl' = [ctl EXCEPT !.dep = dep, !.exit = 0, !.step = to]
      BY <2>6
    <3> HIDE DEF dep
    <3>3. to \in CtlPolling \cup CtlEarly \cup {"done"} /\ 0 \in CtlExits
      BY <2>4 DEF CtlPolling, CtlExits
    <3>4. /\ ctl' \in CtlRuns /\ ctl'.step = to /\ ctl'.dep = dep /\ ctl'.exit = 0 /\ ctl'.made = 0
          /\ ctl'.cmd = ctl.cmd /\ ctl'.word = ctl.word /\ ctl'.view = ctl.view /\ ctl'.seen = ctl.seen
          /\ ctl'.reports = ctl.reports /\ ctl'.fails = ctl.fails
      BY <1>1, <3>1, <3>2, <3>3 DEF CtlRuns
    <3>5. to \notin CtlEarly /\ to # "deployment" /\ to # "check"
      BY <2>4 DEF CtlEarly
    <3>6. CtlEarlyFits'
      BY <1>1, <2>4, <3>4, <3>5 DEF CtlEarlyFits
    <3>7. to \in CtlPolling => to = "describe"
      BY <2>4 DEF CtlPolling
    <3>8. Len(ctl'.reports) < CtlPolls
      <4>1. Len(ctl'.reports) = 0
        BY <1>1, <3>4, Zenon DEF CtlFresh
      <4> QED
        BY <4>1, CtlBounds, Zenon
    <3>9. CtlPollFits'
      <4>1. to = "describe" => ctl'.cmd \in CtlLive /\ ctl'.cmd = "deploy wait"
        BY <2>4, <3>4 DEF CtlLive
      <4> QED
        BY <3>1, <3>4, <3>5, <3>7, <3>8, <4>1 DEF CtlPollFits
    <3>10. CtlViewSound' /\ CtlSeenSound' /\ CtlCounted'
      BY <1>1, <2>3, <3>4 DEF CtlFresh, CtlViewSound, CtlSeenSound, CtlCounted, CtlInv
    <3>11. CtlEnded' /\ LiveIsProven'
      <4>1. 0 # 1 /\ 0 # 3
        OBVIOUS
      <4>2. to = "done" => ctl'.cmd = "deploy"
        BY <2>4, <3>4
      <4> QED
        BY <3>4, <4>1, <4>2 DEF CtlEnded, LiveIsProven
    <3> QED
      BY <1>2, <2>3, <3>4, <3>6, <3>9, <3>10, <3>11 DEF CtlInv, CtlDepGoesOn
  <2> QED
    BY <2>1, <2>5, <2>6
<1> QED
  BY <1>3, <1>4

(* A step of a poll: the view or what is seen changes. *)
LEMMA CtlPollStep ==
  ASSUME CtlInv, CtlRest, ctl.step \in CtlPolling,
         NEW step \in CtlPolling, NEW view \in CtlViews, NEW seen \in CtlSeenSet,
         ctl' = [ctl EXCEPT !.step = step, !.view = view, !.seen = seen],
         step = "deployment" => ctl.dep # 0,
         step = "check" /\ ctl.dep # 0 => view.dep = ctl.dep,
         view.dep # 0 => view.dep \in DOMAIN ctlDep,
         view.status # "none" => view.dep # 0,
         view.status \in {"success", "failed"} => ctlDep[view.dep].status \in {view.status, "gone"},
         DOMAIN seen \subseteq view.routes, \A r \in DOMAIN seen : seen[r].deployed
  PROVE  CtlInv'
<1>1. CtlTableOK' /\ CtlDepGoesOn /\ ctlDep' = ctlDep
  BY CtlRests DEF CtlRest
<1>2. ctl \in CtlRuns /\ ctl.step # "done" /\ ctl.step # "idle"
  BY DEF CtlInv, CtlPolling
<1>3. /\ ctl' \in CtlRuns /\ ctl'.step = step /\ ctl'.view = view /\ ctl'.seen = seen
      /\ ctl'.cmd = ctl.cmd /\ ctl'.word = ctl.word /\ ctl'.dep = ctl.dep /\ ctl'.exit = ctl.exit
      /\ ctl'.made = ctl.made /\ ctl'.reports = ctl.reports /\ ctl'.fails = ctl.fails
  BY <1>2 DEF CtlRuns
<1>4. step \notin CtlEarly /\ step # "done" /\ step \notin {"mutate", "confirm", "deleting", "preflight", "create"}
  BY DEF CtlEarly, CtlPolling
<1>5. CtlEarlyFits'
  BY <1>2, <1>3, <1>4 DEF CtlInv, CtlEarlyFits
<1>6. CtlPollFits'
  BY <1>1, <1>3 DEF CtlInv, CtlPollFits
<1>7. CtlViewSound' /\ CtlSeenSound'
  BY <1>1, <1>3 DEF CtlViewSound, CtlSeenSound
<1>8. CtlCounted' /\ LiveIsProven'
  BY <1>3, <1>4 DEF CtlInv, CtlCounted, LiveIsProven
<1>9. CtlEnded'
  BY <1>2, <1>3, <1>4 DEF CtlInv, CtlEnded
<1> QED
  BY <1>1, <1>3, <1>5, <1>6, <1>7, <1>8, <1>9 DEF CtlInv

LEMMA CtlDescribeKeeps == ASSUME CtlInv, CtlDescribe PROVE CtlInv'
<1>1. CtlTableOK' /\ CtlDepGoesOn /\ ctl.step = "describe" /\ ctl.step # "done" /\ ctl.step \in CtlPolling
  BY CtlRests DEF CtlDescribe, CtlAt, CtlPolling
<1>2. CASE CtlExit(3)
  <2>1. 3 \in CtlExits /\ 3 # 0 /\ 3 # 1
    BY DEF CtlExits
  <2> QED
    BY <1>1, <1>2, <2>1, CtlExitStep
<1>3. CASE ~CtlExit(3)
  <2> DEFINE step == IF ctl.dep # 0 THEN "deployment" ELSE "check"
             none == <<>>
  <2>1. PICK k \in CtlNewest(ctl.svc) :
          ctl' = [ctl EXCEPT !.step = step, !.seen = none,
                    !.view = [active |-> ctlSvc[ctl.svc].active, routes |-> ctlSvc[ctl.svc].routes,
                              dep |-> k, status |-> IF k = 0 THEN "none" ELSE ctlDep[k].status]]
    BY <1>3 DEF CtlDescribe
  <2> DEFINE view == [active |-> ctlSvc[ctl.svc].active, routes |-> ctlSvc[ctl.svc].routes,
                      dep |-> k, status |-> IF k = 0 THEN "none" ELSE ctlDep[k].status]
  <2>2. ctl' = [ctl EXCEPT !.step = step, !.view = view, !.seen = none]
    BY <2>1
  <2>3. none \in CtlSeenSet /\ DOMAIN none = {}
    <3>1. none \in [{} -> CtlAnswers] /\ DOMAIN none = {}
      OBVIOUS
    <3>2. {} \in SUBSET CtlRoutes
      OBVIOUS
    <3> QED
      BY <3>1, <3>2 DEF CtlSeenSet
  <2>4. k = 0 \/ k \in DOMAIN ctlDep
    BY DEF CtlNewest
  <2>5. ctlDep \in Seq(CtlDeps)
    BY DEF CtlInv
  <2>6. k \in DOMAIN ctlDep => k \in Nat /\ k # 0 /\ ctlDep[k].status \in CtlStatuses
    <3>1. k \in DOMAIN ctlDep => k \in Nat /\ k # 0 /\ ctlDep[k] \in CtlDeps
      BY <2>5
    <3> QED
      BY <3>1 DEF CtlDeps
  <2>7. ctlSvc[ctl.svc] \in CtlRows
    BY <1>3 DEF CtlDescribe, CtlInv, CtlTableOK
  <2>8. view \in CtlViews
    BY <2>4, <2>6, <2>7 DEF CtlViews, CtlRows
  <2>9. view.dep = k /\ view.status = IF k = 0 THEN "none" ELSE ctlDep[k].status
    OBVIOUS
  <2>10. /\ view.dep # 0 => view.dep \in DOMAIN ctlDep
         /\ view.status # "none" => view.dep # 0
         /\ view.status \in {"success", "failed"} => ctlDep[view.dep].status \in {view.status, "gone"}
    BY <2>4, <2>9
  <2>11. step \in CtlPolling /\ (step = "deployment" => ctl.dep # 0) /\ (step = "check" => ~(ctl.dep # 0))
    BY DEF CtlPolling
  <2>12. CtlRest
    BY DEF CtlDescribe
  <2> HIDE DEF view, step, none
  <2> QED
    BY <1>1, <2>2, <2>3, <2>8, <2>10, <2>11, <2>12, CtlPollStep
<1> QED
  BY <1>2, <1>3

LEMMA CtlGetDeploymentKeeps == ASSUME CtlInv, CtlGetDeployment PROVE CtlInv'
<1>1. CtlTableOK' /\ CtlDepGoesOn /\ ctl.step = "deployment" /\ ctl.step # "done" /\ ctl.step \in CtlPolling
  BY CtlRests DEF CtlGetDeployment, CtlAt, CtlPolling
<1>2. CASE CtlExit(3)
  <2>1. 3 \in CtlExits /\ 3 # 0 /\ 3 # 1
    BY DEF CtlExits
  <2> QED
    BY <1>1, <1>2, <2>1, CtlExitStep
<1>3. CASE ~CtlExit(3)
  <2> DEFINE view == [ctl.view EXCEPT !.dep = ctl.dep, !.status = ctlDep[ctl.dep].status]
  <2>1. ctl' = [ctl EXCEPT !.step = "check", !.view = view] /\ ctlDep[ctl.dep].status # "gone"
    BY <1>3 DEF CtlGetDeployment, CtlFollowed
  <2>2. ctl \in CtlRuns /\ ctl.dep # 0 /\ ctl.dep \in DOMAIN ctlDep /\ ctlDep \in Seq(CtlDeps)
    BY <1>1 DEF CtlInv, CtlPollFits
  <2>3. ctlDep[ctl.dep].status \in CtlStatuses /\ "none" \notin CtlStatuses
    <3>1. ctlDep[ctl.dep] \in CtlDeps
      BY <2>2
    <3> QED
      BY <3>1 DEF CtlDeps, CtlStatuses
  <2>4. ctl.view \in CtlViews /\ ctl.seen \in CtlSeenSet /\ ctl.dep \in Nat
    BY <2>2 DEF CtlRuns
  <2>5. /\ view \in CtlViews /\ view.dep = ctl.dep /\ view.status = ctlDep[ctl.dep].status
        /\ view.routes = ctl.view.routes
    BY <2>3, <2>4 DEF CtlViews
  <2> HIDE DEF view
  <2>6. ctl' = [ctl EXCEPT !.step = "check", !.view = view, !.seen = ctl.seen]
    BY <2>1, <2>2 DEF CtlRuns
  <2>7. DOMAIN ctl.seen \subseteq view.routes /\ \A r \in DOMAIN ctl.seen : ctl.seen[r].deployed
    BY <2>5 DEF CtlInv, CtlSeenSound
  <2>8. "check" \in CtlPolling /\ CtlRest
    BY DEF CtlPolling, CtlGetDeployment
  <2> QED
    BY <1>1, <2>2, <2>4, <2>5, <2>6, <2>7, <2>8, CtlPollStep
<1> QED
  BY <1>2, <1>3

(* The checks tell what the view says. *)
LEMMA CtlHardPasses ==
  ASSUME CtlHard(ctl.view) = "pass"
  PROVE  ctl.view.active /\ ctl.view.status = "success" /\ ctl.view.routes # {}
BY DEF CtlHard, CtlDeploymentState

LEMMA CtlArrivesAtPage == ASSUME NEW web, NEW scheme PROVE CtlArrives(web, scheme) \in CtlPages
BY DEF CtlArrives, CtlPages

LEMMA CtlStateIsOne == CtlState \in CtlStates /\ CtlHard(ctl.view) \in CtlStates
BY DEF CtlState, CtlHard, CtlDeploymentState, CtlStates

LEMMA CtlProbeKeeps == ASSUME CtlInv, NEW r \in CtlRoutes, CtlProbe(r) PROVE CtlInv'
<1>1. /\ ctl.step = "check" /\ ctl.step \in CtlPolling /\ CtlRest /\ ctl \in CtlRuns
      /\ r \in ctl.view.routes /\ ctl.view.status = "success"
  BY CtlHardPasses DEF CtlProbe, CtlAt, CtlPolling, CtlInv
<1>2. /\ ctl.view.dep # 0 => ctl.view.dep \in DOMAIN ctlDep
      /\ ctl.view.dep # 0 /\ ctlDep[ctl.view.dep].status \in {"success", "gone"}
      /\ ctl.dep # 0 => ctl.view.dep = ctl.dep
  BY <1>1 DEF CtlInv, CtlViewSound, CtlPollFits
<1>3. PICK cert \in BOOLEAN, web \in [{"http", "https"} -> CtlPages \cup {"to http", "to https", "away"}] :
        ctl' = [ctl EXCEPT !.seen = CtlSeenToo(r, [cert |-> cert,
                  page |-> CtlArrives(web, IF r \in CtlHttpOnly THEN "http" ELSE "https"),
                  deployed |-> ctlDep[ctl.view.dep].status \in {"success", "gone"}])]
  BY DEF CtlProbe
<1> DEFINE page == CtlArrives(web, IF r \in CtlHttpOnly THEN "http" ELSE "https")
           answer == [cert |-> cert, page |-> page,
                      deployed |-> ctlDep[ctl.view.dep].status \in {"success", "gone"}]
           seen == CtlSeenToo(r, answer)
<1>4. page \in CtlPages
  BY CtlArrivesAtPage
<1>5. ctl' = [ctl EXCEPT !.seen = seen]
  BY <1>3
<1> HIDE DEF page
<1>6. answer \in CtlAnswers /\ answer.deployed
  BY <1>2, <1>4 DEF CtlAnswers
<1> HIDE DEF answer
<1>7. ctl.seen \in CtlSeenSet /\ ctl.view \in CtlViews
  BY <1>1 DEF CtlRuns
<1>8. PICK R \in SUBSET CtlRoutes : ctl.seen \in [R -> CtlAnswers]
  BY <1>7 DEF CtlSeenSet
<1>9. /\ seen \in [R \cup {r} -> CtlAnswers] /\ DOMAIN seen = DOMAIN ctl.seen \cup {r}
      /\ \A q \in DOMAIN seen : seen[q] = IF q = r THEN answer ELSE ctl.seen[q]
  BY <1>6, <1>8 DEF CtlSeenToo
<1>10. seen \in CtlSeenSet
  <2>1. R \cup {r} \in SUBSET CtlRoutes
    OBVIOUS
  <2> HIDE DEF seen
  <2> QED
    BY <1>9, <2>1 DEF CtlSeenSet
<1> HIDE DEF seen
<1>11. DOMAIN seen \subseteq ctl.view.routes /\ \A q \in DOMAIN seen : seen[q].deployed
  BY <1>1, <1>6, <1>9 DEF CtlInv, CtlSeenSound
<1>12. ctl' = [ctl EXCEPT !.step = "check", !.view = ctl.view, !.seen = seen]
  BY <1>1, <1>5 DEF CtlRuns
<1>13. "check" \in CtlPolling /\ "check" # "deployment" /\ "success" # "none"
  BY DEF CtlPolling
<1> QED
  BY <1>1, <1>2, <1>7, <1>10, <1>11, <1>12, <1>13, CtlPollStep

(* Counting back from the end of a longer sequence. *)
LEMMA CtlOneBack ==
  \A k, f, n \in Nat : k # 0 /\ k < f + 1 /\ f <= n =>
    k - 1 \in Nat /\ k - 1 < f /\ n - (k - 1) \in 1 .. n /\ (n + 1) - k = n - (k - 1)
OBVIOUS

(* A report more: routeFailures still counts the polls that failed last. *)
LEMMA CtlCountsOn ==
  ASSUME CtlCounted, ctl.reports \in Seq(CtlStates), ctl.fails \in Nat,
         Len(ctl.reports) < CtlPolls, NEW state \in CtlStates,
         ctl'.reports = Append(ctl.reports, state),
         ctl'.fails = IF state = "fail" THEN ctl.fails + 1 ELSE 0
  PROVE  CtlCounted' /\ Len(ctl'.reports) = Len(ctl.reports) + 1 /\ ctl'.fails \in Nat
<1> DEFINE n == Len(ctl.reports)
<1>1. n \in Nat /\ CtlPolls \in Nat /\ n < CtlPolls /\ ctl.fails <= n
  BY CtlBounds DEF CtlCounted
<1>2. /\ Len(ctl'.reports) = n + 1 /\ ctl'.reports[n + 1] = state
      /\ \A k \in 1 .. n : ctl'.reports[k] = ctl.reports[k]
  OBVIOUS
<1>3. \A k \in Nat : k < ctl.fails => ctl.reports[n - k] = "fail"
  BY DEF CtlCounted
<1> HIDE DEF n
<1>4. CASE state = "fail"
  <2>1. ctl'.fails = ctl.fails + 1
    BY <1>4
  <2>2. ASSUME NEW k \in Nat, k < ctl'.fails
        PROVE  ctl'.reports[(n + 1) - k] = "fail"
    <3>1. CASE k = 0
      BY <1>1, <1>2, <1>4, <3>1
    <3>2. CASE k # 0
      <4>1. k - 1 \in Nat /\ k - 1 < ctl.fails /\ n - (k - 1) \in 1 .. n /\ (n + 1) - k = n - (k - 1)
        <5>1. k < ctl.fails + 1
          BY <2>1, <2>2, Zenon
        <5> QED
          BY <1>1, <3>2, <5>1, CtlOneBack
      <4>2. ctl.reports[n - (k - 1)] = "fail"
        BY <1>3, <4>1, Zenon
      <4>3. ctl'.reports[n - (k - 1)] = ctl.reports[n - (k - 1)]
        BY <1>2, <4>1, Zenon
      <4> QED
        BY <4>1, <4>2, <4>3, Zenon
    <3> QED
      BY <3>1, <3>2
  <2>3. Len(ctl'.reports) <= CtlPolls /\ ctl'.fails <= Len(ctl'.reports) /\ ctl'.fails \in Nat
    BY <1>1, <1>2, <2>1
  <2>4. \A k \in Nat : k < ctl'.fails => ctl'.reports[Len(ctl'.reports) - k] = "fail"
    <3>1. Len(ctl'.reports) = n + 1
      BY <1>2, Zenon
    <3> TAKE k \in Nat
    <3> HAVE k < ctl'.fails
    <3>2. ctl'.reports[(n + 1) - k] = "fail"
      BY <2>2, Zenon
    <3> QED
      BY <3>1, <3>2, Zenon
  <2>5. CtlCounted'
    BY <2>3, <2>4, Zenon DEF CtlCounted
  <2> QED
    BY <1>2, <2>3, <2>5, Zenon DEF n
<1>5. CASE state # "fail"
  <2>1. ctl'.fails = 0
    BY <1>5
  <2>2. Len(ctl'.reports) <= CtlPolls /\ ctl'.fails <= Len(ctl'.reports) /\ ctl'.fails \in Nat
    BY <1>1, <1>2, <2>1
  <2>3. \A k \in Nat : ~(k < ctl'.fails)
    BY <2>1
  <2> QED
    BY <1>2, <2>2, <2>3 DEF CtlCounted, n
<1> QED
  BY <1>4, <1>5

(* A check that passes has seen every route answer with its own page. *)
LEMMA CtlPassIsProven ==
  ASSUME CtlState = "pass", DOMAIN ctl.seen = ctl.view.routes, CtlSeenSound
  PROVE  /\ ctl.view.active /\ ctl.view.routes # {}
         /\ \A r \in ctl.view.routes : /\ r \in DOMAIN ctl.seen /\ ctl.seen[r].page = "own"
                                       /\ ctl.seen[r].cert /\ ctl.seen[r].deployed
<1>1. CtlHard(ctl.view) = "pass" /\ "fail" \notin CtlRouteStates /\ "pending" \notin CtlRouteStates
  BY DEF CtlState
<1>2. ASSUME NEW r \in DOMAIN ctl.seen
      PROVE  ctl.seen[r].page = "own" /\ ctl.seen[r].cert
  <2>1. CtlPageState(ctl.seen[r].page) \in CtlRouteStates
        /\ (IF ctl.seen[r].cert THEN "pass" ELSE "pending") \in CtlRouteStates
    BY DEF CtlRouteStates
  <2>2. CtlPageState(ctl.seen[r].page) \notin {"fail", "pending"}
    BY <1>1, <2>1
  <2>3. ctl.seen[r].page = "own"
    BY <2>2 DEF CtlPageState
  <2>4. ctl.seen[r].cert
    BY <1>1, <2>1
  <2> QED
    BY <2>3, <2>4
<1> QED
  BY <1>1, <1>2, CtlHardPasses DEF CtlSeenSound

LEMMA CtlJudgeKeeps == ASSUME CtlInv, CtlJudge PROVE CtlInv'
<1>1. /\ CtlTableOK' /\ CtlDepGoesOn /\ ctlDep' = ctlDep /\ ctl.step = "check"
      /\ ctl.step \in CtlPolling /\ ctl \in CtlRuns
  BY CtlRests DEF CtlJudge, CtlRest, CtlAt, CtlPolling, CtlInv
<1>2. /\ ctl.cmd \in CtlLive /\ (ctl.dep # 0 <=> ctl.cmd = "deploy wait") /\ Len(ctl.reports) < CtlPolls
      /\ (ctl.dep # 0 => ctl.view.dep = ctl.dep) /\ ctl.made = 0 /\ ctl.exit = 0 /\ ctl.word \in CtlNames
  BY <1>1 DEF CtlInv, CtlPollFits, CtlEnded, CtlEarlyFits
<1>3. CtlState \in CtlStates
  BY CtlStateIsOne
<1> DEFINE goes(step, code) == ctl' = [ctl EXCEPT !.step = step, !.exit = code, !.fails = CtlFailures,
                                                  !.reports = Append(@, CtlState)]
<1>4. \/ CtlState = "pass" /\ goes("done", 0)
      \/ ctl.cmd = "status" /\ CtlState # "pass" /\ goes("done", 1)
      \/ /\ CtlState = "fail" /\ (CtlHard(ctl.view) = "fail" \/ CtlFailures >= CtlFailAfter)
         /\ goes("done", 1)
      \/ goes("done", 4)
      \/ Len(ctl.reports) + 1 < CtlPolls /\ goes("describe", 0)
  BY DEF CtlJudge
<1>5. PICK step \in {"done", "describe"}, code \in CtlExits :
        /\ goes(step, code) /\ (code = 3 => FALSE)
        /\ (step = "describe" => code = 0 /\ Len(ctl.reports) + 1 < CtlPolls)
        /\ (step = "done" /\ code = 0 => CtlState = "pass")
        /\ (step = "done" /\ code = 1 /\ CtlHard(ctl.view) = "pass" => ctl.cmd = "status" \/ CtlFailures >= CtlFailAfter)
  <2>1. 0 \in CtlExits /\ 1 \in CtlExits /\ 4 \in CtlExits
    BY DEF CtlExits
  <2> HIDE DEF goes
  <2>2. CASE CtlState = "pass" /\ goes("done", 0)
    BY <2>1, <2>2
  <2>3. CASE ctl.cmd = "status" /\ CtlState # "pass" /\ goes("done", 1)
    BY <2>1, <2>3
  <2>4. CASE /\ CtlState = "fail" /\ (CtlHard(ctl.view) = "fail" \/ CtlFailures >= CtlFailAfter)
             /\ goes("done", 1)
    BY <2>1, <2>4
  <2>5. CASE goes("done", 4)
    BY <2>1, <2>5
  <2>6. CASE Len(ctl.reports) + 1 < CtlPolls /\ goes("describe", 0)
    BY <2>1, <2>6
  <2> QED
    BY <1>4, <2>2, <2>3, <2>4, <2>5, <2>6
<1>6. ctl.reports \in Seq(CtlStates) /\ ctl.fails \in Nat
  BY <1>1 DEF CtlRuns
<1>7. CtlFailures \in Nat /\ Append(ctl.reports, CtlState) \in Seq(CtlStates)
  BY <1>3, <1>6 DEF CtlFailures
<1>8. /\ ctl' \in CtlRuns /\ ctl'.step = step /\ ctl'.exit = code /\ ctl'.fails = CtlFailures
      /\ ctl'.reports = Append(ctl.reports, CtlState) /\ ctl'.view = ctl.view /\ ctl'.seen = ctl.seen
      /\ ctl'.cmd = ctl.cmd /\ ctl'.word = ctl.word /\ ctl'.dep = ctl.dep /\ ctl'.made = ctl.made
  <2>1. step \in CtlPolling \cup CtlEarly \cup {"done"}
    BY DEF CtlPolling
  <2> QED
    BY <1>1, <1>5, <1>7, <2>1 DEF CtlRuns
<1>9. CtlCounted' /\ Len(ctl'.reports) = Len(ctl.reports) + 1
  BY <1>2, <1>3, <1>6, <1>8, CtlCountsOn DEF CtlInv, CtlFailures
<1>10. CtlEarlyFits'
  <2>1. step \notin CtlEarly /\ step \notin {"mutate", "confirm", "deleting", "preflight", "create"}
    BY DEF CtlEarly
  <2> QED
    BY <1>2, <1>8, <2>1 DEF CtlEarlyFits
<1>11. CtlPollFits'
  <2>1. step \in CtlPolling => step = "describe"
    BY DEF CtlPolling
  <2>2. step # "deployment" /\ step # "check"
    OBVIOUS
  <2>3. step = "describe" => Len(ctl'.reports) < CtlPolls
    BY <1>5, <1>9
  <2>4. ctl.dep # 0 => ctl.dep \in DOMAIN ctlDep
    BY DEF CtlInv, CtlPollFits
  <2> QED
    BY <1>1, <1>2, <1>8, <2>1, <2>2, <2>3, <2>4, Zenon DEF CtlPollFits
<1>12. CtlViewSound' /\ CtlSeenSound'
  BY <1>1, <1>8 DEF CtlInv, CtlViewSound, CtlSeenSound
<1>13. CtlEnded'
  <2>1. step # "done" => code = 0
    BY <1>5
  <2>2. CtlHard(ctl'.view) = CtlHard(ctl.view)
    BY <1>8
  <2> QED
    BY <1>2, <1>5, <1>8, <2>1, <2>2, Zenon DEF CtlEnded
<1>14. LiveIsProven'
  <2>1. SUFFICES ASSUME step = "done", code = 0
                 PROVE  LiveIsProven'
    BY <1>8 DEF LiveIsProven
  <2>2. CtlState = "pass"
    BY <1>5, <2>1
  <2>3. DOMAIN ctl.seen = ctl.view.routes
    BY <2>2 DEF CtlState, CtlJudge
  <2>4. /\ ctl.view.active /\ ctl.view.routes # {}
        /\ \A r \in ctl.view.routes : /\ r \in DOMAIN ctl.seen /\ ctl.seen[r].page = "own"
                                      /\ ctl.seen[r].cert /\ ctl.seen[r].deployed
    BY <2>2, <2>3, CtlPassIsProven DEF CtlInv
  <2>5. ctl.cmd = "deploy wait" => ctl.view.dep = ctl.dep
    BY <1>2
  <2> QED
    BY <1>8, <2>4, <2>5 DEF LiveIsProven
<1> QED
  BY <1>1, <1>8, <1>9, <1>10, <1>11, <1>12, <1>13, <1>14 DEF CtlInv

(* Deployments and the other clients. *)
LEMMA CtlDeploymentMovesKeeps == ASSUME CtlInv, CtlDeploymentMoves PROVE CtlInv'
<1>1. CtlTableOK' /\ ctl' = ctl
  BY DEF CtlDeploymentMoves, CtlInv, CtlTableOK
<1>2. PICK k \in DOMAIN ctlDep, s \in {"building", "success", "failed"} :
        /\ ctlDep[k].status \in (IF s = "building" THEN {"queued"} ELSE {"building"})
        /\ ctlDep' = [ctlDep EXCEPT ![k] = [@ EXCEPT !.status = s]]
  BY DEF CtlDeploymentMoves
<1>3. ctlDep \in Seq(CtlDeps) /\ ctlDep[k] \in CtlDeps
  BY DEF CtlInv
<1> DEFINE new == [ctlDep[k] EXCEPT !.status = s]
<1>4. new \in CtlDeps
  BY <1>3 DEF CtlDeps, CtlStatuses
<1>5. ctlDep' = [ctlDep EXCEPT ![k] = new]
  BY <1>2
<1>6. ctlDep[k].status \notin {"success", "failed", "gone"}
  BY <1>2
<1> HIDE DEF new
<1>7. /\ ctlDep' \in Seq(CtlDeps) /\ DOMAIN ctlDep' = DOMAIN ctlDep
      /\ \A j \in DOMAIN ctlDep : j # k => ctlDep'[j] = ctlDep[j]
  BY <1>3, <1>4, <1>5
<1>8. CtlDepGoesOn
  BY <1>6, <1>7 DEF CtlDepGoesOn
<1> QED
  BY <1>1, <1>8, CtlOthersStep

LEMMA CtlOtherDeploysKeeps == ASSUME CtlInv, CtlOtherDeploys PROVE CtlInv'
<1>1. CtlTableOK' /\ ctl' = ctl
  BY DEF CtlOtherDeploys, CtlOthers, CtlInv, CtlTableOK
<1>2. PICK i \in DOMAIN ctlSvc : ctlDep' = Append(ctlDep, [svc |-> i, status |-> "queued"])
  BY DEF CtlOtherDeploys
<1>3. i \in Nat
  BY DEF CtlInv, CtlTableOK
<1>4. CtlDepGoesOn
  BY <1>2, <1>3, CtlDepAppends
<1> QED
  BY <1>1, <1>4, CtlOthersStep

LEMMA CtlOtherEditsKeeps == ASSUME CtlInv, CtlOtherEdits PROVE CtlInv'
<1>1. ctlNext' = ctlNext /\ ctlDep' = ctlDep /\ ctl' = ctl
  BY DEF CtlOtherEdits, CtlOthers
<1>2. PICK i \in DOMAIN ctlSvc, n \in CtlNames \ CtlTakenNames, r \in CtlRoutes :
        \/ ctlSvc' = [ctlSvc EXCEPT ![i] = [@ EXCEPT !.name = n]]
        \/ ctlSvc' = [ctlSvc EXCEPT ![i] = [@ EXCEPT !.active = ~ctlSvc[i].active]]
        \/ r \notin CtlTakenRoutes /\ ctlSvc' = [ctlSvc EXCEPT ![i] = [@ EXCEPT !.routes = ctlSvc[i].routes \cup {r}]]
  BY DEF CtlOtherEdits
<1>3. CtlTableOK /\ ctlSvc[i] \in CtlRows
  BY DEF CtlInv, CtlTableOK
<1>4. ASSUME NEW j \in DOMAIN ctlSvc \ {i}
      PROVE  /\ ctlSvc[j].name # ctlSvc[i].name /\ ctlSvc[j].routes \cap ctlSvc[i].routes = {}
             /\ ctlSvc[j].name # n /\ (r \notin CtlTakenRoutes => r \notin ctlSvc[j].routes)
  BY <1>3 DEF CtlTableOK, CtlTakenNames, CtlTakenRoutes
<1>5. ASSUME ctlSvc' = [ctlSvc EXCEPT ![i] = [@ EXCEPT !.name = n]] PROVE CtlTableOK'
  <2> DEFINE row == [ctlSvc[i] EXCEPT !.name = n]
  <2>1. row \in CtlRows /\ row.name = n /\ row.routes = ctlSvc[i].routes
    BY <1>3 DEF CtlRows
  <2>2. ctlSvc' = [ctlSvc EXCEPT ![i] = row]
    BY <1>5
  <2> HIDE DEF row
  <2> QED
    BY <1>1, <1>3, <1>4, <2>1, <2>2, CtlTableEdit
<1>6. ASSUME ctlSvc' = [ctlSvc EXCEPT ![i] = [@ EXCEPT !.active = ~ctlSvc[i].active]] PROVE CtlTableOK'
  <2> DEFINE row == [ctlSvc[i] EXCEPT !.active = ~ctlSvc[i].active]
  <2>1. row \in CtlRows /\ row.name = ctlSvc[i].name /\ row.routes = ctlSvc[i].routes
    BY <1>3 DEF CtlRows
  <2>2. ctlSvc' = [ctlSvc EXCEPT ![i] = row]
    BY <1>6
  <2> HIDE DEF row
  <2> QED
    BY <1>1, <1>3, <1>4, <2>1, <2>2, CtlTableEdit
<1>7. ASSUME r \notin CtlTakenRoutes /\ ctlSvc' = [ctlSvc EXCEPT ![i] = [@ EXCEPT !.routes = ctlSvc[i].routes \cup {r}]] PROVE CtlTableOK'
  <2> DEFINE row == [ctlSvc[i] EXCEPT !.routes = ctlSvc[i].routes \cup {r}]
  <2>1. row \in CtlRows /\ row.name = ctlSvc[i].name /\ row.routes = ctlSvc[i].routes \cup {r}
    BY <1>3 DEF CtlRows
  <2>2. ctlSvc' = [ctlSvc EXCEPT ![i] = row]
    BY <1>7
  <2> HIDE DEF row
  <2>3. \A j \in DOMAIN ctlSvc \ {i} : ctlSvc[j].name # row.name /\ ctlSvc[j].routes \cap row.routes = {}
    BY <1>4, <1>7, <2>1
  <2> QED
    BY <1>1, <1>3, <2>1, <2>2, <2>3, CtlTableEdit
<1>8. CtlDepGoesOn
  BY <1>1 DEF CtlInv, CtlDepGoesOn
<1> QED
  BY <1>1, <1>2, <1>5, <1>6, <1>7, <1>8, CtlOthersStep

LEMMA CtlOtherCreatesKeeps == ASSUME CtlInv, CtlOtherCreates PROVE CtlInv'
<1>1. CtlDepGoesOn /\ ctl' = ctl
  BY DEF CtlOtherCreates, CtlOthers, CtlInv, CtlDepGoesOn
<1>2. PICK n \in CtlNames \ CtlTakenNames, R \in SUBSET (CtlRoutes \ CtlTakenRoutes) : CtlStores(n, R)
  BY DEF CtlOtherCreates
<1>3. n \in CtlNames /\ n \notin CtlTakenNames /\ R \in SUBSET CtlRoutes /\ R \cap CtlTakenRoutes = {}
  OBVIOUS
<1>4. CtlTableOK'
  BY <1>2, <1>3, CtlTableStores DEF CtlInv
<1> QED
  BY <1>1, <1>4, CtlOthersStep

LEMMA CtlOtherDeletesKeeps == ASSUME CtlInv, CtlOtherDeletes PROVE CtlInv'
<1>1. ctlNext' = ctlNext /\ ctl' = ctl
  BY DEF CtlOtherDeletes, CtlOthers
<1>2. PICK i \in DOMAIN ctlSvc : CtlWithout(i)
  BY DEF CtlOtherDeletes
<1>3. CtlTableOK' /\ CtlDepGoesOn
  BY <1>1, <1>2, CtlTableWithout DEF CtlInv
<1> QED
  BY <1>1, <1>3, CtlOthersStep

LEMMA CtlInvNext == CtlInv /\ [CtlNext]_CtlVars => CtlInv'
<1> SUFFICES ASSUME CtlInv, [CtlNext]_CtlVars PROVE CtlInv'
  OBVIOUS
<1>1. CASE UNCHANGED CtlVars
  <2>1. CtlTableOK' /\ CtlDepGoesOn /\ ctl' = ctl
    BY <1>1 DEF CtlVars, CtlInv, CtlTableOK, CtlDepGoesOn
  <2> QED
    BY <2>1, CtlOthersStep
<1>2. CASE CtlNext
  BY <1>2, CtlRunKeeps, CtlResolveKeeps, CtlMutateKeeps, CtlDeleteConfirmKeeps, CtlDeleteKeeps,
     CtlPreflightKeeps, CtlCreateKeeps, CtlTriggerKeeps, CtlDescribeKeeps, CtlGetDeploymentKeeps,
     CtlJudgeKeeps, CtlProbeKeeps, CtlDeploymentMovesKeeps, CtlOtherDeploysKeeps, CtlOtherEditsKeeps,
     CtlOtherCreatesKeeps, CtlOtherDeletesKeeps DEF CtlNext
<1> QED
  BY <1>1, <1>2

(* What the counted failures say of the last reports. *)
LEMMA CtlInvIsSound == CtlInv => VerdictIsSound
<1> SUFFICES ASSUME CtlInv PROVE VerdictIsSound
  OBVIOUS
<1>1. ctl \in CtlRuns /\ ctl.reports \in Seq(CtlStates) /\ ctl.fails \in Nat
  BY DEF CtlInv, CtlRuns
<1>2. CtlTypeOK
  <2>1. /\ DOMAIN ctlSvc \subseteq 1 .. ctlNext - 1
        /\ \A i \in DOMAIN ctlSvc : /\ ctlSvc[i].name \in CtlNames /\ ctlSvc[i].routes \subseteq CtlRoutes
                                   /\ \A j \in DOMAIN ctlSvc \ {i} : /\ ctlSvc[i].name # ctlSvc[j].name
                                                                    /\ ctlSvc[i].routes \cap ctlSvc[j].routes = {}
    <3>1. \A i \in DOMAIN ctlSvc : ctlSvc[i] \in CtlRows
      BY DEF CtlInv, CtlTableOK
    <3> QED
      BY <3>1 DEF CtlInv, CtlTableOK, CtlRows
  <2>2. ASSUME NEW k \in DOMAIN ctlDep
        PROVE  ctlDep[k].status \in {"queued", "building", "success", "failed", "gone"}
    <3>1. ctlDep[k] \in CtlDeps
      BY DEF CtlInv
    <3> QED
      BY <3>1 DEF CtlDeps, CtlStatuses
  <2>3. ctl.exit \in CtlExits /\ \A k \in DOMAIN ctl.reports : ctl.reports[k] \in CtlStates
    BY <1>1 DEF CtlRuns
  <2>4. Len(ctl.reports) <= CtlPolls /\ DOMAIN ctl.seen \subseteq ctl.view.routes
    BY DEF CtlInv, CtlCounted, CtlSeenSound
  <2> QED
    BY <2>1, <2>2, <2>3, <2>4 DEF CtlTypeOK
<1>3. LiveIsProven
  BY DEF CtlInv
<1>4. FailureIsOwn
  <2>1. SUFFICES ASSUME ctl.step = "done", ctl.exit = 1, ctl.cmd = "deploy wait", ctl.view.active,
                        ctl.view.status = "failed"
                 PROVE  ctl.view.dep = ctl.dep /\ ctlDep[ctl.dep].status \in {"failed", "gone"}
    BY DEF FailureIsOwn
  <2> QED
    BY <2>1 DEF CtlInv, CtlEnded, CtlViewSound
<1>5. RouteFailureRepeats
  <2>1. SUFFICES ASSUME ctl.fails >= CtlFailAfter
                 PROVE  /\ Len(ctl.reports) >= CtlFailAfter
                        /\ \A k \in 0 .. CtlFailAfter - 1 : ctl.reports[Len(ctl.reports) - k] = "fail"
    BY DEF CtlInv, CtlEnded, RouteFailureRepeats
  <2>2. /\ Len(ctl.reports) \in Nat /\ ctl.fails <= Len(ctl.reports) /\ CtlFailAfter \in Nat
        /\ \A k \in Nat : k < ctl.fails => ctl.reports[Len(ctl.reports) - k] = "fail"
    BY <1>1, CtlBounds DEF CtlInv, CtlCounted
  <2>3. \A k \in 0 .. CtlFailAfter - 1 : k \in Nat /\ k < ctl.fails
    BY <1>1, <2>1, <2>2
  <2>4. Len(ctl.reports) >= CtlFailAfter
    BY <1>1, <2>1, <2>2
  <2>5. \A k \in 0 .. CtlFailAfter - 1 : ctl.reports[Len(ctl.reports) - k] = "fail"
    BY <2>2, <2>3, Zenon
  <2> QED
    BY <2>4, <2>5, Zenon
<1>6. ConflictCreatesNothing
  BY DEF CtlInv, CtlEnded, ConflictCreatesNothing
<1> QED
  BY <1>2, <1>3, <1>4, <1>5, <1>6 DEF VerdictIsSound

(* The exit code of every command tells what has happened, for any number of
   services, names, routes, deployments, polls and moves of other clients, and
   whatever number of failing polls ends a wait. *)
THEOREM VerdictIsSoundHolds == CtlSpec => []VerdictIsSound
BY CtlInvInit, CtlInvNext, CtlInvIsSound, PTL DEF CtlSpec

(* A command changes no service but the one its argument named when it was
   resolved, however services are renamed, created and deleted meanwhile. *)
THEOREM ActsOnResolvedHolds == CtlSpec => ActsOnResolved
<1> DEFINE Spared == ctl.step \in {"mutate", "deleting"} /\ ctl'.step = "done"
                       => \A i \in DOMAIN ctlSvc \ {ctl.svc} : i \in DOMAIN ctlSvc' /\ ctlSvc'[i] = ctlSvc[i]
<1>1. CtlNext => Spared
  <2> SUFFICES ASSUME CtlNext, ctl.step \in {"mutate", "deleting"}, ctl'.step = "done",
                      NEW i \in DOMAIN ctlSvc \ {ctl.svc}
               PROVE  i \in DOMAIN ctlSvc' /\ ctlSvc'[i] = ctlSvc[i]
    BY Zenon
  <2>1. ctl' # ctl /\ ctl.step \notin {"idle", "resolve", "confirm", "preflight", "create", "describe", "deployment", "check"}
    OBVIOUS
  <2>2. CASE CtlMutate
    BY <2>2 DEF CtlMutate, CtlTarget
  <2>3. CASE CtlDelete
    BY <2>3 DEF CtlDelete, CtlTarget, CtlWithout
  <2>4. CASE CtlTrigger
    BY <2>4 DEF CtlTrigger
  <2>5. ~(CtlDeploymentMoves \/ CtlOtherDeploys \/ CtlOtherEdits \/ CtlOtherCreates \/ CtlOtherDeletes)
    BY <2>1 DEF CtlDeploymentMoves, CtlOtherDeploys, CtlOtherEdits, CtlOtherCreates, CtlOtherDeletes, CtlOthers
  <2>6. ~(CtlRun \/ CtlResolve \/ CtlDeleteConfirm \/ CtlPreflight \/ CtlCreate \/ CtlDescribe \/ CtlGetDeployment
           \/ CtlJudge \/ \E r \in CtlRoutes : CtlProbe(r))
    BY <2>1, Zenon DEF CtlRun, CtlResolve, CtlDeleteConfirm, CtlPreflight, CtlCreate, CtlDescribe, CtlGetDeployment,
       CtlJudge, CtlProbe, CtlAt
  <2> QED
    BY <2>2, <2>3, <2>4, <2>5, <2>6 DEF CtlNext
<1>2. [CtlNext]_CtlVars => [Spared]_CtlVars
  BY <1>1
<1> QED
  BY <1>2, PTL DEF CtlSpec, ActsOnResolved

-----------------------------------------------------------------------------
(***************************************************************************)
(* ServiceDialog                                                           *)
(***************************************************************************)

(* What the fields of the dialog may hold. *)
DlgTitles == DlgNames \cup DlgInferreds \cup {DlgNone}
DlgLines == DlgBranches \cup DlgDefaults \cup {"main"}
DlgPlaces == DlgDomains \cup {DlgNone}
DlgForms ==
  [open : BOOLEAN, text : DlgRepos \cup {DlgNone, "junk"}, repo : DlgRepos \cup {DlgNone},
   name : DlgTitles, inferred : DlgInferreds \cup {DlgNone}, branch : DlgLines, domain : DlgPlaces,
   error : BOOLEAN, ownName : DlgNames \cup {DlgNone}, ownBranch : DlgBranches \cup {DlgNone}]
DlgSubmissions ==
  [n : Nat, step : {"create", "created", "route", "routed", "refused"}, id : Nat, domain : DlgPlaces, httpOnly : BOOLEAN, form : DlgForms,
   name : DlgTitles, repo : DlgRepos \cup {DlgNone}, branch : DlgLines]
DlgRows ==
  [live : BOOLEAN, name : DlgTitles, repo : DlgRepos \cup {DlgNone, "other"}, branch : DlgLines,
   routes : SUBSET DlgDomains]

(* The fields hold what was typed, unless it may have been inferred. *)
DlgFieldsFit(f) ==
  /\ f.ownName \notin {DlgNone} \cup DlgInferreds => f.name = f.ownName
  /\ f.ownBranch \notin {DlgNone, "main"} => f.branch = f.ownBranch

DlgCounts == [moves : Nat, attempts : Nat, others : Nat]

DlgServerOK ==
  /\ dlgServices \in Seq(DlgRows)
  /\ DOMAIN dlgOwner \subseteq DlgDomains /\ dlgOwner \in [DOMAIN dlgOwner -> Nat]

(* The flag keeps submissions apart. *)
DlgOneCall ==
  /\ dlgCalls \subseteq DlgSubmissions
  /\ \/ dlgAdding = FALSE /\ dlgCalls = {}
     \/ dlgAdding = TRUE /\ \E c \in dlgCalls : dlgCalls = {c}

(* A submission whose service was created has its row, and asks for the domain
   that the page fixes; when the answer is under way, the row has the route. *)
DlgCallFits(c) ==
  /\ c.form.text \in DlgRepos => c.repo = c.form.text
  /\ c.form.ownName \notin {DlgNone} \cup DlgInferreds => c.name = c.form.ownName
  /\ c.form.ownBranch \notin {DlgNone, "main"} => c.branch = c.form.ownBranch
  /\ c.step \in {"created", "route", "routed"} =>
       c.id \in DOMAIN dlgServices /\ c.id # 0 /\ dlgServices[c.id].name = c.name
  /\ c.step \in {"route", "routed"} => c.domain \in DlgDomains /\ (dlgPage # DlgNone => c.domain = dlgPage)
  /\ c.step = "routed" => c.domain \in dlgServices[c.id].routes

DlgInv ==
  /\ dlgPage \in DlgPlaces /\ dlgForm \in DlgForms /\ DlgFieldsFit(dlgForm)
  /\ dlgCount \in DlgCounts /\ DlgServerOK /\ DlgOneCall /\ \A c \in dlgCalls : DlgCallFits(c)

(* Rows are added, and keep their names and the routes that were stored. *)
DlgRowsStay ==
  /\ DlgServerOK' /\ DOMAIN dlgServices \subseteq DOMAIN dlgServices'
  /\ \A s \in DOMAIN dlgServices :
       dlgServices'[s].name = dlgServices[s].name /\ dlgServices[s].routes \subseteq dlgServices'[s].routes

-----------------------------------------------------------------------------
(* The fields *)

LEMMA DlgEmptyFits == DlgEmpty \in DlgForms /\ DlgFieldsFit(DlgEmpty) /\ DlgEmpty.error = FALSE
<1>1. DlgEmpty = [open |-> FALSE, text |-> DlgNone, repo |-> DlgNone, name |-> DlgNone, inferred |-> DlgNone,
                  branch |-> "main", domain |-> DlgNone, error |-> FALSE, ownName |-> DlgNone, ownBranch |-> DlgNone]
  BY DEF DlgEmpty
<1> QED
  BY <1>1 DEF DlgForms, DlgFieldsFit, DlgTitles, DlgLines, DlgPlaces

LEMMA DlgParsedFits ==
  ASSUME NEW f \in DlgForms, DlgFieldsFit(f)
  PROVE  /\ DlgParsed(f) \in DlgForms /\ DlgFieldsFit(DlgParsed(f))
         /\ DlgParsed(f).text = f.text /\ (f.text \in DlgRepos => DlgParsed(f).repo = f.text)
<1>1. CASE f.text \notin DlgRepos
  BY <1>1 DEF DlgParsed
<1>2. CASE f.text \in DlgRepos
  <2> DEFINE guess == DlgInferred[f.text]
             name == IF f.name \in {DlgNone, f.inferred} THEN guess ELSE f.name
             branch == IF dlgKnown /\ f.branch \in {DlgNone, "main"} THEN DlgDefault[f.text] ELSE f.branch
             g == [f EXCEPT !.name = name, !.inferred = guess]
  <2>1. DlgParsed(f) = [g EXCEPT !.repo = f.text,
          !.branch = IF dlgKnown /\ @ \in {DlgNone, "main"} THEN DlgDefault[f.text] ELSE @]
    BY <1>2 DEF DlgParsed, DlgInfer
  <2>2. guess \in DlgInferreds /\ DlgDefault[f.text] \in DlgDefaults
    BY <1>2 DEF DlgInferreds, DlgDefaults
  <2>3. /\ name \in DlgTitles
        /\ f.ownName \notin {DlgNone} \cup DlgInferreds => name = f.ownName
    <3>1. f.name \in DlgTitles /\ guess \in DlgTitles /\ f.inferred \in DlgInferreds \cup {DlgNone}
      BY <2>2 DEF DlgForms, DlgTitles
    <3>2. f.ownName \notin {DlgNone} \cup DlgInferreds => f.name = f.ownName
      BY DEF DlgFieldsFit
    <3> HIDE DEF guess
    <3> QED
      BY <3>1, <3>2
  <2>4. branch = f.branch \/ (f.branch \in {DlgNone, "main"} /\ branch = DlgDefault[f.text])
    BY Zenon
  <2> HIDE DEF guess, name, branch
  <2>5. g.branch = f.branch /\ g \in DlgForms /\ g.text = f.text /\ g.ownName = f.ownName
        /\ g.ownBranch = f.ownBranch /\ g.name = name
    BY <2>2, <2>3 DEF DlgForms
  <2> HIDE DEF g
  <2>6. DlgParsed(f) = [g EXCEPT !.repo = f.text, !.branch = branch]
    BY <2>1, <2>5 DEF branch
  <2>7. /\ branch \in DlgLines
        /\ f.ownBranch \notin {DlgNone, "main"} => branch = f.ownBranch
    <3>1. f.branch \in DlgLines /\ DlgDefault[f.text] \in DlgLines
      BY <2>2 DEF DlgForms, DlgLines
    <3>2. f.ownBranch \notin {DlgNone, "main"} => f.branch = f.ownBranch
      BY DEF DlgFieldsFit
    <3> QED
      BY <2>4, <3>1, <3>2
  <2>8. /\ DlgParsed(f) \in DlgForms /\ DlgParsed(f).name = name /\ DlgParsed(f).branch = branch
        /\ DlgParsed(f).repo = f.text /\ DlgParsed(f).text = f.text
        /\ DlgParsed(f).ownName = f.ownName /\ DlgParsed(f).ownBranch = f.ownBranch
    BY <1>2, <2>5, <2>6, <2>7, ZenonT(60) DEF DlgForms
  <2> QED
    BY <2>3, <2>7, <2>8 DEF DlgFieldsFit
<1> QED
  BY <1>1, <1>2

-----------------------------------------------------------------------------
(* The steps *)

LEMMA DlgInvInit == DlgInit => DlgInv
<1> SUFFICES ASSUME DlgInit PROVE DlgInv
  OBVIOUS
<1>1. dlgForm \in DlgForms /\ DlgFieldsFit(dlgForm)
  BY DlgEmptyFits DEF DlgInit
<1>2. DlgServerOK
  <2>1. PICK here \in SUBSET DlgDomains : dlgOwner = [d \in here |-> 0]
    BY DEF DlgInit
  <2>2. dlgServices \in Seq(DlgRows)
    BY DEF DlgInit
  <2> QED
    BY <2>1, <2>2 DEF DlgServerOK
<1>3. dlgPage \in DlgPlaces
  BY DEF DlgInit, DlgPlaces
<1>4. DlgOneCall /\ dlgCalls = {}
  BY DEF DlgInit, DlgOneCall
<1>5. dlgCount \in DlgCounts
  BY DEF DlgInit, DlgCounts
<1> QED
  BY <1>1, <1>2, <1>3, <1>4, <1>5 DEF DlgInv

(* The fields change, or others act. *)
LEMMA DlgFieldsStep ==
  ASSUME DlgInv, dlgForm' \in DlgForms, DlgFieldsFit(dlgForm'), DlgRowsStay,
         dlgPage' = dlgPage, dlgCalls' = dlgCalls, dlgAdding' = dlgAdding, dlgCount' \in DlgCounts
  PROVE  DlgInv'
<1>1. DlgOneCall'
  BY DEF DlgInv, DlgOneCall
<1>2. \A c \in dlgCalls' : DlgCallFits(c)'
  BY DEF DlgInv, DlgCallFits, DlgRowsStay
<1> QED
  BY <1>1, <1>2 DEF DlgInv, DlgRowsStay

(* The submission is over. *)
LEMMA DlgEndStep ==
  ASSUME DlgInv, NEW c \in dlgCalls, DlgAnnounce(c) \/ DlgFails(c), DlgRowsStay, dlgPage' = dlgPage,
         dlgCount' = dlgCount
  PROVE  DlgInv'
<1>1. dlgCalls' = {} /\ dlgAdding' = FALSE
  BY DEF DlgAnnounce, DlgFails, DlgEnd, DlgInv, DlgOneCall
<1>2. dlgForm' \in DlgForms /\ DlgFieldsFit(dlgForm')
  <2>1. CASE DlgAnnounce(c)
    BY <2>1, DlgEmptyFits DEF DlgAnnounce
  <2>2. CASE DlgFails(c)
    <3>1. dlgForm' = [dlgForm EXCEPT !.error = TRUE] /\ dlgForm \in DlgForms /\ DlgFieldsFit(dlgForm)
      BY <2>2 DEF DlgFails, DlgInv
    <3> QED
      BY <3>1 DEF DlgForms, DlgFieldsFit
  <2> QED
    BY <2>1, <2>2
<1>3. DlgOneCall'
  BY <1>1 DEF DlgOneCall
<1> QED
  BY <1>1, <1>2, <1>3 DEF DlgInv, DlgRowsStay

LEMMA DlgServerRests == ASSUME DlgInv, UNCHANGED DlgServer PROVE DlgRowsStay
BY DEF DlgInv, DlgServer, DlgRowsStay, DlgServerOK

LEMMA DlgMoveCounts == ASSUME DlgInv, DlgMove PROVE dlgCount' \in DlgCounts
<1>1. dlgCount \in DlgCounts /\ dlgCount' = [dlgCount EXCEPT !.moves = @ + 1]
  BY DEF DlgInv, DlgMove
<1> QED
  BY <1>1 DEF DlgCounts

(* A row is added. *)
LEMMA DlgAppends ==
  ASSUME DlgInv, NEW row \in DlgRows, dlgServices' = Append(dlgServices, row),
         DOMAIN dlgOwner' \subseteq DlgDomains, dlgOwner' \in [DOMAIN dlgOwner' -> Nat]
  PROVE  /\ DlgRowsStay /\ Len(dlgServices) + 1 \in DOMAIN dlgServices' /\ Len(dlgServices) + 1 # 0
         /\ Len(dlgServices) + 1 \in Nat /\ dlgServices'[Len(dlgServices) + 1] = row
<1>1. dlgServices \in Seq(DlgRows)
  BY DEF DlgInv, DlgServerOK
<1>2. /\ dlgServices' \in Seq(DlgRows) /\ DOMAIN dlgServices \subseteq DOMAIN dlgServices'
      /\ \A s \in DOMAIN dlgServices : dlgServices'[s] = dlgServices[s]
      /\ Len(dlgServices) + 1 \in DOMAIN dlgServices' /\ Len(dlgServices) + 1 # 0
      /\ Len(dlgServices) + 1 \in Nat /\ dlgServices'[Len(dlgServices) + 1] = row
  BY <1>1
<1> QED
  BY <1>2 DEF DlgRowsStay, DlgServerOK

LEMMA DlgEditKeeps ==
  ASSUME DlgInv, NEW f \in DlgForms, DlgFieldsFit(f), DlgEdit(f)
  PROVE  DlgInv'
BY DlgServerRests, DlgMoveCounts, DlgFieldsStep DEF DlgEdit

LEMMA DlgTypesKeeps == ASSUME DlgInv, DlgTypes PROVE DlgInv'
<1>1. dlgForm \in DlgForms /\ DlgFieldsFit(dlgForm)
  BY DEF DlgInv
<1>2. ASSUME NEW text \in DlgRepos \cup {DlgNone, "junk"}, DlgEdit(DlgParsed([dlgForm EXCEPT !.text = text]))
      PROVE  DlgInv'
  <2> DEFINE f == [dlgForm EXCEPT !.text = text]
  <2>1. f \in DlgForms /\ DlgFieldsFit(f)
    BY <1>1 DEF DlgForms, DlgFieldsFit
  <2> HIDE DEF f
  <2>2. DlgParsed(f) \in DlgForms /\ DlgFieldsFit(DlgParsed(f))
    BY <2>1, DlgParsedFits
  <2> QED
    BY <1>2, <2>2, DlgEditKeeps DEF f
<1>3. CASE DlgEdit(DlgParsed(dlgForm))
  <2>1. DlgParsed(dlgForm) \in DlgForms /\ DlgFieldsFit(DlgParsed(dlgForm))
    BY <1>1, DlgParsedFits
  <2> QED
    BY <1>3, <2>1, DlgEditKeeps
<1>4. ASSUME NEW n \in DlgNames, DlgEdit([dlgForm EXCEPT !.name = n, !.ownName = n])
      PROVE  DlgInv'
  <2> DEFINE f == [dlgForm EXCEPT !.name = n, !.ownName = n]
  <2>1. n \in DlgTitles
    BY DEF DlgTitles
  <2>2. f \in DlgForms /\ DlgFieldsFit(f)
    BY <1>1, <2>1 DEF DlgForms, DlgFieldsFit
  <2> HIDE DEF f
  <2> QED
    BY <1>4, <2>2, DlgEditKeeps DEF f
<1>5. ASSUME NEW b \in DlgBranches, DlgEdit([dlgForm EXCEPT !.branch = b, !.ownBranch = b])
      PROVE  DlgInv'
  <2> DEFINE f == [dlgForm EXCEPT !.branch = b, !.ownBranch = b]
  <2>1. b \in DlgLines
    BY DEF DlgLines
  <2>2. f \in DlgForms /\ DlgFieldsFit(f)
    BY <1>1, <2>1 DEF DlgForms, DlgFieldsFit
  <2> HIDE DEF f
  <2> QED
    BY <1>5, <2>2, DlgEditKeeps DEF f
<1> QED
  BY <1>2, <1>3, <1>4, <1>5 DEF DlgTypes

LEMMA DlgPicksKeeps == ASSUME DlgInv, DlgPicks PROVE DlgInv'
<1>1. PICK d \in DOMAIN dlgOwner \cup {DlgNone} : DlgEdit([dlgForm EXCEPT !.domain = d])
  BY DEF DlgPicks
<1> DEFINE f == [dlgForm EXCEPT !.domain = d]
<1>2. d \in DlgPlaces
  BY DEF DlgPlaces, DlgInv, DlgServerOK
<1>3. dlgForm \in DlgForms /\ DlgFieldsFit(dlgForm)
  BY DEF DlgInv
<1>4. f \in DlgForms /\ DlgFieldsFit(f)
  BY <1>2, <1>3 DEF DlgForms, DlgFieldsFit
<1> HIDE DEF f
<1> QED
  BY <1>1, <1>4, DlgEditKeeps DEF f

LEMMA DlgOpenKeeps == ASSUME DlgInv, DlgOpen PROVE DlgInv'
<1> DEFINE only == CHOOSE d \in DOMAIN dlgOwner : TRUE
           domain == IF dlgPage = DlgNone /\ \E d \in DlgDomains : DOMAIN dlgOwner = {d} THEN only ELSE dlgForm.domain
<1>1. dlgForm \in DlgForms /\ DlgFieldsFit(dlgForm)
  BY DEF DlgInv
<1>2. domain \in DlgPlaces
  <2>1. CASE \E d \in DlgDomains : DOMAIN dlgOwner = {d}
    <3>1. only \in DOMAIN dlgOwner
      BY <2>1
    <3>2. only \in DlgPlaces /\ dlgForm.domain \in DlgPlaces
      BY <1>1, <3>1 DEF DlgInv, DlgServerOK, DlgPlaces, DlgForms
    <3> QED
      BY <3>2
  <2>2. CASE ~\E d \in DlgDomains : DOMAIN dlgOwner = {d}
    BY <1>1, <2>2 DEF DlgForms
  <2> QED
    BY <2>1, <2>2
<1>3. dlgForm' = [dlgForm EXCEPT !.open = TRUE, !.domain = domain]
  BY DEF DlgOpen
<1> HIDE DEF domain
<1>4. dlgForm' \in DlgForms /\ DlgFieldsFit(dlgForm')
  BY <1>1, <1>2, <1>3 DEF DlgForms, DlgFieldsFit
<1> QED
  BY <1>4, DlgServerRests, DlgMoveCounts, DlgFieldsStep DEF DlgOpen

LEMMA DlgCloseKeeps == ASSUME DlgInv, DlgClose PROVE DlgInv'
<1>1. dlgForm' \in DlgForms /\ DlgFieldsFit(dlgForm')
  BY DlgEmptyFits DEF DlgClose
<1> QED
  BY <1>1, DlgServerRests, DlgFieldsStep DEF DlgClose, DlgAddingClosed, DlgInv

LEMMA DlgReposArriveKeeps == ASSUME DlgInv, DlgReposArrive PROVE DlgInv'
<1>1. dlgForm' = dlgForm /\ dlgForm' \in DlgForms /\ DlgFieldsFit(dlgForm')
  BY DEF DlgReposArrive, DlgInv
<1> QED
  BY <1>1, DlgServerRests, DlgFieldsStep DEF DlgReposArrive, DlgInv

LEMMA DlgSubmitKeeps == ASSUME DlgInv, DlgSubmit PROVE DlgInv'
<1> DEFINE f == DlgParsed(dlgForm)
           branch == IF f.branch = DlgNone THEN "main" ELSE f.branch
           c == [n |-> dlgCount.attempts, step |-> "create", id |-> 0, domain |-> DlgNone, httpOnly |-> FALSE,
                 form |-> f, name |-> f.name, repo |-> f.repo, branch |-> branch]
<1>1. dlgForm \in DlgForms /\ DlgFieldsFit(dlgForm) /\ dlgCount \in DlgCounts
  BY DEF DlgInv
<1>2. /\ f \in DlgForms /\ DlgFieldsFit(f) /\ f.text = dlgForm.text
      /\ f.text \in DlgRepos => f.repo = f.text
  BY <1>1, DlgParsedFits
<1>3. dlgCalls = {} /\ dlgCalls' = dlgCalls \cup {c} /\ dlgAdding' = TRUE
  <2>1. dlgAdding # TRUE
    BY DEF DlgSubmit
  <2>2. dlgCalls = {}
    BY <2>1 DEF DlgInv, DlgOneCall
  <2> QED
    BY <2>2 DEF DlgSubmit
<1>4. /\ dlgForm' = [f EXCEPT !.error = FALSE] /\ dlgPage' = dlgPage
      /\ dlgCount' = [dlgCount EXCEPT !.attempts = @ + 1] /\ UNCHANGED DlgServer
  BY DEF DlgSubmit
<1> HIDE DEF f
<1>5. branch \in DlgLines /\ (f.ownBranch \notin {DlgNone, "main"} => branch = f.ownBranch)
  <2>1. f.branch \in DlgLines /\ "main" \in DlgLines
    BY <1>2 DEF DlgForms, DlgLines
  <2>2. f.ownBranch \notin {DlgNone, "main"} => f.branch = f.ownBranch
    BY <1>2 DEF DlgFieldsFit
  <2> QED
    BY <2>1, <2>2
<1> HIDE DEF branch
<1>6. c \in DlgSubmissions
  BY <1>1, <1>2, <1>5 DEF DlgSubmissions, DlgForms, DlgCounts, DlgPlaces
<1>7. /\ c.form = f /\ c.name = f.name /\ c.repo = f.repo /\ c.branch = branch /\ c.step = "create"
  OBVIOUS
<1> HIDE DEF c
<1>8. DlgOneCall'
  <2>1. c \in dlgCalls' /\ dlgCalls' = {c}
    BY <1>3
  <2>2. dlgCalls' \subseteq DlgSubmissions
    BY <1>6, <2>1
  <2>3. \E d \in dlgCalls' : dlgCalls' = {d}
    BY <2>1
  <2> QED
    BY <1>3, <2>2, <2>3 DEF DlgOneCall
<1>9. ASSUME NEW d \in dlgCalls'
      PROVE  DlgCallFits(d)'
  <2>1. d = c
    BY <1>3
  <2>2. /\ d.form = f /\ d.name = f.name /\ d.repo = f.repo /\ d.branch = branch /\ d.step = "create"
    BY <1>7, <2>1
  <2>3. d.form.text \in DlgRepos => d.repo = d.form.text
    BY <1>2, <2>2
  <2>4. d.form.ownName \notin {DlgNone} \cup DlgInferreds => d.name = d.form.ownName
    BY <1>2, <2>2 DEF DlgFieldsFit
  <2>5. d.form.ownBranch \notin {DlgNone, "main"} => d.branch = d.form.ownBranch
    BY <1>5, <2>2
  <2> QED
    BY <2>2, <2>3, <2>4, <2>5 DEF DlgCallFits
<1>10. dlgForm' \in DlgForms /\ DlgFieldsFit(dlgForm')
  BY <1>2, <1>4 DEF DlgForms, DlgFieldsFit
<1>11. dlgCount' \in DlgCounts
  BY <1>1, <1>4 DEF DlgCounts
<1>12. DlgServerOK'
  BY <1>4, DlgServerRests DEF DlgRowsStay
<1> QED
  BY <1>4, <1>8, <1>9, <1>10, <1>11, <1>12 DEF DlgInv

(* The service is created, and its route is next. *)
LEMMA DlgCreateStores ==
  ASSUME DlgInv, NEW c \in dlgCalls, dlgServices' = Append(dlgServices, DlgRow(c)), dlgOwner' = dlgOwner
  PROVE  /\ DlgRowsStay /\ Len(dlgServices) + 1 \in DOMAIN dlgServices' /\ Len(dlgServices) + 1 # 0
         /\ Len(dlgServices) + 1 \in Nat /\ dlgServices'[Len(dlgServices) + 1].name = c.name
<1>1. c \in DlgSubmissions
  BY DEF DlgInv, DlgOneCall
<1>2. DlgRow(c) \in DlgRows /\ DlgRow(c).name = c.name
  BY <1>1 DEF DlgRow, DlgRows, DlgSubmissions
<1>3. DOMAIN dlgOwner' \subseteq DlgDomains /\ dlgOwner' \in [DOMAIN dlgOwner' -> Nat]
  BY DEF DlgInv, DlgServerOK
<1> QED
  BY <1>2, <1>3, DlgAppends

(* The submission goes on. *)
LEMMA DlgGoesOn ==
  ASSUME DlgInv, NEW c \in dlgCalls, NEW next \in DlgSubmissions, dlgCalls' = (dlgCalls \ {c}) \cup {next},
         next.form = c.form, next.name = c.name, next.repo = c.repo, next.branch = c.branch,
         next.step \in {"created", "route", "routed"} =>
           next.id \in DOMAIN dlgServices' /\ next.id # 0 /\ dlgServices'[next.id].name = next.name,
         next.step \in {"route", "routed"} =>
           next.domain \in DlgDomains /\ (dlgPage # DlgNone => next.domain = dlgPage),
         next.step = "routed" => next.domain \in dlgServices'[next.id].routes,
         DlgRowsStay, dlgPage' = dlgPage, dlgForm' = dlgForm, dlgAdding' = dlgAdding, dlgCount' = dlgCount
  PROVE  DlgInv'
<1>1. dlgCalls = {c} /\ dlgAdding = TRUE /\ DlgCallFits(c)
  BY DEF DlgInv, DlgOneCall
<1>2. dlgCalls' = {next}
  BY <1>1
<1>3. DlgOneCall'
  <2>1. dlgCalls' \subseteq DlgSubmissions /\ \E d \in dlgCalls' : dlgCalls' = {d}
    BY <1>2
  <2> QED
    BY <1>1, <2>1 DEF DlgOneCall
<1>4. DlgCallFits(next)'
  <2>1. /\ next.form.text \in DlgRepos => next.repo = next.form.text
        /\ next.form.ownName \notin {DlgNone} \cup DlgInferreds => next.name = next.form.ownName
        /\ next.form.ownBranch \notin {DlgNone, "main"} => next.branch = next.form.ownBranch
    BY <1>1 DEF DlgCallFits
  <2> QED
    BY <2>1 DEF DlgCallFits
<1>5. \A d \in dlgCalls' : DlgCallFits(d)'
  BY <1>2, <1>4
<1> QED
  BY <1>3, <1>5 DEF DlgInv, DlgRowsStay

LEMMA DlgRepliesKeeps ==
  ASSUME DlgInv, NEW c \in dlgCalls, NEW step \in {"created", "routed", "refused"}, NEW id \in Nat,
         DlgReplies(c, step, id), DlgRowsStay,
         step # "refused" => id \in DOMAIN dlgServices' /\ id # 0 /\ dlgServices'[id].name = c.name,
         step = "routed" => c.step = "route" /\ c.domain \in dlgServices'[id].routes
  PROVE  DlgInv'
<1> DEFINE next == [c EXCEPT !.step = step, !.id = id]
<1>1. c \in DlgSubmissions /\ DlgCallFits(c)
  BY DEF DlgInv, DlgOneCall
<1>2. /\ next \in DlgSubmissions /\ next.step = step /\ next.id = id /\ next.domain = c.domain
      /\ next.form = c.form /\ next.name = c.name /\ next.repo = c.repo /\ next.branch = c.branch
  BY <1>1 DEF DlgSubmissions
<1>3. /\ dlgCalls' = (dlgCalls \ {c}) \cup {next} /\ dlgPage' = dlgPage /\ dlgForm' = dlgForm
      /\ dlgAdding' = dlgAdding /\ dlgCount' = dlgCount
  BY DEF DlgReplies
<1> HIDE DEF next
<1>4. next.step \in {"created", "route", "routed"} =>
        next.id \in DOMAIN dlgServices' /\ next.id # 0 /\ dlgServices'[next.id].name = next.name
  BY <1>2
<1>5. next.step \in {"route", "routed"} =>
        next.domain \in DlgDomains /\ (dlgPage # DlgNone => next.domain = dlgPage)
  BY <1>1, <1>2 DEF DlgCallFits
<1>6. next.step = "routed" => next.domain \in dlgServices'[next.id].routes
  BY <1>2
<1> QED
  BY <1>2, <1>3, <1>4, <1>5, <1>6, DlgGoesOn

LEMMA DlgCreateKeeps == ASSUME DlgInv, NEW c \in dlgCalls, DlgCreate(c) PROVE DlgInv'
<1>1. c \in DlgSubmissions /\ dlgOwner' = dlgOwner
  BY DEF DlgInv, DlgOneCall, DlgCreate
<1>2. c.id \in Nat
  BY <1>1 DEF DlgSubmissions
<1>3. CASE DlgReplies(c, "refused", c.id) /\ UNCHANGED dlgServices
  <2>1. DlgRowsStay
    BY <1>1, <1>3, DlgServerRests DEF DlgServer
  <2> QED
    BY <1>2, <1>3, <2>1, DlgRepliesKeeps
<1>4. CASE dlgServices' = Append(dlgServices, DlgRow(c)) /\ DlgReplies(c, "created", Len(dlgServices) + 1)
  <2>1. /\ DlgRowsStay /\ Len(dlgServices) + 1 \in DOMAIN dlgServices' /\ Len(dlgServices) + 1 # 0
        /\ Len(dlgServices) + 1 \in Nat /\ dlgServices'[Len(dlgServices) + 1].name = c.name
    BY <1>1, <1>4, DlgCreateStores
  <2> QED
    BY <1>4, <2>1, DlgRepliesKeeps
<1> QED
  BY <1>3, <1>4 DEF DlgCreate

(* The page goes on. *)
LEMMA DlgAfterCreateKeeps ==
  ASSUME DlgInv, NEW c \in dlgCalls, c.step = "created", DlgAfterCreate(c), DlgRowsStay, UNCHANGED DlgServer,
         dlgPage' = dlgPage, dlgCount' = dlgCount
  PROVE  DlgInv'
<1>1. CASE DlgRouteDomain = DlgNone
  <2>1. DlgAnnounce(c)
    BY <1>1 DEF DlgAfterCreate
  <2> QED
    BY <2>1, DlgEndStep
<1>2. CASE DlgRouteDomain # DlgNone
  <2> DEFINE only == dlgPage = DlgNone /\ DlgRouteDomain = "localhost"
             next == [c EXCEPT !.step = "route", !.domain = DlgRouteDomain, !.httpOnly = only]
  <2>1. dlgCalls' = (dlgCalls \ {c}) \cup {next} /\ dlgForm' = dlgForm /\ dlgAdding' = dlgAdding
    BY <1>2 DEF DlgAfterCreate
  <2>2. c \in DlgSubmissions /\ DlgCallFits(c)
    BY DEF DlgInv, DlgOneCall
  <2>3. DlgRouteDomain \in DlgDomains /\ DlgRouteDomain \in DlgPlaces /\ (dlgPage # DlgNone => DlgRouteDomain = dlgPage)
    <3>1. dlgPage \in DlgPlaces /\ dlgForm.domain \in DlgPlaces
      BY DEF DlgInv, DlgForms
    <3> QED
      BY <1>2, <3>1 DEF DlgRouteDomain, DlgPlaces
  <2>4. only \in BOOLEAN
    OBVIOUS
  <2> HIDE DEF only
  <2>5. /\ next \in DlgSubmissions /\ next.step = "route" /\ next.id = c.id /\ next.domain = DlgRouteDomain
        /\ next.form = c.form /\ next.name = c.name /\ next.repo = c.repo /\ next.branch = c.branch
    BY <2>2, <2>3, <2>4 DEF DlgSubmissions
  <2> HIDE DEF next
  <2>6. next.id \in DOMAIN dlgServices' /\ next.id # 0 /\ dlgServices'[next.id].name = next.name
    BY <2>2, <2>5 DEF DlgCallFits, DlgServer
  <2>7. next.domain \in DlgDomains /\ (dlgPage # DlgNone => next.domain = dlgPage) /\ next.step # "routed"
    BY <2>3, <2>5
  <2> QED
    BY <2>1, <2>5, <2>6, <2>7, DlgGoesOn
<1> QED
  BY <1>1, <1>2

LEMMA DlgAnswerKeeps == ASSUME DlgInv, NEW c \in dlgCalls, DlgAnswer(c) PROVE DlgInv'
<1>1. UNCHANGED DlgServer /\ dlgPage' = dlgPage /\ dlgCount' = dlgCount
  BY DEF DlgAnswer
<1>2. DlgRowsStay
  BY <1>1, DlgServerRests
<1>3. CASE DlgAnnounce(c) \/ DlgFails(c)
  BY <1>1, <1>2, <1>3, DlgEndStep
<1>4. CASE c.step = "created" /\ DlgAfterCreate(c)
  BY <1>1, <1>2, <1>4, DlgAfterCreateKeeps
<1> QED
  BY <1>3, <1>4 DEF DlgAnswer

(* A row whose routes change. *)
LEMMA DlgRouteStores ==
  ASSUME DlgInv, NEW c \in dlgCalls, c.step = "route", c.domain \in DOMAIN dlgOwner,
         dlgOwner' = [dlgOwner EXCEPT ![c.domain] = c.id],
         dlgServices' = [dlgServices EXCEPT ![c.id] = [@ EXCEPT !.routes = dlgServices[c.id].routes \cup {c.domain}]]
  PROVE  /\ DlgRowsStay /\ c.id \in DOMAIN dlgServices' /\ c.id # 0
         /\ dlgServices'[c.id].name = c.name /\ c.domain \in dlgServices'[c.id].routes
<1>1. /\ c.id \in DOMAIN dlgServices /\ dlgServices[c.id].name = c.name /\ c.domain \in DlgDomains
      /\ c.id \in Nat /\ c.id # 0
  BY DEF DlgInv, DlgCallFits, DlgOneCall, DlgSubmissions
<1>2. dlgServices \in Seq(DlgRows) /\ dlgServices[c.id] \in DlgRows
  BY <1>1 DEF DlgInv, DlgServerOK
<1> DEFINE row == [dlgServices[c.id] EXCEPT !.routes = dlgServices[c.id].routes \cup {c.domain}]
<1>3. row \in DlgRows /\ row.name = c.name /\ c.domain \in row.routes /\ dlgServices[c.id].routes \subseteq row.routes
  BY <1>1, <1>2 DEF DlgRows
<1>4. dlgServices' = [dlgServices EXCEPT ![c.id] = row]
  OBVIOUS
<1> HIDE DEF row
<1>5. /\ dlgServices' \in Seq(DlgRows) /\ DOMAIN dlgServices' = DOMAIN dlgServices /\ dlgServices'[c.id] = row
      /\ \A s \in DOMAIN dlgServices : s # c.id => dlgServices'[s] = dlgServices[s]
  BY <1>1, <1>2, <1>3, <1>4
<1>6. /\ DOMAIN dlgOwner' \subseteq DlgDomains /\ dlgOwner' \in [DOMAIN dlgOwner' -> Nat]
  BY <1>1 DEF DlgInv, DlgServerOK
<1>7. \A s \in DOMAIN dlgServices :
        dlgServices'[s].name = dlgServices[s].name /\ dlgServices[s].routes \subseteq dlgServices'[s].routes
  BY <1>1, <1>3, <1>5
<1> QED
  BY <1>1, <1>3, <1>5, <1>6, <1>7 DEF DlgRowsStay, DlgServerOK

LEMMA DlgRouteKeeps == ASSUME DlgInv, NEW c \in dlgCalls, DlgRoute(c) PROVE DlgInv'
<1>1. c \in DlgSubmissions /\ c.step = "route"
  BY DEF DlgInv, DlgOneCall, DlgRoute
<1>2. c.id \in Nat
  BY <1>1 DEF DlgSubmissions
<1>3. CASE DlgRouteOk(c)
  <2>1. /\ DlgRowsStay /\ c.id \in DOMAIN dlgServices' /\ c.id # 0
        /\ dlgServices'[c.id].name = c.name /\ c.domain \in dlgServices'[c.id].routes
    BY <1>1, <1>3, DlgRouteStores DEF DlgRoute, DlgRouteOk
  <2>2. DlgReplies(c, "routed", c.id)
    BY <1>3 DEF DlgRoute
  <2> QED
    BY <1>1, <1>2, <2>1, <2>2, DlgRepliesKeeps
<1>4. CASE ~DlgRouteOk(c)
  <2>1. DlgReplies(c, "refused", c.id) /\ UNCHANGED DlgServer
    BY <1>4 DEF DlgRoute
  <2> QED
    BY <1>2, <2>1, DlgServerRests, DlgRepliesKeeps
<1> QED
  BY <1>3, <1>4

LEMMA DlgOtherKeeps == ASSUME DlgInv, DlgOther PROVE DlgInv'
<1> DEFINE row(name, domains) == [live |-> TRUE, name |-> name, repo |-> "other", branch |-> "main", routes |-> domains]
<1>1. dlgPage' = dlgPage /\ dlgForm' = dlgForm /\ dlgAdding' = dlgAdding /\ dlgCalls' = dlgCalls
      /\ dlgForm \in DlgForms /\ DlgFieldsFit(dlgForm)
  BY DEF DlgOther, DlgInv
<1>2. dlgCount' \in DlgCounts
  <2>1. dlgCount \in DlgCounts /\ dlgCount' = [dlgCount EXCEPT !.others = @ + 1]
    BY DEF DlgInv, DlgOther
  <2> QED
    BY <2>1 DEF DlgCounts
<1>3. /\ dlgServices \in Seq(DlgRows) /\ DOMAIN dlgOwner \subseteq DlgDomains
      /\ dlgOwner \in [DOMAIN dlgOwner -> Nat] /\ Len(dlgServices) + 1 \in Nat
  BY DEF DlgInv, DlgServerOK
<1>4. ASSUME NEW name \in DlgNames, NEW domains \in SUBSET DlgDomains
      PROVE  row(name, domains) \in DlgRows
  BY DEF DlgRows, DlgTitles, DlgLines
<1>5. \/ \E name \in DlgNames :
           \/ dlgServices' = Append(dlgServices, row(name, {})) /\ dlgOwner' = dlgOwner
           \/ \E d \in DOMAIN dlgOwner :
                /\ dlgOwner' = [dlgOwner EXCEPT ![d] = Len(dlgServices) + 1]
                /\ dlgServices' = Append(dlgServices, row(name, {d}))
      \/ \E d \in DOMAIN dlgOwner :
           dlgOwner' = [e \in DOMAIN dlgOwner \ {d} |-> dlgOwner[e]] /\ UNCHANGED dlgServices
      \/ \E s \in DOMAIN dlgServices :
           /\ dlgServices' = [dlgServices EXCEPT ![s] = [@ EXCEPT !.live = FALSE]]
           /\ dlgOwner' = [d \in DOMAIN dlgOwner |-> IF dlgOwner[d] = s THEN 0 ELSE dlgOwner[d]]
  BY DEF DlgOther
<1> HIDE DEF row
<1>6. ASSUME NEW name \in DlgNames, dlgServices' = Append(dlgServices, row(name, {})), dlgOwner' = dlgOwner
      PROVE  DlgRowsStay
  <2>1. row(name, {}) \in DlgRows
    BY <1>4
  <2> QED
    BY <1>3, <1>6, <2>1, DlgAppends
<1>7. ASSUME NEW name \in DlgNames, NEW d \in DOMAIN dlgOwner,
             dlgOwner' = [dlgOwner EXCEPT ![d] = Len(dlgServices) + 1],
             dlgServices' = Append(dlgServices, row(name, {d}))
      PROVE  DlgRowsStay
  <2>1. {d} \in SUBSET DlgDomains
    BY <1>3
  <2>2. row(name, {d}) \in DlgRows
    BY <1>4, <2>1
  <2>3. DOMAIN dlgOwner' \subseteq DlgDomains /\ dlgOwner' \in [DOMAIN dlgOwner' -> Nat]
    BY <1>3, <1>7
  <2> QED
    BY <1>7, <2>2, <2>3, DlgAppends
<1>8. ASSUME NEW d \in DOMAIN dlgOwner, UNCHANGED dlgServices,
             dlgOwner' = [e \in DOMAIN dlgOwner \ {d} |-> dlgOwner[e]]
      PROVE  DlgRowsStay
  <2>1. DOMAIN dlgOwner' \subseteq DlgDomains /\ dlgOwner' \in [DOMAIN dlgOwner' -> Nat]
    BY <1>3, <1>8
  <2> QED
    BY <1>3, <1>8, <2>1 DEF DlgRowsStay, DlgServerOK
<1>9. ASSUME NEW s \in DOMAIN dlgServices, dlgServices' = [dlgServices EXCEPT ![s] = [@ EXCEPT !.live = FALSE]],
             dlgOwner' = [d \in DOMAIN dlgOwner |-> IF dlgOwner[d] = s THEN 0 ELSE dlgOwner[d]]
      PROVE  DlgRowsStay
  <2> DEFINE gone == [dlgServices[s] EXCEPT !.live = FALSE]
  <2>1. dlgServices[s] \in DlgRows
    BY <1>3
  <2>2. gone \in DlgRows /\ gone.name = dlgServices[s].name /\ gone.routes = dlgServices[s].routes
    BY <2>1 DEF DlgRows
  <2>3. dlgServices' = [dlgServices EXCEPT ![s] = gone]
    BY <1>9
  <2> HIDE DEF gone
  <2>4. /\ dlgServices' \in Seq(DlgRows) /\ DOMAIN dlgServices' = DOMAIN dlgServices
        /\ \A r \in DOMAIN dlgServices : dlgServices'[r] = IF r = s THEN gone ELSE dlgServices[r]
    BY <1>3, <2>2, <2>3
  <2>5. DOMAIN dlgOwner' \subseteq DlgDomains /\ dlgOwner' \in [DOMAIN dlgOwner' -> Nat]
    BY <1>3, <1>9
  <2> QED
    BY <2>2, <2>4, <2>5 DEF DlgRowsStay, DlgServerOK
<1>10. DlgRowsStay
  BY <1>5, <1>6, <1>7, <1>8, <1>9
<1> QED
  BY <1>1, <1>2, <1>10, DlgFieldsStep

LEMMA DlgInvNext == DlgInv /\ [DlgNext]_DlgVars => DlgInv'
<1> SUFFICES ASSUME DlgInv, [DlgNext]_DlgVars PROVE DlgInv'
  OBVIOUS
<1>1. CASE UNCHANGED DlgVars
  <2>1. DlgRowsStay
    BY <1>1, DlgServerRests DEF DlgVars, DlgServer
  <2> QED
    BY <1>1, <2>1, DlgFieldsStep DEF DlgVars, DlgInv
<1>2. CASE DlgNext
  BY <1>2, DlgTypesKeeps, DlgPicksKeeps, DlgOpenKeeps, DlgCloseKeeps, DlgReposArriveKeeps, DlgSubmitKeeps,
     DlgCreateKeeps, DlgRouteKeeps, DlgAnswerKeeps, DlgOtherKeeps DEF DlgNext
<1> QED
  BY <1>1, <1>2

LEMMA DlgInvIsSound == DlgInv => DialogIsSound
<1> SUFFICES ASSUME DlgInv PROVE DialogIsSound
  OBVIOUS
<1>1. dlgForm.repo \in DlgRepos \cup {DlgNone} /\ dlgForm.branch \in DlgBranches \cup DlgDefaults \cup {"main"}
  BY DEF DlgInv, DlgForms, DlgLines
<1>2. Cardinality(dlgCalls) = IF dlgAdding THEN 1 ELSE 0
  <2>1. CASE dlgAdding = FALSE /\ dlgCalls = {}
    BY <2>1, FS_EmptySet
  <2>2. CASE dlgAdding = TRUE /\ \E c \in dlgCalls : dlgCalls = {c}
    BY <2>2, FS_Singleton
  <2> QED
    BY <2>1, <2>2 DEF DlgInv, DlgOneCall
<1>3. \A c \in dlgCalls : c.step \in {"created", "route", "routed"} => c.id \in DOMAIN dlgServices
  BY DEF DlgInv, DlgCallFits
<1>4. TypedIsSubmitted
  BY DEF DlgInv, DlgCallFits, TypedIsSubmitted
<1> QED
  BY <1>1, <1>2, <1>3, <1>4 DEF DialogIsSound, DlgTypeOK

(* One submission is under way at most, of what was typed, however the dialog is
   closed, opened and typed into, for any texts, names and domains. *)
THEOREM DialogIsSoundHolds == DlgSpec => []DialogIsSound
BY DlgInvInit, DlgInvNext, DlgInvIsSound, PTL DEF DlgSpec

(* The dialog closes by itself only after the server has stored the service and
   its route, whatever other users create and delete. *)
THEOREM AnnouncedIsCompleteHolds == DlgSpec => AnnouncedIsComplete
<1> DEFINE Wanted(c) == {IF c.step = "created" THEN DlgRouteDomain ELSE c.domain, dlgPage} \ {DlgNone}
           Told(c) == /\ c.id \in DOMAIN dlgServices /\ dlgServices[c.id].name = c.name
                      /\ Wanted(c) \subseteq dlgServices[c.id].routes
           Complete == \A c \in dlgCalls : (\A d \in dlgCalls' : d.n # c.n) /\ ~dlgForm'.error => Told(c)
<1>1. DlgInv /\ DlgNext => Complete
  <2> SUFFICES ASSUME DlgInv, DlgNext, NEW c \in dlgCalls, \A d \in dlgCalls' : d.n # c.n, ~dlgForm'.error
               PROVE  Told(c)
    BY Zenon
  <2>1. dlgCalls = {c} /\ c \in DlgSubmissions /\ DlgCallFits(c) /\ dlgAdding = TRUE
    BY DEF DlgInv, DlgOneCall
  <2>2. c \notin dlgCalls'
    OBVIOUS
  <2>3. ~DlgFails(c)
    <3>1. dlgForm \in DlgForms
      BY DEF DlgInv
    <3> QED
      BY <3>1 DEF DlgFails, DlgForms
  <2>4. ~DlgCreate(c) /\ ~DlgRoute(c)
    <3>1. ASSUME NEW step, NEW id, DlgReplies(c, step, id)
          PROVE  FALSE
      <4> DEFINE next == [c EXCEPT !.step = step, !.id = id]
      <4>1. next \in dlgCalls' /\ next.n = c.n
        BY <2>1, <3>1 DEF DlgReplies, DlgSubmissions
      <4> QED
        BY <4>1
    <3> QED
      BY <3>1 DEF DlgCreate, DlgRoute
  <2>5. CASE DlgAnswer(c) /\ c.step = "created"
    <3>1. DlgAfterCreate(c)
      BY <2>3, <2>5 DEF DlgAnswer
    <3>2. DlgRouteDomain = DlgNone
      <4>1. SUFFICES ASSUME DlgRouteDomain # DlgNone PROVE FALSE
        OBVIOUS
      <4> DEFINE only == dlgPage = DlgNone /\ DlgRouteDomain = "localhost"
                 next == [c EXCEPT !.step = "route", !.domain = DlgRouteDomain, !.httpOnly = only]
      <4>2. next \in dlgCalls'
        BY <3>1, <4>1 DEF DlgAfterCreate
      <4>3. next.n = c.n
        BY <2>1 DEF DlgSubmissions
      <4> QED
        BY <4>2, <4>3
    <3>3. dlgPage = DlgNone
      BY <3>2 DEF DlgRouteDomain
    <3>4. Wanted(c) = {}
      BY <2>5, <3>2, <3>3
    <3>5. c.id \in DOMAIN dlgServices /\ dlgServices[c.id].name = c.name
      BY <2>1, <2>5 DEF DlgCallFits
    <3> HIDE DEF Wanted
    <3> QED
      BY <3>4, <3>5
  <2>6. CASE DlgAnswer(c) /\ c.step = "routed"
    <3>1. /\ c.id \in DOMAIN dlgServices /\ dlgServices[c.id].name = c.name
          /\ c.domain \in dlgServices[c.id].routes /\ (dlgPage # DlgNone => c.domain = dlgPage)
      BY <2>1, <2>6 DEF DlgCallFits
    <3>2. Wanted(c) \subseteq {c.domain}
      BY <2>6, <3>1
    <3> HIDE DEF Wanted
    <3> QED
      BY <3>1, <3>2
  <2>7. DlgAnswer(c) => c.step \in {"created", "routed"}
    BY <2>3 DEF DlgAnswer
  <2>8. ~DlgSubmit
    BY <2>1 DEF DlgSubmit
  <2>9. ~(DlgTypes \/ DlgPicks \/ DlgOpen \/ DlgClose \/ DlgReposArrive \/ DlgOther)
    BY <2>2 DEF DlgTypes, DlgPicks, DlgEdit, DlgOpen, DlgClose, DlgReposArrive, DlgOther
  <2> QED
    BY <2>1, <2>4, <2>5, <2>6, <2>7, <2>8, <2>9 DEF DlgNext
<1>2. DlgInv /\ [DlgNext]_DlgVars => [Complete]_DlgVars
  BY <1>1
<1> QED
  BY <1>2, DlgInvInit, DlgInvNext, PTL DEF DlgSpec, AnnouncedIsComplete

-----------------------------------------------------------------------------
(***************************************************************************)
(* WebSession                                                              *)
(***************************************************************************)

(* What the tab, the form and the counts may hold. *)
SessUsers == {"none", "must", "settled"}
SessAnswers == SessUsers \cup {"error"}
SessSingles == {{}} \cup {{p} : p \in SessPages}
SessNavs ==
  [to : SessPages \cup {"none"}, step : {"idle", "ask", "reply", "guard", "load"}, got : SessAnswers,
   redirects : Nat]
SessStrays == [step : {"ask", "reply", "end"}, got : SessAnswers]
SessTabs ==
  [cookie : Nat, user : SessUsers, page : SessPages \cup {"blank"}, nav : SessNavs, strays : SUBSET SessStrays,
   pending : SessSingles, key : SessSingles, watch : BOOLEAN, timer : BOOLEAN, changed : BOOLEAN, hard : Nat,
   answers : SUBSET SessAnswers, lost : BOOLEAN, late : BOOLEAN]
SessForms ==
  [kind : {"none", "login", "setup", "change", "logout"},
   step : {"idle", "sent", "override", "burn", "user", "flag", "update", "clear", "session", "answer", "refused", "who"},
   must : BOOLEAN, mine : BOOLEAN]
SessCounts == [tokens : Nat, moves : Nat, others : Nat]
SessPrivate == SessPages \ SessPublic

(* The user that the store has after an answer, if it had none. *)
SessUserOf(a) == IF a \in {"must", "settled"} THEN a ELSE "none"
SessMany(answers) == \E a, b \in answers : a # b

(* Types, and a user is known only when there is a session. *)
SessTabType(t, n) ==
  /\ t \in SessTabs
  /\ t.nav.step # "idle" => t.nav.to \in SessPages
  /\ t.cookie <= n
  /\ n = 0 => /\ SessUserOf(t.user) = "none" /\ SessUserOf(t.nav.got) = "none"
              /\ \A s \in t.strays : SessUserOf(s.got) = "none"

(* What a redirect leads to is not redirected. *)
SessTabSettles(t) ==
  /\ t.nav.redirects <= 1
  /\ t.nav.redirects > 0 => SessGuard(t.nav.to, t.user) = t.nav.to

(* After a recovery the tab shows nothing, and heads for the page it recovers
   or, for one answer of whoami, for what the guard makes of it. *)
SessTabHard(t) ==
  t.hard > 0 =>
    /\ t.page = "blank"
    /\ \E p \in SessPages :
         /\ t.key = {p}
         /\ ~SessMany(t.answers) =>
              /\ t.hard <= 2
              /\ t.nav.step # "idle" =>
                   t.nav.to = p \/ \E a \in t.answers : t.nav.to = SessGuard(p, SessUserOf(a))
              /\ t.hard = 2 => \E a \in t.answers : SessGuard(p, SessUserOf(a)) = p

(* A navigation past its guard that leaves the change of the password is
   watched, or is late; so is a page that shows. *)
SessTabLoads(t) ==
  t.nav.step = "load" /\ ~t.late /\ t.user = "must" /\ (~t.watch \/ t.page \notin SessPrivate)
    => t.nav.to = "change"
SessTabShows(t) ==
  t.user = "must" /\ ~t.watch /\ ~t.lost /\ ~t.late /\ t.page \in SessPrivate => t.nav.step # "idle"

(* A tab that has loaded an address is on its way, or has failed. *)
SessTabFresh(t) ==
  t.page = "blank" =>
    /\ t.strays = {} /\ t.watch = FALSE /\ t.timer = FALSE /\ t.changed = FALSE
    /\ t.nav.step = "idle" => t.lost = TRUE
    /\ t.nav.step # "idle" => t.pending = {t.nav.to}
    /\ t.nav.step \in {"ask", "reply"} => t.user = "none"
    /\ t.nav.step = "reply" => t.nav.got \in t.answers
    /\ t.nav.step \in {"guard", "load"} => \E a \in t.answers : t.user = SessUserOf(a)
    /\ t.nav.step = "load" => SessGuard(t.nav.to, t.user) = t.nav.to

SessTabSound(t, n) ==
  /\ SessTabType(t, n) /\ SessTabSettles(t) /\ SessTabHard(t) /\ SessTabLoads(t) /\ SessTabShows(t)
  /\ SessTabFresh(t)

SessDbOK ==
  /\ sessUser \in {{}} \cup {{[must |-> m]} : m \in BOOLEAN}
  /\ sessCount \in SessCounts /\ sessRows \subseteq 1 .. sessCount.tokens /\ sessCount.tokens <= SessTokens

(* The form of a page that is gone is nobody's. *)
SessFormFits ==
  /\ sessForm \in SessForms
  /\ sessTab.page = "blank" => sessForm = SessNoForm \/ sessForm.mine = FALSE
  /\ sessForm.step = "answer" /\ sessForm.kind # "logout" => sessCount.tokens > 0
  /\ sessForm.step = "who" => sessForm.kind \in {"setup", "change"}

(* The new session of a change is there as long as nobody else acts. *)
SessChangeFits ==
  /\ sessTab.changed = TRUE => sessForm = SessNoForm
  /\ sessCount.others = 0 =>
       /\ sessTab.changed = TRUE => sessTab.cookie \in sessRows
       /\ sessForm.kind = "change" /\ sessForm.step = "answer" => sessCount.tokens \in sessRows
       /\ sessForm.kind = "change" /\ sessForm.step = "who" => sessTab.cookie \in sessRows

SessInv == SessDbOK /\ SessTabSound(sessTab, sessCount.tokens) /\ SessFormFits /\ SessChangeFits

-----------------------------------------------------------------------------
(* The guard and the parts of a tab *)

LEMMA SessGuardTwice ==
  ASSUME NEW to \in SessPages, NEW u \in SessUsers
  PROVE  /\ SessGuard(to, u) \in SessPages /\ SessGuard(SessGuard(to, u), u) = SessGuard(to, u)
         /\ u = "must" => SessGuard(to, u) = "change"
BY DEF SessGuard, SessPages, SessPublic, SessUsers

LEMMA SessUserOfUser ==
  /\ \A a \in SessAnswers : SessUserOf(a) \in SessUsers
  /\ \A u \in SessUsers : SessUserOf(u) = u
BY DEF SessUserOf, SessAnswers, SessUsers

LEMMA SessNoNavFields ==
  SessNoNav \in SessNavs /\ SessNoNav.step = "idle" /\ SessNoNav.redirects = 0 /\ SessNoNav.got = "none"
BY DEF SessNoNav, SessNavs, SessAnswers, SessUsers

LEMMA SessSinglesOf ==
  {} \in SessSingles /\ \A p \in SessPages : {p} \in SessSingles
BY DEF SessSingles

(* A navigation begins. *)
SessEntered(r, t, to, k) ==
  /\ r \in SessTabs /\ r.nav.to = to /\ r.nav.redirects = k /\ r.nav.got = "none"
  /\ r.nav.step = (IF t.user = "none" THEN "ask" ELSE "guard") /\ r.pending = {to} /\ r.late = FALSE
  /\ r.cookie = t.cookie /\ r.user = t.user /\ r.page = t.page /\ r.strays = t.strays /\ r.key = t.key
  /\ r.watch = t.watch /\ r.timer = t.timer /\ r.changed = t.changed /\ r.hard = t.hard
  /\ r.answers = t.answers /\ r.lost = t.lost

LEMMA SessEntersFields ==
  ASSUME NEW t \in SessTabs, NEW to \in SessPages, NEW k \in Nat
  PROVE  SessEntered(SessEnters(t, to, k), t, to, k)
<1> SUFFICES ASSUME NEW r, r = SessEnters(t, to, k) PROVE SessEntered(r, t, to, k)
  OBVIOUS
<1> DEFINE step == IF t.user = "none" THEN "ask" ELSE "guard"
           nav == [to |-> to, step |-> step, got |-> "none", redirects |-> k]
<1>1. r = [t EXCEPT !.pending = {to}, !.late = FALSE, !.nav = nav]
  BY DEF SessEnters
<1>2. step \in {"ask", "guard"}
  OBVIOUS
<1> HIDE DEF step
<1>3. nav \in SessNavs /\ nav.to = to /\ nav.step = step /\ nav.got = "none" /\ nav.redirects = k
  BY <1>2 DEF SessNavs, SessAnswers, SessUsers
<1> HIDE DEF nav
<1>4. {to} \in SessSingles
  BY SessSinglesOf
<1>5. /\ r \in SessTabs /\ r.nav = nav /\ r.pending = {to} /\ r.late = FALSE
      /\ r.cookie = t.cookie /\ r.user = t.user /\ r.page = t.page /\ r.strays = t.strays /\ r.key = t.key
      /\ r.watch = t.watch /\ r.timer = t.timer /\ r.changed = t.changed /\ r.hard = t.hard
      /\ r.answers = t.answers /\ r.lost = t.lost
  BY <1>1, <1>3, <1>4, ZenonT(60) DEF SessTabs
<1> QED
  BY <1>3, <1>5 DEF step, SessEntered

LEMMA SessStaysFields ==
  ASSUME NEW t \in SessTabs, NEW r, r = SessStays(t)
  PROVE  /\ r \in SessTabs /\ r.nav = SessNoNav /\ r.pending = {} /\ r.key = {} /\ r.late = t.late
         /\ r.cookie = t.cookie /\ r.user = t.user /\ r.page = t.page /\ r.strays = t.strays
         /\ r.watch = t.watch /\ r.timer = t.timer /\ r.changed = t.changed /\ r.hard = t.hard
         /\ r.answers = t.answers /\ r.lost = t.lost
<1>1. r = [t EXCEPT !.nav = SessNoNav, !.pending = {}, !.key = {}]
  BY DEF SessStays
<1> QED
  BY <1>1, SessNoNavFields, SessSinglesOf, ZenonT(60) DEF SessTabs

(* The user is set, and nothing else that matters here. *)
SessUserSet(r, t, u) ==
  /\ r \in SessTabs /\ r.user = u
  /\ r.nav \in SessNavs /\ r.nav.to = t.nav.to /\ r.nav.step = t.nav.step /\ r.nav.got = t.nav.got
  /\ u = t.user => r.nav.redirects = t.nav.redirects
  /\ u # t.user => r.nav.redirects = 0
  /\ t.watch = TRUE => r.watch = TRUE
  /\ t.late = TRUE => r.late = TRUE
  /\ u = "must" /\ t.user # "must" /\ t.page \in SessPrivate => r.watch = TRUE
  /\ u = "must" /\ t.user # "must" /\ t.page \notin SessPrivate /\ t.nav.step = "load" => r.late = TRUE
  /\ t.page \notin SessPrivate => r.watch = t.watch
  /\ r.cookie = t.cookie /\ r.page = t.page /\ r.strays = t.strays /\ r.pending = t.pending /\ r.key = t.key
  /\ r.timer = t.timer /\ r.changed = t.changed /\ r.hard = t.hard
  /\ r.answers = t.answers /\ r.lost = t.lost

LEMMA SessSetUserFields ==
  ASSUME NEW t \in SessTabs, NEW u \in SessUsers
  PROVE  SessUserSet(SessSetUser(t, u), t, u)
<1> SUFFICES ASSUME NEW r, r = SessSetUser(t, u) PROVE SessUserSet(r, t, u)
  OBVIOUS
<1> DEFINE news == u = "must" /\ t.user # "must"
           layout == t.page \in SessPages \ SessPublic
           watch == t.watch \/ (news /\ layout)
           late == t.late \/ (news /\ ~layout /\ t.nav.step = "load")
           times == IF u = t.user THEN t.nav.redirects ELSE 0
           nav == [t.nav EXCEPT !.redirects = times]
<1>1. r = [t EXCEPT !.user = u, !.watch = watch, !.late = late, !.nav = nav]
  BY DEF SessSetUser
<1>2. t.nav \in SessNavs /\ t.nav.redirects \in Nat
  BY DEF SessTabs, SessNavs
<1>3. times \in Nat /\ (u = t.user => times = t.nav.redirects) /\ (u # t.user => times = 0)
  BY <1>2
<1> HIDE DEF times
<1>4. /\ nav \in SessNavs /\ nav.to = t.nav.to /\ nav.step = t.nav.step /\ nav.got = t.nav.got
      /\ nav.redirects = times
  BY <1>2, <1>3 DEF SessNavs
<1> HIDE DEF nav
<1>5. watch \in BOOLEAN /\ late \in BOOLEAN
  OBVIOUS
<1>6. /\ t.watch = TRUE => watch = TRUE
      /\ t.late = TRUE => late = TRUE
      /\ u = "must" /\ t.user # "must" /\ t.page \in SessPrivate => watch = TRUE
      /\ u = "must" /\ t.user # "must" /\ t.page \notin SessPrivate /\ t.nav.step = "load" => late = TRUE
  BY DEF SessPrivate
<1>7. t.page \notin SessPrivate => watch = t.watch
  <2>1. t.watch \in BOOLEAN
    BY DEF SessTabs
  <2> QED
    BY <2>1 DEF SessPrivate
<1> HIDE DEF watch, late
<1>8. /\ r \in SessTabs /\ r.user = u /\ r.nav = nav /\ r.watch = watch /\ r.late = late
      /\ r.cookie = t.cookie /\ r.page = t.page /\ r.strays = t.strays /\ r.pending = t.pending /\ r.key = t.key
      /\ r.timer = t.timer /\ r.changed = t.changed /\ r.hard = t.hard
      /\ r.answers = t.answers /\ r.lost = t.lost
  BY <1>1, <1>4, <1>5, ZenonT(60) DEF SessTabs
<1>9. /\ r.nav \in SessNavs /\ r.nav.to = t.nav.to /\ r.nav.step = t.nav.step /\ r.nav.got = t.nav.got
      /\ u = t.user => r.nav.redirects = t.nav.redirects
      /\ u # t.user => r.nav.redirects = 0
  BY <1>3, <1>4, <1>8
<1>10. /\ t.watch = TRUE => r.watch = TRUE
       /\ t.late = TRUE => r.late = TRUE
       /\ u = "must" /\ t.user # "must" /\ t.page \in SessPrivate => r.watch = TRUE
       /\ u = "must" /\ t.user # "must" /\ t.page \notin SessPrivate /\ t.nav.step = "load" => r.late = TRUE
       /\ t.page \notin SessPrivate => r.watch = t.watch
  BY <1>6, <1>7, <1>8
<1> QED
  BY <1>8, <1>9, <1>10 DEF SessUserSet

LEMMA SessCancelledFields ==
  ASSUME NEW t \in SessTabs
  PROVE  /\ SessCancelled(t) \in SUBSET SessStrays
         /\ \A s \in SessCancelled(t) : s \in t.strays \/ s.got = t.nav.got \/ s.got = "none"
<1>1. t.nav \in SessNavs /\ t.strays \in SUBSET SessStrays
  BY DEF SessTabs
<1> DEFINE asked == [step |-> t.nav.step, got |-> t.nav.got]
           end == [step |-> "end", got |-> "none"]
<1>2. CASE t.nav.step = "idle"
  BY <1>1, <1>2 DEF SessCancelled
<1>3. CASE t.nav.step \in {"ask", "reply"}
  <2>1. SessCancelled(t) = t.strays \cup {asked}
    BY <1>3 DEF SessCancelled
  <2>2. asked \in SessStrays /\ asked.got = t.nav.got
    BY <1>1, <1>3 DEF SessStrays, SessNavs
  <2> HIDE DEF asked
  <2> QED
    BY <1>1, <2>1, <2>2
<1>4. CASE t.nav.step \notin {"idle", "ask", "reply"}
  <2>1. SessCancelled(t) = t.strays \cup {end}
    BY <1>4 DEF SessCancelled
  <2>2. end \in SessStrays /\ end.got = "none"
    BY DEF SessStrays, SessAnswers, SessUsers
  <2> HIDE DEF end
  <2> QED
    BY <1>1, <2>1, <2>2
<1> QED
  BY <1>2, <1>3, <1>4

(* The store's user changes in a tab that shows a page. *)
LEMMA SessSetUserSound ==
  ASSUME NEW n \in Nat, NEW t, SessTabSound(t, n), NEW u \in SessUsers, u # "none" => n > 0,
         t.page # "blank", NEW r, r = SessSetUser(t, u)
  PROVE  SessTabSound(r, n)
<1>1. t \in SessTabs
  BY DEF SessTabSound, SessTabType
<1>2. /\ r \in SessTabs /\ r.user = u
      /\ r.nav \in SessNavs /\ r.nav.to = t.nav.to /\ r.nav.step = t.nav.step /\ r.nav.got = t.nav.got
      /\ u = t.user => r.nav.redirects = t.nav.redirects
      /\ u # t.user => r.nav.redirects = 0
      /\ t.watch = TRUE => r.watch = TRUE
      /\ t.late = TRUE => r.late = TRUE
      /\ u = "must" /\ t.user # "must" /\ t.page \in SessPrivate => r.watch = TRUE
      /\ u = "must" /\ t.user # "must" /\ t.page \notin SessPrivate /\ t.nav.step = "load" => r.late = TRUE
      /\ r.cookie = t.cookie /\ r.page = t.page /\ r.strays = t.strays /\ r.pending = t.pending /\ r.key = t.key
      /\ r.timer = t.timer /\ r.changed = t.changed /\ r.hard = t.hard
      /\ r.answers = t.answers /\ r.lost = t.lost
  <2>1. SessUserSet(r, t, u)
    BY <1>1, SessSetUserFields
  <2> QED
    BY <2>1 DEF SessUserSet
<1>3. SessTabType(r, n)
  <2>1. n = 0 => u = "none"
    OBVIOUS
  <2> QED
    BY <1>2, <2>1 DEF SessTabSound, SessTabType, SessUserOf
<1>4. SessTabSettles(r)
  BY <1>2 DEF SessTabSound, SessTabSettles
<1>5. SessTabHard(r)
  BY <1>2 DEF SessTabSound, SessTabHard
<1>6. SessTabLoads(r)
  BY <1>2 DEF SessTabSound, SessTabLoads
<1>7. SessTabShows(r)
  BY <1>2 DEF SessTabSound, SessTabShows
<1>8. SessTabFresh(r)
  BY <1>2 DEF SessTabFresh
<1> QED
  BY <1>3, <1>4, <1>5, <1>6, <1>7, <1>8 DEF SessTabSound

(* A push from a page that shows. *)
LEMMA SessPushSound ==
  ASSUME NEW n \in Nat, NEW t, SessTabType(t, n), t.page # "blank", t.hard = 0, NEW to \in SessPages,
         t.page = to => SessTabShows(t), NEW r, r = SessPush(t, to)
  PROVE  SessTabSound(r, n) /\ r.cookie = t.cookie /\ r.changed = t.changed /\ r.page = t.page
<1> DEFINE rest == [t EXCEPT !.strays = SessCancelled(t), !.nav = SessNoNav]
<1>1. t \in SessTabs
  BY DEF SessTabType
<1>2. /\ rest \in SessTabs /\ rest.nav = SessNoNav /\ rest.strays = SessCancelled(t)
      /\ rest.cookie = t.cookie /\ rest.page = t.page /\ rest.pending = t.pending /\ rest.key = t.key
      /\ rest.timer = t.timer /\ rest.changed = t.changed /\ rest.hard = t.hard /\ rest.user = t.user
      /\ rest.answers = t.answers /\ rest.lost = t.lost /\ rest.watch = t.watch /\ rest.late = t.late
  BY <1>1, SessNoNavFields, SessCancelledFields DEF SessTabs
<1>3. n = 0 => /\ SessUserOf(t.user) = "none"
               /\ \A s \in SessCancelled(t) : SessUserOf(s.got) = "none"
  <2> SUFFICES ASSUME n = 0 PROVE SessUserOf(t.user) = "none" /\ \A s \in SessCancelled(t) : SessUserOf(s.got) = "none"
    OBVIOUS
  <2>1. /\ SessUserOf(t.user) = "none" /\ SessUserOf(t.nav.got) = "none"
        /\ \A s \in t.strays : SessUserOf(s.got) = "none"
    BY DEF SessTabType
  <2>2. SessUserOf("none") = "none"
    BY DEF SessUserOf
  <2> QED
    BY <1>1, <2>1, <2>2, SessCancelledFields
<1>4. CASE t.page # to
  <2>1. r = SessEnters(rest, to, 0)
    BY <1>4 DEF SessPush
  <2> HIDE DEF rest
  <2>2. /\ r \in SessTabs /\ r.nav.to = to /\ r.nav.redirects = 0 /\ r.nav.got = "none"
        /\ r.nav.step \in {"ask", "guard"}
        /\ r.cookie = t.cookie /\ r.user = t.user /\ r.page = t.page /\ r.strays = SessCancelled(t)
        /\ r.hard = 0 /\ r.changed = t.changed
    <3>1. SessEntered(r, rest, to, 0)
      BY <1>2, <2>1, SessEntersFields
    <3> QED
      BY <1>2, <3>1 DEF SessEntered
  <2>3. SessTabType(r, n)
    BY <1>3, <2>2 DEF SessTabType, SessUserOf
  <2>4. SessTabSettles(r) /\ SessTabHard(r) /\ SessTabLoads(r) /\ SessTabShows(r) /\ SessTabFresh(r)
    BY <2>2 DEF SessTabSettles, SessTabHard, SessTabLoads, SessTabShows, SessTabFresh
  <2> QED
    BY <2>2, <2>3, <2>4 DEF SessTabSound
<1>5. CASE t.page = to
  <2> DEFINE stays == SessStays(rest)
             lost == t.lost \/ t.nav.step # "idle"
  <2>1. r = [stays EXCEPT !.lost = lost]
    BY <1>5 DEF SessPush
  <2> HIDE DEF rest
  <2>2. /\ stays \in SessTabs /\ stays.nav = SessNoNav /\ stays.late = t.late
        /\ stays.cookie = t.cookie /\ stays.user = t.user /\ stays.page = t.page /\ stays.strays = SessCancelled(t)
        /\ stays.watch = t.watch /\ stays.changed = t.changed /\ stays.hard = 0
    BY <1>2, SessStaysFields
  <2>3. lost \in BOOLEAN /\ (lost = FALSE => t.lost = FALSE /\ t.nav.step = "idle")
    BY <1>1 DEF SessTabs
  <2> HIDE DEF stays, lost
  <2>4. /\ r \in SessTabs /\ r.nav = SessNoNav /\ r.late = t.late /\ r.lost = lost
        /\ r.cookie = t.cookie /\ r.user = t.user /\ r.page = t.page /\ r.strays = SessCancelled(t)
        /\ r.watch = t.watch /\ r.changed = t.changed /\ r.hard = 0
    BY <2>1, <2>2, <2>3 DEF SessTabs
  <2>5. SessTabType(r, n)
    BY <1>3, <2>4, SessNoNavFields DEF SessTabType, SessUserOf
  <2>6. SessTabSettles(r) /\ SessTabHard(r) /\ SessTabLoads(r) /\ SessTabFresh(r)
    BY <2>4, SessNoNavFields DEF SessTabSettles, SessTabHard, SessTabLoads, SessTabFresh
  <2>7. SessTabShows(r)
    BY <1>5, <2>3, <2>4, SessNoNavFields DEF SessTabShows
  <2> QED
    BY <2>4, <2>5, <2>6, <2>7 DEF SessTabSound
<1> QED
  BY <1>4, <1>5

(* The tab loads an address: it forgets everything but what outlives a page. *)
SessOpened(r, t, to) ==
  /\ r \in SessTabs /\ r.nav.to = to /\ r.nav.redirects = 0 /\ r.nav.got = "none" /\ r.nav.step = "ask"
  /\ r.pending = {to} /\ r.late = FALSE /\ r.user = "none" /\ r.page = "blank" /\ r.strays = {}
  /\ r.watch = FALSE /\ r.timer = FALSE /\ r.changed = FALSE /\ r.lost = FALSE
  /\ r.cookie = t.cookie /\ r.key = t.key /\ r.hard = t.hard /\ r.answers = t.answers

LEMMA SessOpensFields ==
  ASSUME NEW t \in SessTabs, NEW to \in SessPages
  PROVE  SessOpened(SessOpens(t, to), t, to)
<1> SUFFICES ASSUME NEW r, r = SessOpens(t, to) PROVE SessOpened(r, t, to)
  OBVIOUS
<1> DEFINE b == [SessBlank EXCEPT !.cookie = t.cookie, !.key = t.key, !.hard = t.hard, !.answers = t.answers]
<1>1. r = SessEnters(b, to, 0)
  BY DEF SessOpens
<1>2. t.cookie \in Nat /\ t.key \in SessSingles /\ t.hard \in Nat /\ t.answers \in SUBSET SessAnswers
  BY DEF SessTabs
<1>3. SessNoNav \in SessNavs /\ {} \in SessSingles
  BY SessNoNavFields, SessSinglesOf
<1>4. SessBlank \in SessTabs
  BY <1>3 DEF SessBlank, SessTabs, SessUsers
<1>5. /\ b.user = "none" /\ b.page = "blank" /\ b.strays = {}
      /\ b.watch = FALSE /\ b.timer = FALSE /\ b.changed = FALSE /\ b.lost = FALSE
      /\ b.cookie = t.cookie /\ b.key = t.key /\ b.hard = t.hard /\ b.answers = t.answers
  BY DEF SessBlank
<1>6. b \in SessTabs
  BY <1>2, <1>4 DEF SessTabs
<1> HIDE DEF b
<1>7. SessEntered(r, b, to, 0)
  BY <1>1, <1>6, SessEntersFields
<1> QED
  BY <1>5, <1>7 DEF SessEntered, SessOpened

LEMMA SessOpensSound ==
  ASSUME NEW n \in Nat, NEW t \in SessTabs, t.cookie <= n, NEW to \in SessPages, NEW r, r = SessOpens(t, to),
         SessTabHard(r)
  PROVE  SessTabSound(r, n)
<1>1. /\ r \in SessTabs /\ r.nav.to = to /\ r.nav.redirects = 0 /\ r.nav.got = "none" /\ r.nav.step = "ask"
      /\ r.pending = {to} /\ r.late = FALSE /\ r.user = "none" /\ r.page = "blank" /\ r.strays = {}
      /\ r.watch = FALSE /\ r.timer = FALSE /\ r.changed = FALSE /\ r.lost = FALSE
      /\ r.cookie = t.cookie /\ r.key = t.key /\ r.hard = t.hard /\ r.answers = t.answers
  <2>1. SessOpened(r, t, to)
    BY SessOpensFields
  <2> QED
    BY <2>1 DEF SessOpened
<1>2. SessTabType(r, n)
  BY <1>1 DEF SessTabType, SessUserOf
<1>3. SessTabSettles(r) /\ SessTabLoads(r) /\ SessTabShows(r)
  BY <1>1 DEF SessTabSettles, SessTabLoads, SessTabShows
<1>4. SessTabFresh(r)
  BY <1>1 DEF SessTabFresh
<1> QED
  BY <1>2, <1>3, <1>4 DEF SessTabSound

(* More sessions and another cookie. *)
LEMMA SessTabLater ==
  ASSUME NEW n \in Nat, NEW m \in Nat, n <= m, NEW t, SessTabSound(t, n)
  PROVE  SessTabSound(t, m)
<1>1. t \in SessTabs /\ t.cookie \in Nat /\ t.cookie <= n
  BY DEF SessTabSound, SessTabType, SessTabs
<1>2. SessTabType(t, m)
  <2>1. t.cookie <= m /\ (m = 0 => n = 0)
    BY <1>1
  <2> QED
    BY <2>1 DEF SessTabSound, SessTabType
<1> QED
  BY <1>2 DEF SessTabSound

LEMMA SessTabCookie ==
  ASSUME NEW n \in Nat, NEW t, SessTabSound(t, n), NEW c \in Nat, c <= n, NEW r, r = [t EXCEPT !.cookie = c]
  PROVE  /\ SessTabSound(r, n) /\ r.cookie = c /\ r.page = t.page /\ r.changed = t.changed /\ r.hard = t.hard
         /\ r.user = t.user
<1>1. t \in SessTabs
  BY DEF SessTabSound, SessTabType
<1>2. /\ r \in SessTabs /\ r.cookie = c /\ r.nav = t.nav
      /\ r.user = t.user /\ r.page = t.page /\ r.strays = t.strays /\ r.pending = t.pending /\ r.key = t.key
      /\ r.watch = t.watch /\ r.timer = t.timer /\ r.changed = t.changed /\ r.hard = t.hard
      /\ r.answers = t.answers /\ r.lost = t.lost /\ r.late = t.late
  BY <1>1 DEF SessTabs
<1>3. SessTabType(r, n)
  BY <1>2 DEF SessTabSound, SessTabType
<1>4. SessTabSettles(r)
  BY <1>2 DEF SessTabSound, SessTabSettles
<1>5. SessTabHard(r)
  BY <1>2 DEF SessTabSound, SessTabHard
<1>6. SessTabLoads(r) /\ SessTabShows(r)
  BY <1>2 DEF SessTabSound, SessTabLoads, SessTabShows
<1>7. SessTabFresh(r)
  BY <1>2 DEF SessTabSound, SessTabFresh
<1> QED
  BY <1>2, <1>3, <1>4, <1>5, <1>6, <1>7 DEF SessTabSound

(* What shows a page keeps being sound when its other fields change. *)
LEMMA SessTabTweak ==
  ASSUME NEW n \in Nat, NEW t, SessTabSound(t, n), t.page # "blank", NEW r \in SessTabs,
         r.cookie = t.cookie, r.user = t.user, r.page = t.page, r.nav = t.nav, r.watch = t.watch,
         r.lost = t.lost, r.late = t.late, r.hard = 0,
         \A s \in r.strays : s \in t.strays \/ SessUserOf(s.got) = "none" \/ n > 0
  PROVE  SessTabSound(r, n)
<1>1. SessTabType(r, n)
  BY DEF SessTabSound, SessTabType
<1>2. SessTabSettles(r) /\ SessTabHard(r)
  BY DEF SessTabSound, SessTabSettles, SessTabHard
<1>3. SessTabLoads(r) /\ SessTabShows(r)
  BY DEF SessTabSound, SessTabLoads, SessTabShows
<1>4. SessTabFresh(r)
  BY DEF SessTabFresh
<1> QED
  BY <1>1, <1>2, <1>3, <1>4 DEF SessTabSound

LEMMA SessShownIsEasy ==
  ASSUME NEW n, NEW t, SessTabSound(t, n), t.page # "blank"
  PROVE  t \in SessTabs /\ t.hard = 0
<1>1. t \in SessTabs /\ ~(t.hard > 0)
  BY DEF SessTabSound, SessTabType, SessTabHard
<1>2. t.hard \in Nat
  BY <1>1 DEF SessTabs
<1> QED
  BY <1>1, <1>2

-----------------------------------------------------------------------------
(* Steps of the tab *)

LEMMA SessInvFacts ==
  ASSUME SessInv
  PROVE  /\ sessCount.tokens \in Nat /\ sessTab \in SessTabs /\ SessTabSound(sessTab, sessCount.tokens)
         /\ sessTab.cookie <= sessCount.tokens /\ sessForm \in SessForms /\ sessCount \in SessCounts
         /\ sessRows \subseteq 1 .. sessCount.tokens
<1>1. sessCount \in SessCounts
  BY DEF SessInv, SessDbOK
<1>2. sessCount.tokens \in Nat
  BY <1>1 DEF SessCounts
<1> QED
  BY <1>1, <1>2 DEF SessInv, SessDbOK, SessTabSound, SessTabType, SessFormFits

(* The tab moves by itself or by the user. *)
LEMMA SessTabStep ==
  ASSUME SessInv, sessUser' = sessUser, sessRows' = sessRows, sessForm' = sessForm,
         sessCount' \in SessCounts, sessCount'.tokens = sessCount.tokens, sessCount'.others = sessCount.others,
         SessTabSound(sessTab', sessCount.tokens), sessTab'.cookie = sessTab.cookie,
         sessTab'.changed = TRUE => sessTab.changed = TRUE,
         sessTab'.page = "blank" => sessTab.page = "blank"
  PROVE  SessInv'
<1>1. SessDbOK'
  BY DEF SessInv, SessDbOK
<1>2. SessFormFits'
  BY DEF SessInv, SessFormFits
<1>3. SessChangeFits'
  BY DEF SessInv, SessChangeFits
<1>4. SessTabSound(sessTab, sessCount.tokens)'
  OBVIOUS
<1> QED
  BY <1>1, <1>2, <1>3, <1>4 DEF SessInv

LEMMA SessOpenStep ==
  ASSUME SessInv, sessUser' = sessUser, sessRows' = sessRows,
         sessForm' = [sessForm EXCEPT !.mine = sessForm = SessNoForm],
         sessCount' \in SessCounts, sessCount'.tokens = sessCount.tokens, sessCount'.others = sessCount.others,
         NEW t \in SessTabs, t.cookie = sessTab.cookie, NEW to \in SessPages, sessTab' = SessOpens(t, to),
         SessTabHard(sessTab')
  PROVE  SessInv'
<1>1. SessDbOK'
  BY DEF SessInv, SessDbOK
<1>2. SessTabSound(sessTab', sessCount.tokens)
  BY SessInvFacts, SessOpensSound
<1>3. sessTab'.changed = FALSE /\ sessTab'.cookie = sessTab.cookie
  <2>1. SessOpened(SessOpens(t, to), t, to)
    BY SessOpensFields
  <2> QED
    BY <2>1 DEF SessOpened
<1> DEFINE mine == sessForm = SessNoForm
<1>4. /\ sessForm' \in SessForms /\ sessForm'.kind = sessForm.kind /\ sessForm'.step = sessForm.step
      /\ sessForm'.mine = mine /\ sessForm' = [sessForm EXCEPT !.mine = mine]
  <2>1. mine \in BOOLEAN /\ sessForm \in SessForms /\ sessForm' = [sessForm EXCEPT !.mine = mine]
    BY SessInvFacts
  <2> HIDE DEF mine
  <2> QED
    BY <2>1 DEF SessForms
<1>5. sessForm' = SessNoForm \/ sessForm'.mine = FALSE
  <2>1. CASE sessForm = SessNoForm
    <3>1. mine = TRUE
      BY <2>1
    <3>2. sessForm' = [SessNoForm EXCEPT !.mine = TRUE]
      BY <1>4, <2>1, <3>1
    <3> QED
      BY <3>2 DEF SessNoForm
  <2>2. CASE sessForm # SessNoForm
    <3>1. mine = FALSE
      BY <2>2
    <3> QED
      BY <1>4, <3>1
  <2> QED
    BY <2>1, <2>2
<1>6. SessFormFits'
  BY <1>4, <1>5 DEF SessInv, SessFormFits
<1>7. SessChangeFits'
  BY <1>3, <1>4 DEF SessInv, SessChangeFits
<1> QED
  BY <1>1, <1>2, <1>6, <1>7 DEF SessInv

LEMMA SessMoveCounts ==
  ASSUME SessInv, SessMove
  PROVE  /\ sessCount' \in SessCounts /\ sessCount'.tokens = sessCount.tokens
         /\ sessCount'.others = sessCount.others
<1>1. sessCount \in SessCounts /\ sessCount' = [sessCount EXCEPT !.moves = @ + 1]
  BY SessInvFacts DEF SessMove
<1> QED
  BY <1>1 DEF SessCounts

LEMMA SessCountRests ==
  ASSUME SessInv, sessCount' = sessCount
  PROVE  /\ sessCount' \in SessCounts /\ sessCount'.tokens = sessCount.tokens
         /\ sessCount'.others = sessCount.others
BY SessInvFacts

(* What whoami answers is known only with a session. *)
LEMMA SessWhoIsKnown ==
  ASSUME SessInv, NEW got \in {SessWho(sessTab.cookie), "error"}
  PROVE  got \in SessAnswers /\ (sessCount.tokens = 0 => SessUserOf(got) = "none")
<1>1. got \in SessAnswers
  BY DEF SessWho, SessAnswers, SessUsers
<1>2. sessCount.tokens = 0 => sessRows = {}
  BY SessInvFacts
<1>3. sessRows = {} => SessWho(sessTab.cookie) = "none"
  BY DEF SessWho
<1> QED
  BY <1>1, <1>2, <1>3 DEF SessUserOf

LEMMA SessAskedKeeps == ASSUME SessInv, SessAsked PROVE SessInv'
<1>1. PICK got \in {SessWho(sessTab.cookie), "error"} :
        sessTab' = [sessTab EXCEPT !.nav = [sessTab.nav EXCEPT !.step = "reply", !.got = got],
                                   !.answers = @ \cup {got}]
  BY DEF SessAsked
<1> DEFINE t == sessTab
           n == sessCount.tokens
           nav == [t.nav EXCEPT !.step = "reply", !.got = got]
<1>2. SessTabSound(t, n) /\ t \in SessTabs /\ t.nav.step = "ask" /\ n \in Nat
  BY SessInvFacts DEF SessAsked
<1>3. got \in SessAnswers /\ (n = 0 => SessUserOf(got) = "none")
  BY SessWhoIsKnown
<1>4. t.nav \in SessNavs /\ t.answers \in SUBSET SessAnswers
  BY <1>2 DEF SessTabs
<1>5. /\ nav \in SessNavs /\ nav.to = t.nav.to /\ nav.redirects = t.nav.redirects /\ nav.step = "reply"
      /\ nav.got = got
  BY <1>3, <1>4 DEF SessNavs
<1>6. sessTab' = [t EXCEPT !.nav = nav, !.answers = t.answers \cup {got}]
  BY <1>1
<1> HIDE DEF nav, t, n
<1> SUFFICES ASSUME NEW r, r = sessTab'
             PROVE  SessTabSound(r, n) /\ r.cookie = t.cookie /\ r.changed = t.changed /\ r.page = t.page
  BY SessTabStep, SessCountRests DEF SessAsked, SessTabOnly, SessDb, t, n
<1>7. /\ r \in SessTabs /\ r.nav = nav /\ r.answers = t.answers \cup {got} /\ r.late = t.late
      /\ r.cookie = t.cookie /\ r.user = t.user /\ r.page = t.page /\ r.strays = t.strays
      /\ r.pending = t.pending /\ r.key = t.key
      /\ r.watch = t.watch /\ r.timer = t.timer /\ r.changed = t.changed /\ r.hard = t.hard
      /\ r.lost = t.lost
  BY <1>2, <1>3, <1>4, <1>5, <1>6 DEF SessTabs
<1>8. SessTabType(r, n)
  BY <1>2, <1>3, <1>5, <1>7 DEF SessTabSound, SessTabType
<1>9. SessTabSettles(r) /\ SessTabLoads(r) /\ SessTabShows(r)
  BY <1>2, <1>5, <1>7 DEF SessTabSound, SessTabSettles, SessTabLoads, SessTabShows
<1>10. SessTabHard(r)
  <2>1. ~SessMany(r.answers) => ~SessMany(t.answers)
    BY <1>7 DEF SessMany
  <2> QED
    BY <1>2, <1>5, <1>7, <2>1 DEF SessTabSound, SessTabHard
<1>11. SessTabFresh(r)
  BY <1>2, <1>5, <1>7 DEF SessTabSound, SessTabFresh
<1> QED
  BY <1>7, <1>8, <1>9, <1>10, <1>11 DEF SessTabSound

(* What the store makes of an answer. *)
LEMMA SessFetchedUser ==
  ASSUME SessInv, NEW got \in SessAnswers, sessCount.tokens = 0 => SessUserOf(got) = "none"
  PROVE  /\ SessFetched(got) \in SessUsers /\ (SessFetched(got) # "none" => sessCount.tokens > 0)
         /\ sessTab.user = "none" => SessFetched(got) = SessUserOf(got)
<1>1. sessTab.user \in SessUsers /\ sessCount.tokens \in Nat
  BY SessInvFacts DEF SessTabs
<1>2. sessCount.tokens = 0 => SessUserOf(sessTab.user) = "none"
  BY SessInvFacts DEF SessTabSound, SessTabType
<1> QED
  BY <1>1, <1>2 DEF SessFetched, SessUserOf, SessAnswers, SessUsers

LEMMA SessRepliedKeeps == ASSUME SessInv, SessReplied PROVE SessInv'
<1> DEFINE t == sessTab
           n == sessCount.tokens
           u == SessFetched(t.nav.got)
           s == SessSetUser(t, u)
           nav == [s.nav EXCEPT !.step = "guard", !.got = "none"]
<1>1. SessTabSound(t, n) /\ t \in SessTabs /\ t.nav.step = "reply" /\ n \in Nat /\ t.nav.got \in SessAnswers
  BY SessInvFacts DEF SessReplied, SessTabs, SessNavs
<1>2. n = 0 => SessUserOf(t.nav.got) = "none"
  BY <1>1 DEF SessTabSound, SessTabType
<1>3. u \in SessUsers /\ (u # "none" => n > 0) /\ (t.user = "none" => u = SessUserOf(t.nav.got))
  BY <1>1, <1>2, SessFetchedUser
<1>4. sessTab' = [s EXCEPT !.nav = nav]
  BY DEF SessReplied
<1>5. SessUserSet(s, t, u)
  BY <1>1, <1>3, SessSetUserFields
<1> HIDE DEF t, n, u, s
<1>6. /\ s \in SessTabs /\ s.nav \in SessNavs /\ s.nav.to = t.nav.to /\ s.user = u
      /\ u = t.user => s.nav.redirects = t.nav.redirects
      /\ u # t.user => s.nav.redirects = 0
      /\ s.cookie = t.cookie /\ s.page = t.page /\ s.strays = t.strays /\ s.pending = t.pending /\ s.key = t.key
      /\ s.timer = t.timer /\ s.changed = t.changed /\ s.hard = t.hard
      /\ s.answers = t.answers /\ s.lost = t.lost
      /\ t.page \notin SessPrivate => s.watch = t.watch
  BY <1>5 DEF SessUserSet
<1>7. nav \in SessNavs /\ nav.to = t.nav.to /\ nav.redirects = s.nav.redirects /\ nav.step = "guard" /\ nav.got = "none"
  BY <1>6 DEF SessNavs, SessAnswers, SessUsers
<1> HIDE DEF nav
<1> SUFFICES ASSUME NEW r, r = sessTab'
             PROVE  SessTabSound(r, n) /\ r.cookie = t.cookie /\ r.changed = t.changed /\ r.page = t.page
  BY SessTabStep, SessCountRests DEF SessReplied, SessTabOnly, SessDb, t, n
<1>8. /\ r \in SessTabs /\ r.nav = nav /\ r.user = u
      /\ r.cookie = t.cookie /\ r.page = t.page /\ r.strays = t.strays /\ r.pending = t.pending /\ r.key = t.key
      /\ r.timer = t.timer /\ r.changed = t.changed /\ r.hard = t.hard
      /\ r.answers = t.answers /\ r.lost = t.lost /\ r.watch = s.watch
  BY <1>4, <1>6, <1>7 DEF SessTabs
<1>9. SessTabType(r, n)
  BY <1>1, <1>3, <1>7, <1>8 DEF SessTabSound, SessTabType, SessUserOf
<1>10. SessTabSettles(r)
  BY <1>1, <1>6, <1>7, <1>8 DEF SessTabSound, SessTabSettles
<1>11. SessTabLoads(r) /\ SessTabShows(r)
  BY <1>7, <1>8 DEF SessTabLoads, SessTabShows
<1>12. SessTabHard(r)
  BY <1>1, <1>7, <1>8 DEF SessTabSound, SessTabHard
<1>13. SessTabFresh(r)
  <2> SUFFICES ASSUME r.page = "blank" PROVE SessTabFresh(r)
    BY DEF SessTabFresh
  <2>1. /\ t.strays = {} /\ t.watch = FALSE /\ t.timer = FALSE /\ t.changed = FALSE /\ t.pending = {t.nav.to}
        /\ t.user = "none" /\ t.nav.got \in t.answers
    BY <1>1, <1>8 DEF SessTabSound, SessTabFresh
  <2>2. r.watch = FALSE
    <3>1. "blank" \notin SessPrivate
      BY DEF SessPrivate, SessPages, SessPublic
    <3> QED
      BY <1>6, <1>8, <2>1, <3>1
  <2>3. r.user = SessUserOf(t.nav.got)
    BY <1>3, <1>8, <2>1
  <2> QED
    BY <1>7, <1>8, <2>1, <2>2, <2>3 DEF SessTabFresh
<1> QED
  BY <1>8, <1>9, <1>10, <1>11, <1>12, <1>13 DEF SessTabSound

LEMMA SessGuardedKeeps == ASSUME SessInv, SessGuarded PROVE SessInv'
<1> DEFINE t == sessTab
           n == sessCount.tokens
           to == SessGuard(t.nav.to, t.user)
<1>1. /\ SessTabSound(t, n) /\ t \in SessTabs /\ t.nav.step = "guard" /\ n \in Nat /\ t.nav \in SessNavs
      /\ t.user \in SessUsers /\ t.nav.to \in SessPages /\ t.nav.redirects \in Nat
  <2>1. SessTabSound(t, n) /\ t \in SessTabs /\ t.nav.step = "guard" /\ n \in Nat
    BY SessInvFacts DEF SessGuarded
  <2>2. t.nav \in SessNavs /\ t.user \in SessUsers /\ t.nav.to \in SessPages
    BY <2>1 DEF SessTabs, SessTabSound, SessTabType
  <2> QED
    BY <2>1, <2>2 DEF SessNavs
<1>2. to \in SessPages /\ SessGuard(to, t.user) = to /\ (t.user = "must" => to = "change")
  BY <1>1, SessGuardTwice
<1>3. sessTab' = IF to = t.nav.to THEN [t EXCEPT !.nav = [t.nav EXCEPT !.step = "load"]]
                 ELSE IF to = t.page THEN SessStays(t)
                 ELSE SessEnters(t, to, t.nav.redirects + 1)
  BY DEF SessGuarded
<1> SUFFICES ASSUME NEW r, r = sessTab'
             PROVE  SessTabSound(r, n) /\ r.cookie = t.cookie /\ r.changed = t.changed /\ r.page = t.page
  BY SessTabStep, SessCountRests DEF SessGuarded, SessTabOnly, SessDb
<1>4. CASE to = t.nav.to
  <2> DEFINE nav == [t.nav EXCEPT !.step = "load"]
  <2>1. r = [t EXCEPT !.nav = nav]
    BY <1>3, <1>4
  <2>2. t.nav.to = SessGuard(t.nav.to, t.user) /\ (t.user = "must" => t.nav.to = "change")
    BY <1>2, <1>4
  <2>3. /\ nav \in SessNavs /\ nav.to = t.nav.to /\ nav.redirects = t.nav.redirects /\ nav.step = "load"
        /\ nav.got = t.nav.got
    BY <1>1 DEF SessNavs
  <2> HIDE DEF nav, t, n, to
  <2>4. /\ r \in SessTabs /\ r.nav = nav /\ r.user = t.user /\ r.late = t.late /\ r.watch = t.watch
        /\ r.cookie = t.cookie /\ r.page = t.page /\ r.strays = t.strays /\ r.pending = t.pending /\ r.key = t.key
        /\ r.timer = t.timer /\ r.changed = t.changed /\ r.hard = t.hard
        /\ r.answers = t.answers /\ r.lost = t.lost
    BY <1>1, <2>1, <2>3 DEF SessTabs
  <2>5. SessTabType(r, n)
    BY <1>1, <2>3, <2>4 DEF SessTabSound, SessTabType
  <2>6. SessTabSettles(r)
    BY <1>1, <2>3, <2>4 DEF SessTabSound, SessTabSettles
  <2>7. SessTabLoads(r) /\ SessTabShows(r)
    BY <2>2, <2>3, <2>4 DEF SessTabLoads, SessTabShows
  <2>8. SessTabHard(r)
    BY <1>1, <2>3, <2>4 DEF SessTabSound, SessTabHard
  <2>9. SessTabFresh(r)
    BY <1>1, <2>2, <2>3, <2>4 DEF SessTabSound, SessTabFresh
  <2> QED
    BY <2>4, <2>5, <2>6, <2>7, <2>8, <2>9 DEF SessTabSound
<1>5. CASE to # t.nav.to /\ to = t.page
  <2>1. r = SessStays(t)
    BY <1>3, <1>5
  <2>2. t.page # "blank"
    BY <1>2, <1>5 DEF SessPages, SessPublic
  <2>3. t.hard = 0
    BY <1>1, <2>2, SessShownIsEasy
  <2>4. t.user = "must" => t.page \notin SessPrivate
    BY <1>2, <1>5 DEF SessPrivate, SessPublic
  <2> HIDE DEF t, n, to
  <2>5. /\ r \in SessTabs /\ r.nav = SessNoNav /\ r.cookie = t.cookie /\ r.user = t.user /\ r.page = t.page
        /\ r.strays = t.strays /\ r.changed = t.changed /\ r.hard = 0
    BY <1>1, <2>1, <2>3, SessStaysFields
  <2>6. SessTabType(r, n)
    BY <1>1, <2>5, SessNoNavFields DEF SessTabSound, SessTabType, SessUserOf
  <2>7. SessTabSettles(r) /\ SessTabHard(r) /\ SessTabLoads(r)
    BY <2>5, SessNoNavFields DEF SessTabSettles, SessTabHard, SessTabLoads
  <2>8. SessTabShows(r) /\ SessTabFresh(r)
    BY <2>2, <2>4, <2>5 DEF SessTabShows, SessTabFresh
  <2> QED
    BY <2>5, <2>6, <2>7, <2>8 DEF SessTabSound
<1>6. CASE to # t.nav.to /\ to # t.page
  <2>1. r = SessEnters(t, to, t.nav.redirects + 1)
    BY <1>3, <1>6
  <2>2. t.nav.redirects = 0
    BY <1>1, <1>6 DEF SessTabSound, SessTabSettles
  <2>3. t.nav.to # to /\ to = SessGuard(t.nav.to, t.user)
    BY <1>6
  <2> HIDE DEF t, n, to
  <2>4. SessEntered(r, t, to, 1)
    BY <1>1, <1>2, <2>1, <2>2, SessEntersFields
  <2>5. /\ r \in SessTabs /\ r.nav.to = to /\ r.nav.redirects = 1 /\ r.nav.got = "none"
        /\ r.nav.step = (IF t.user = "none" THEN "ask" ELSE "guard") /\ r.pending = {to} /\ r.late = FALSE
        /\ r.cookie = t.cookie /\ r.user = t.user /\ r.page = t.page /\ r.strays = t.strays /\ r.key = t.key
        /\ r.watch = t.watch /\ r.timer = t.timer /\ r.changed = t.changed /\ r.hard = t.hard
        /\ r.answers = t.answers /\ r.lost = t.lost
    BY <2>4 DEF SessEntered
  <2>6. r.nav.step \in {"ask", "guard"} /\ (r.nav.step = "ask" => r.user = "none")
    BY <2>5
  <2>7. SessTabType(r, n)
    BY <1>1, <1>2, <2>5, <2>6 DEF SessTabSound, SessTabType, SessUserOf
  <2>8. SessTabSettles(r)
    BY <1>2, <2>5 DEF SessTabSettles
  <2>9. SessTabLoads(r) /\ SessTabShows(r)
    BY <2>6 DEF SessTabLoads, SessTabShows
  <2>10. t.page = "blank" => \E a \in t.answers : t.user = SessUserOf(a)
    BY <1>1 DEF SessTabSound, SessTabFresh
  <2>11. SessTabHard(r)
    <3> SUFFICES ASSUME t.hard > 0 PROVE SessTabHard(r)
      BY <2>5 DEF SessTabHard
    <3>1. PICK p \in SessPages :
            /\ t.key = {p}
            /\ ~SessMany(t.answers) =>
                 /\ t.hard <= 2
                 /\ t.nav.to = p \/ \E a \in t.answers : t.nav.to = SessGuard(p, SessUserOf(a))
                 /\ t.hard = 2 => \E a \in t.answers : SessGuard(p, SessUserOf(a)) = p
      BY <1>1 DEF SessTabSound, SessTabHard
    <3>2. t.page = "blank"
      BY <1>1 DEF SessTabSound, SessTabHard
    <3>3. PICK a \in t.answers : t.user = SessUserOf(a)
      BY <2>10, <3>2
    <3>4. ~SessMany(t.answers) => to = SessGuard(p, SessUserOf(a))
      <4> SUFFICES ASSUME ~SessMany(t.answers) PROVE to = SessGuard(p, SessUserOf(a))
        OBVIOUS
      <4>1. \A b \in t.answers : b = a
        BY DEF SessMany
      <4>2. t.nav.to = p \/ t.nav.to = SessGuard(p, t.user)
        BY <3>1, <3>3, <4>1
      <4>3. SessGuard(SessGuard(p, t.user), t.user) = SessGuard(p, t.user)
        BY <1>1, SessGuardTwice
      <4> QED
        BY <2>3, <3>3, <4>2, <4>3
    <3> QED
      BY <2>5, <3>1, <3>2, <3>3, <3>4 DEF SessTabHard
  <2>12. SessTabFresh(r)
    BY <1>1, <2>5, <2>6, <2>10 DEF SessTabSound, SessTabFresh
  <2> QED
    BY <2>5, <2>7, <2>8, <2>9, <2>11, <2>12 DEF SessTabSound
<1> QED
  BY <1>4, <1>5, <1>6

LEMMA SessLoadedKeeps == ASSUME SessInv, SessLoaded PROVE SessInv'
<1> DEFINE t == sessTab
           n == sessCount.tokens
<1>1. SessTabSound(t, n) /\ t \in SessTabs /\ t.nav.step = "load" /\ n \in Nat /\ t.nav.to \in SessPages
  <2>1. SessTabSound(t, n) /\ t \in SessTabs /\ t.nav.step = "load" /\ n \in Nat
    BY SessInvFacts DEF SessLoaded
  <2> QED
    BY <2>1 DEF SessTabSound, SessTabType
<1>2. sessTab' = [t EXCEPT !.page = t.nav.to, !.nav = SessNoNav, !.pending = {}, !.key = {},
                    !.timer = FALSE, !.hard = 0, !.answers = {}, !.lost = FALSE]
  BY DEF SessLoaded
<1> SUFFICES ASSUME NEW r, r = sessTab'
             PROVE  /\ SessTabSound(r, n) /\ r.cookie = t.cookie /\ r.changed = t.changed
                    /\ r.page = "blank" => t.page = "blank"
  BY SessTabStep, SessCountRests DEF SessLoaded, SessTabOnly, SessDb
<1> HIDE DEF t, n
<1>3. /\ r \in SessTabs /\ r.page = t.nav.to /\ r.nav = SessNoNav /\ r.hard = 0 /\ r.lost = FALSE
      /\ r.cookie = t.cookie /\ r.user = t.user /\ r.strays = t.strays /\ r.late = t.late /\ r.watch = t.watch
      /\ r.changed = t.changed
  BY <1>1, <1>2, SessNoNavFields, SessSinglesOf DEF SessTabs
<1>4. r.page # "blank"
  BY <1>1, <1>3 DEF SessPages, SessPublic
<1>5. SessTabType(r, n)
  BY <1>1, <1>3, SessNoNavFields DEF SessTabSound, SessTabType, SessUserOf
<1>6. SessTabSettles(r) /\ SessTabHard(r) /\ SessTabLoads(r) /\ SessTabFresh(r)
  BY <1>3, <1>4, SessNoNavFields DEF SessTabSettles, SessTabHard, SessTabLoads, SessTabFresh
<1>7. SessTabShows(r)
  <2>1. t.user = "must" /\ ~t.watch /\ ~t.late => t.nav.to = "change"
    BY <1>1 DEF SessTabSound, SessTabLoads
  <2>2. "change" \notin SessPrivate
    BY DEF SessPrivate, SessPublic
  <2> QED
    BY <1>3, <2>1, <2>2 DEF SessTabShows
<1> QED
  BY <1>3, <1>4, <1>5, <1>6, <1>7 DEF SessTabSound

LEMMA SessStrayEndsKeeps == ASSUME SessInv, NEW s \in sessTab.strays, SessStrayEnds(s) PROVE SessInv'
<1> DEFINE t == sessTab
           n == sessCount.tokens
<1>1. SessTabSound(t, n) /\ t \in SessTabs /\ n \in Nat
  BY SessInvFacts
<1>2. t.page # "blank"
  BY <1>1 DEF SessTabSound, SessTabFresh
<1>3. t.hard = 0 /\ s \in SessStrays /\ s.got \in SessAnswers /\ t.strays \in SUBSET SessStrays
  <2>1. t.hard = 0
    BY <1>1, <1>2, SessShownIsEasy
  <2>2. t.strays \in SUBSET SessStrays
    BY <1>1 DEF SessTabs
  <2> QED
    BY <2>1, <2>2 DEF SessStrays
<1> SUFFICES ASSUME NEW r, r = sessTab'
             PROVE  SessTabSound(r, n) /\ r.cookie = t.cookie /\ r.changed = t.changed /\ r.page = t.page
  BY SessTabStep, SessCountRests DEF SessStrayEnds, SessTabOnly, SessDb
<1>4. ASSUME NEW got \in {SessWho(t.cookie), "error"},
             r = [t EXCEPT !.strays = (@ \ {s}) \cup {[step |-> "reply", got |-> got]}]
      PROVE  SessTabSound(r, n) /\ r.cookie = t.cookie /\ r.changed = t.changed /\ r.page = t.page
  <2> DEFINE q == [step |-> "reply", got |-> got]
  <2>1. got \in SessAnswers /\ (n = 0 => SessUserOf(got) = "none")
    BY SessWhoIsKnown
  <2>2. q \in SessStrays /\ q.got = got
    BY <2>1 DEF SessStrays
  <2>3. r = [t EXCEPT !.strays = (t.strays \ {s}) \cup {q}]
    BY <1>4
  <2> HIDE DEF q, t, n
  <2>4. /\ r \in SessTabs /\ r.strays = (t.strays \ {s}) \cup {q} /\ r.cookie = t.cookie /\ r.user = t.user
        /\ r.page = t.page /\ r.nav = t.nav /\ r.watch = t.watch /\ r.lost = t.lost /\ r.late = t.late
        /\ r.hard = 0 /\ r.changed = t.changed
    BY <1>1, <1>3, <2>2, <2>3 DEF SessTabs
  <2>5. \A x \in r.strays : x \in t.strays \/ SessUserOf(x.got) = "none" \/ n > 0
    BY <1>1, <2>1, <2>2, <2>4
  <2> QED
    BY <1>1, <1>2, <2>4, <2>5, SessTabTweak
<1>5. ASSUME r = [SessSetUser(t, SessFetched(s.got)) EXCEPT
                    !.strays = (t.strays \ {s}) \cup {[step |-> "end", got |-> "none"]}]
      PROVE  SessTabSound(r, n) /\ r.cookie = t.cookie /\ r.changed = t.changed /\ r.page = t.page
  <2> DEFINE u == SessFetched(s.got)
             v == SessSetUser(t, u)
             q == [step |-> "end", got |-> "none"]
  <2>1. n = 0 => SessUserOf(s.got) = "none"
    BY <1>1 DEF SessTabSound, SessTabType
  <2>2. u \in SessUsers /\ (u # "none" => n > 0)
    BY <1>3, <2>1, SessFetchedUser
  <2>3. q \in SessStrays /\ SessUserOf(q.got) = "none"
    BY DEF SessStrays, SessAnswers, SessUsers, SessUserOf
  <2>4. r = [v EXCEPT !.strays = (t.strays \ {s}) \cup {q}]
    BY <1>5
  <2> HIDE DEF q, t, n, u
  <2>5. SessTabSound(v, n) /\ SessUserSet(v, t, u)
    BY <1>1, <1>2, <2>2, SessSetUserSound, SessSetUserFields
  <2> HIDE DEF v
  <2>6. /\ v \in SessTabs /\ v.strays = t.strays /\ v.cookie = t.cookie /\ v.page = t.page /\ v.hard = 0
        /\ v.changed = t.changed
    BY <1>3, <2>5 DEF SessUserSet
  <2>7. /\ r \in SessTabs /\ r.strays = (t.strays \ {s}) \cup {q} /\ r.cookie = v.cookie /\ r.user = v.user
        /\ r.page = v.page /\ r.nav = v.nav /\ r.watch = v.watch /\ r.lost = v.lost /\ r.late = v.late
        /\ r.hard = 0 /\ r.changed = v.changed
    BY <1>3, <2>3, <2>4, <2>6 DEF SessTabs
  <2>8. \A x \in r.strays : x \in v.strays \/ SessUserOf(x.got) = "none" \/ n > 0
    BY <2>3, <2>6, <2>7
  <2> QED
    BY <1>1, <1>2, <2>5, <2>6, <2>7, <2>8, SessTabTweak
<1>6. ASSUME r = [t EXCEPT !.strays = @ \ {s}, !.pending = {}, !.key = {}]
      PROVE  SessTabSound(r, n) /\ r.cookie = t.cookie /\ r.changed = t.changed /\ r.page = t.page
  <2> HIDE DEF t, n
  <2>1. /\ r \in SessTabs /\ r.strays = t.strays \ {s} /\ r.cookie = t.cookie /\ r.user = t.user
        /\ r.page = t.page /\ r.nav = t.nav /\ r.watch = t.watch /\ r.lost = t.lost /\ r.late = t.late
        /\ r.hard = 0 /\ r.changed = t.changed
    <3> DEFINE rest == t.strays \ {s}
    <3>1. r = [t EXCEPT !.strays = rest, !.pending = {}, !.key = {}]
      BY <1>6
    <3>2. rest \in SUBSET SessStrays /\ {} \in SessSingles
      BY <1>3, SessSinglesOf
    <3> HIDE DEF rest
    <3>3. /\ r \in SessTabs /\ r.strays = rest /\ r.cookie = t.cookie /\ r.user = t.user
          /\ r.page = t.page /\ r.nav = t.nav /\ r.watch = t.watch /\ r.lost = t.lost /\ r.late = t.late
          /\ r.hard = t.hard /\ r.changed = t.changed
      BY <1>1, <3>1, <3>2, ZenonT(60) DEF SessTabs
    <3> QED
      BY <1>3, <3>3 DEF rest
  <2> QED
    BY <1>1, <1>2, <2>1, SessTabTweak
<1> QED
  BY <1>4, <1>5, <1>6 DEF SessStrayEnds

LEMMA SessBrokenKeeps == ASSUME SessInv, SessBroken PROVE SessInv'
<1> DEFINE t == sessTab
           n == sessCount.tokens
<1>1. SessTabSound(t, n) /\ t \in SessTabs /\ t.nav.step = "load" /\ n \in Nat /\ t.cookie <= n
      /\ t.nav.to \in SessPages /\ t.nav.redirects \in Nat
  <2>1. SessTabSound(t, n) /\ t \in SessTabs /\ t.nav.step = "load" /\ n \in Nat /\ t.cookie <= n
    BY SessInvFacts DEF SessBroken
  <2> QED
    BY <2>1 DEF SessTabSound, SessTabType, SessTabs, SessNavs
<1>2. PICK target \in IF t.pending = {} THEN {t.page} ELSE t.pending :
        IF SessRecovers(target) /\ target # "blank"
        THEN /\ sessTab' = SessOpens([t EXCEPT !.key = {target}, !.hard = @ + 1], target)
             /\ sessForm' = [sessForm EXCEPT !.mine = sessForm = SessNoForm]
        ELSE sessTab' = [t EXCEPT !.nav = SessNoNav, !.lost = TRUE] /\ UNCHANGED sessForm
  BY DEF SessBroken
<1>3. CASE SessRecovers(target) /\ target # "blank"
  <2> DEFINE o == [t EXCEPT !.key = {target}, !.hard = t.hard + 1]
  <2>1. sessTab' = SessOpens(o, target) /\ sessForm' = [sessForm EXCEPT !.mine = sessForm = SessNoForm]
    BY <1>2, <1>3
  <2>2. target \in SessPages
    <3>1. t.page \in SessPages \cup {"blank"} /\ t.pending \in SessSingles
      BY <1>1 DEF SessTabs
    <3> QED
      BY <1>2, <1>3, <3>1 DEF SessSingles
  <2>3. t.hard \in Nat
    BY <1>1 DEF SessTabs
  <2>4. /\ o \in SessTabs /\ o.key = {target} /\ o.hard = t.hard + 1 /\ o.cookie = t.cookie
        /\ o.answers = t.answers
    <3>1. {target} \in SessSingles /\ t.hard + 1 \in Nat
      BY <2>2, <2>3, SessSinglesOf
    <3> QED
      BY <1>1, <3>1 DEF SessTabs
  <2> HIDE DEF o
  <2>5. SessOpened(SessOpens(o, target), o, target)
    BY <2>2, <2>4, SessOpensFields
  <2>6. SessTabHard(sessTab')
    <3> SUFFICES ASSUME NEW r, r = sessTab' PROVE SessTabHard(r)
      OBVIOUS
    <3>1. /\ r.key = {target} /\ r.hard = t.hard + 1 /\ r.answers = t.answers /\ r.page = "blank"
          /\ r.nav.to = target
      BY <2>1, <2>4, <2>5 DEF SessOpened
    <3>2. CASE t.hard = 0
      BY <2>2, <3>1, <3>2 DEF SessTabHard
    <3>3. CASE t.hard > 0
      <4>1. PICK p \in SessPages :
              /\ t.key = {p}
              /\ ~SessMany(t.answers) =>
                   /\ t.hard <= 2
                   /\ t.nav.to = p \/ \E a \in t.answers : t.nav.to = SessGuard(p, SessUserOf(a))
                   /\ t.hard = 2 => \E a \in t.answers : SessGuard(p, SessUserOf(a)) = p
        BY <1>1, <3>3 DEF SessTabSound, SessTabHard
      <4>2. t.page = "blank"
        BY <1>1, <3>3 DEF SessTabSound, SessTabHard
      <4>3. target = t.nav.to
        <5>1. t.pending = {t.nav.to}
          BY <1>1, <4>2 DEF SessTabSound, SessTabFresh
        <5> QED
          BY <1>2, <5>1
      <4>4. target # p
        BY <1>3, <4>1 DEF SessRecovers
      <4>5. ~SessMany(t.answers) =>
              /\ t.hard = 1
              /\ \E a \in t.answers : SessGuard(target, SessUserOf(a)) = target
        <5> SUFFICES ASSUME ~SessMany(t.answers)
                     PROVE  t.hard = 1 /\ \E a \in t.answers : SessGuard(target, SessUserOf(a)) = target
          OBVIOUS
        <5>1. PICK a \in t.answers : target = SessGuard(p, SessUserOf(a))
          BY <4>1, <4>3, <4>4
        <5>2. t.hard # 2
          <6>1. \A b \in t.answers : b = a
            BY DEF SessMany
          <6> QED
            BY <4>1, <4>4, <5>1, <6>1
        <5>3. SessUserOf(a) \in SessUsers
          <6>1. a \in SessAnswers
            BY <1>1 DEF SessTabs
          <6> QED
            BY <6>1, SessUserOfUser
        <5>4. SessGuard(target, SessUserOf(a)) = target
          BY <5>1, <5>3, SessGuardTwice
        <5>5. t.hard = 1
          BY <2>3, <3>3, <4>1, <5>2
        <5> QED
          BY <5>4, <5>5
      <4> QED
        BY <2>2, <2>3, <3>1, <4>5 DEF SessTabHard
    <3> QED
      BY <2>3, <3>2, <3>3
  <2> QED
    BY <2>1, <2>2, <2>4, <2>6, SessOpenStep, SessCountRests DEF SessBroken, SessDb
<1>4. CASE ~(SessRecovers(target) /\ target # "blank")
  <2>1. sessTab' = [t EXCEPT !.nav = SessNoNav, !.lost = TRUE] /\ sessForm' = sessForm
    BY <1>2, <1>4
  <2> SUFFICES ASSUME NEW r, r = sessTab'
               PROVE  SessTabSound(r, n) /\ r.cookie = t.cookie /\ r.changed = t.changed /\ r.page = t.page
    BY <2>1, SessTabStep, SessCountRests DEF SessBroken, SessDb
  <2> HIDE DEF t, n
  <2>2. /\ r \in SessTabs /\ r.nav = SessNoNav /\ r.lost = TRUE /\ r.user = t.user /\ r.late = t.late
        /\ r.watch = t.watch /\ r.cookie = t.cookie /\ r.page = t.page /\ r.strays = t.strays
        /\ r.pending = t.pending /\ r.key = t.key /\ r.timer = t.timer /\ r.changed = t.changed
        /\ r.hard = t.hard /\ r.answers = t.answers
    BY <1>1, <2>1, SessNoNavFields DEF SessTabs
  <2>3. SessTabType(r, n)
    BY <1>1, <2>2, SessNoNavFields DEF SessTabSound, SessTabType, SessUserOf
  <2>4. SessTabSettles(r) /\ SessTabLoads(r) /\ SessTabShows(r)
    BY <2>2, SessNoNavFields DEF SessTabSettles, SessTabLoads, SessTabShows
  <2>5. SessTabHard(r)
    BY <1>1, <2>2, SessNoNavFields DEF SessTabSound, SessTabHard
  <2>6. SessTabFresh(r)
    BY <1>1, <2>2, SessNoNavFields DEF SessTabSound, SessTabFresh
  <2> QED
    BY <2>2, <2>3, <2>4, <2>5, <2>6 DEF SessTabSound
<1> QED
  BY <1>3, <1>4

LEMMA SessWatchKeeps == ASSUME SessInv, SessWatch PROVE SessInv'
<1> DEFINE t == sessTab
           n == sessCount.tokens
           w == [t EXCEPT !.watch = FALSE]
<1>1. SessTabSound(t, n) /\ t \in SessTabs /\ t.watch = TRUE /\ n \in Nat
  <2>1. SessTabSound(t, n) /\ t \in SessTabs /\ t.watch /\ n \in Nat
    BY SessInvFacts DEF SessWatch
  <2>2. t.watch \in BOOLEAN
    BY <2>1 DEF SessTabs
  <2> QED
    BY <2>1, <2>2
<1>2. t.page # "blank"
  BY <1>1 DEF SessTabSound, SessTabFresh
<1>3. t.hard = 0
  BY <1>1, <1>2, SessShownIsEasy
<1>4. sessTab' = IF w.page \in SessPublic \cup {"blank"} THEN w ELSE SessPush(w, "change")
  BY DEF SessWatch
<1> SUFFICES ASSUME NEW r, r = sessTab'
             PROVE  SessTabSound(r, n) /\ r.cookie = t.cookie /\ r.changed = t.changed /\ r.page = t.page
  BY SessTabStep, SessCountRests DEF SessWatch, SessTabOnly, SessDb
<1> HIDE DEF t, n
<1>5. /\ w \in SessTabs /\ w.cookie = t.cookie /\ w.user = t.user /\ w.page = t.page /\ w.nav = t.nav
      /\ w.watch = FALSE /\ w.strays = t.strays /\ w.lost = t.lost /\ w.late = t.late /\ w.hard = 0
      /\ w.changed = t.changed
  BY <1>1, <1>3 DEF SessTabs
<1> HIDE DEF w
<1>6. SessTabType(w, n)
  BY <1>1, <1>5 DEF SessTabSound, SessTabType
<1>7. CASE w.page \in SessPublic \cup {"blank"}
  <2>1. w.page \notin SessPrivate
    BY <1>2, <1>5, <1>7 DEF SessPrivate
  <2>2. SessTabSettles(w)
    BY <1>1, <1>5 DEF SessTabSound, SessTabSettles
  <2>3. SessTabLoads(w)
    BY <1>1, <1>5, <2>1 DEF SessTabSound, SessTabLoads
  <2>4. SessTabShows(w) /\ SessTabHard(w) /\ SessTabFresh(w)
    BY <1>2, <1>5, <2>1 DEF SessTabShows, SessTabHard, SessTabFresh
  <2> QED
    BY <1>4, <1>5, <1>6, <1>7, <2>2, <2>3, <2>4 DEF SessTabSound
<1>8. CASE w.page \notin SessPublic \cup {"blank"}
  <2>1. "change" \in SessPages /\ w.page # "change" /\ w.page # "blank"
    BY <1>8 DEF SessPages, SessPublic
  <2>2. r = SessPush(w, "change")
    BY <1>4, <1>8
  <2> QED
    BY <1>1, <1>5, <1>6, <2>1, <2>2, SessPushSound
<1> QED
  BY <1>7, <1>8

-----------------------------------------------------------------------------
(* Steps of the user *)

LEMMA SessOpenKeeps == ASSUME SessInv, NEW to \in SessPages, SessOpen(to) PROVE SessInv'
<1> DEFINE o == [sessTab EXCEPT !.hard = 0, !.answers = {}]
<1>1. sessTab \in SessTabs
  BY SessInvFacts
<1>2. o \in SessTabs /\ o.cookie = sessTab.cookie /\ o.hard = 0
  BY <1>1 DEF SessTabs
<1>3. sessTab' = SessOpens(o, to)
  BY DEF SessOpen
<1> HIDE DEF o
<1>4. SessTabHard(sessTab')
  <2>1. SessOpened(SessOpens(o, to), o, to)
    BY <1>2, SessOpensFields
  <2> QED
    BY <1>2, <1>3, <2>1 DEF SessOpened, SessTabHard
<1> QED
  BY <1>2, <1>3, <1>4, SessOpenStep, SessMoveCounts DEF SessOpen, SessDb

LEMMA SessClickKeeps == ASSUME SessInv, NEW to \in SessPrivate, SessClick(to) PROVE SessInv'
<1> DEFINE t == sessTab
           n == sessCount.tokens
           e == [t EXCEPT !.hard = 0, !.answers = {}]
<1>1. SessTabSound(t, n) /\ t \in SessTabs /\ n \in Nat
  BY SessInvFacts
<1>2. t.page # "blank" /\ to \in SessPages
  BY DEF SessClick, SessPrivate, SessPages, SessPublic
<1>3. sessTab' = SessPush(e, to)
  BY DEF SessClick
<1> SUFFICES ASSUME NEW r, r = sessTab'
             PROVE  SessTabSound(r, n) /\ r.cookie = t.cookie /\ r.changed = t.changed /\ r.page = t.page
  BY SessTabStep, SessMoveCounts DEF SessClick, SessDb
<1> HIDE DEF t, n
<1>5. /\ e \in SessTabs /\ e.strays = t.strays /\ e.cookie = t.cookie /\ e.user = t.user
      /\ e.page = t.page /\ e.nav = t.nav /\ e.watch = t.watch /\ e.lost = t.lost /\ e.late = t.late
      /\ e.hard = 0 /\ e.changed = t.changed
  BY <1>1 DEF SessTabs
<1> HIDE DEF e
<1>6. SessTabSound(e, n)
  BY <1>1, <1>2, <1>5, SessTabTweak
<1>7. SessTabType(e, n) /\ SessTabShows(e)
  BY <1>6 DEF SessTabSound
<1> QED
  BY <1>1, <1>2, <1>3, <1>5, <1>7, SessPushSound

LEMMA SessTimerKeeps == ASSUME SessInv, SessTimer PROVE SessInv'
<1> DEFINE t == sessTab
           n == sessCount.tokens
           e == [t EXCEPT !.timer = FALSE]
<1>1. SessTabSound(t, n) /\ t \in SessTabs /\ n \in Nat /\ t.timer # FALSE
  BY SessInvFacts DEF SessTimer
<1>2. t.page # "blank" /\ "home" \in SessPages
  BY <1>1 DEF SessTabSound, SessTabFresh, SessPages
<1>3. t.hard = 0
  BY <1>1, <1>2, SessShownIsEasy
<1>4. sessTab' = SessPush(e, "home")
  BY DEF SessTimer
<1> SUFFICES ASSUME NEW r, r = sessTab'
             PROVE  SessTabSound(r, n) /\ r.cookie = t.cookie /\ r.changed = t.changed /\ r.page = t.page
  BY SessTabStep, SessCountRests DEF SessTimer, SessTabOnly, SessDb
<1> HIDE DEF t, n
<1>5. /\ e \in SessTabs /\ e.strays = t.strays /\ e.cookie = t.cookie /\ e.user = t.user
      /\ e.page = t.page /\ e.nav = t.nav /\ e.watch = t.watch /\ e.lost = t.lost /\ e.late = t.late
      /\ e.hard = 0 /\ e.changed = t.changed
  BY <1>1, <1>3 DEF SessTabs
<1> HIDE DEF e
<1>6. SessTabSound(e, n)
  BY <1>1, <1>2, <1>5, SessTabTweak
<1>7. SessTabType(e, n) /\ SessTabShows(e)
  BY <1>6 DEF SessTabSound
<1> QED
  BY <1>1, <1>2, <1>4, <1>5, <1>7, SessPushSound

(* A form is sent: nothing is said any more of the last change. *)
LEMMA SessSentStep ==
  ASSUME SessInv, sessUser' = sessUser, sessRows' = sessRows, sessForm = SessNoForm,
         NEW kind \in {"login", "setup", "change", "logout"},
         sessForm' = [SessNoForm EXCEPT !.kind = kind, !.step = "sent"],
         sessCount' \in SessCounts, sessCount'.tokens = sessCount.tokens, sessCount'.others = sessCount.others,
         SessTabSound(sessTab', sessCount.tokens), sessTab'.changed = FALSE, sessTab'.page # "blank"
  PROVE  SessInv'
<1>1. SessDbOK'
  BY DEF SessInv, SessDbOK
<1>2. sessForm' \in SessForms /\ sessForm'.step = "sent"
  BY DEF SessNoForm, SessForms
<1>3. SessFormFits' /\ SessChangeFits'
  BY <1>2 DEF SessFormFits, SessChangeFits
<1>4. SessTabSound(sessTab, sessCount.tokens)'
  OBVIOUS
<1> QED
  BY <1>1, <1>3, <1>4 DEF SessInv

LEMMA SessSubmitKeeps == ASSUME SessInv, SessSubmit PROVE SessInv'
<1> DEFINE t == sessTab
           n == sessCount.tokens
           kind == IF t.page = "change" THEN "change" ELSE IF sessSetup THEN "login" ELSE "setup"
<1>1. SessTabSound(t, n) /\ t \in SessTabs /\ n \in Nat
  BY SessInvFacts
<1>2. t.page # "blank"
  BY DEF SessSubmit, SessPublic
<1>3. t.hard = 0
  BY <1>1, <1>2, SessShownIsEasy
<1>4. sessTab' = [t EXCEPT !.changed = FALSE]
  BY DEF SessSubmit
<1>5. kind \in {"login", "setup", "change", "logout"}
  OBVIOUS
<1>6. sessForm' = [SessNoForm EXCEPT !.kind = kind, !.step = "sent"]
  BY DEF SessSubmit
<1> HIDE DEF kind
<1> SUFFICES ASSUME NEW r, r = sessTab'
             PROVE  SessTabSound(r, n) /\ r.changed = FALSE /\ r.page # "blank"
  BY <1>5, <1>6, SessSentStep, SessMoveCounts DEF SessSubmit, SessDb
<1> HIDE DEF t, n
<1>7. /\ r \in SessTabs /\ r.strays = t.strays /\ r.cookie = t.cookie /\ r.user = t.user
      /\ r.page = t.page /\ r.nav = t.nav /\ r.watch = t.watch /\ r.lost = t.lost /\ r.late = t.late
      /\ r.hard = 0 /\ r.changed = FALSE
  BY <1>1, <1>3, <1>4 DEF SessTabs
<1> QED
  BY <1>1, <1>2, <1>7, SessTabTweak

LEMMA SessLogoutKeeps == ASSUME SessInv, SessLogout PROVE SessInv'
<1> DEFINE t == sessTab
           n == sessCount.tokens
           e == [t EXCEPT !.hard = 0, !.answers = {}, !.changed = FALSE]
<1>1. SessTabSound(t, n) /\ t \in SessTabs /\ n \in Nat
  BY SessInvFacts
<1>2. t.page # "blank" /\ "login" \in SessPages
  BY DEF SessLogout, SessPages, SessPublic
<1>3. sessTab' = SessPush(e, "login")
  BY DEF SessLogout
<1>4. sessForm' = [SessNoForm EXCEPT !.kind = "logout", !.step = "sent"]
  BY DEF SessLogout
<1> SUFFICES ASSUME NEW r, r = sessTab'
             PROVE  SessTabSound(r, n) /\ r.changed = FALSE /\ r.page # "blank"
  BY <1>4, SessSentStep, SessMoveCounts DEF SessLogout, SessDb
<1> HIDE DEF t, n
<1>5. /\ e \in SessTabs /\ e.strays = t.strays /\ e.cookie = t.cookie /\ e.user = t.user
      /\ e.page = t.page /\ e.nav = t.nav /\ e.watch = t.watch /\ e.lost = t.lost /\ e.late = t.late
      /\ e.hard = 0 /\ e.changed = FALSE
  BY <1>1 DEF SessTabs
<1> HIDE DEF e
<1>6. SessTabSound(e, n)
  BY <1>1, <1>2, <1>5, SessTabTweak
<1>7. SessTabType(e, n) /\ SessTabShows(e)
  BY <1>6 DEF SessTabSound
<1> QED
  BY <1>1, <1>2, <1>3, <1>5, <1>7, SessPushSound

-----------------------------------------------------------------------------
(* Steps of the handlers *)

LEMMA SessGoesForm ==
  ASSUME SessInv, NEW step \in {"session", "override", "refused", "burn", "user", "flag", "update", "clear",
                                "answer", "who"},
         SessGoes(step)
  PROVE  /\ sessForm' \in SessForms /\ sessForm'.kind = sessForm.kind /\ sessForm'.mine = sessForm.mine
         /\ sessForm'.step = step
<1>1. sessForm \in SessForms /\ sessForm' = [sessForm EXCEPT !.step = step]
  BY SessInvFacts DEF SessGoes
<1> QED
  BY <1>1 DEF SessForms

(* A handler is on its way, or refuses. *)
LEMMA SessHandlerStep ==
  ASSUME SessInv, sessTab' = sessTab, sessCount' = sessCount, sessForm.step # "idle",
         sessUser' \in {{}} \cup {{[must |-> m]} : m \in BOOLEAN}, sessRows' \subseteq sessRows,
         sessForm' \in SessForms, sessForm'.kind = sessForm.kind, sessForm'.mine = sessForm.mine,
         sessForm'.step # "who", sessForm'.step = "answer" => sessForm.kind = "logout"
  PROVE  SessInv'
<1>1. sessForm # SessNoForm
  BY DEF SessNoForm
<1>2. SessDbOK'
  BY DEF SessInv, SessDbOK
<1>3. SessFormFits'
  BY <1>1 DEF SessInv, SessFormFits
<1>4. SessChangeFits'
  BY <1>1 DEF SessInv, SessChangeFits
<1>5. SessTabSound(sessTab, sessCount.tokens)'
  BY DEF SessInv
<1> QED
  BY <1>2, <1>3, <1>4, <1>5 DEF SessInv

LEMMA SessUserRests ==
  ASSUME SessInv
  PROVE  /\ sessUser \in {{}} \cup {{[must |-> m]} : m \in BOOLEAN}
         /\ {[must |-> FALSE]} \in {{}} \cup {{[must |-> m]} : m \in BOOLEAN}
<1>1. sessUser \in {{}} \cup {{[must |-> m]} : m \in BOOLEAN}
  BY DEF SessInv, SessDbOK
<1>2. FALSE \in BOOLEAN
  OBVIOUS
<1> QED
  BY <1>1, <1>2

(* The steps of login. *)
LEMMA SessLoginKeeps == ASSUME SessInv, SessVerify \/ SessOverride \/ SessBurn PROVE SessInv'
<1>1. CASE SessVerify
  <2>1. sessForm.step = "sent" /\ sessForm.kind = "login" /\ sessForm \in SessForms
    BY <1>1, SessInvFacts DEF SessVerify, SessAt
  <2> DEFINE must == \E u \in sessUser : u.must
             step == IF sessOver THEN "override" ELSE "refused"
  <2>2. CASE sessForm' = [sessForm EXCEPT !.step = "session", !.must = must]
    <3>1. must \in BOOLEAN
      OBVIOUS
    <3> HIDE DEF must
    <3>2. /\ sessForm' \in SessForms /\ sessForm'.kind = sessForm.kind /\ sessForm'.mine = sessForm.mine
          /\ sessForm'.step = "session"
      BY <2>1, <2>2, <3>1 DEF SessForms
    <3> QED
      BY <1>1, <2>1, <3>2, SessHandlerStep, SessUserRests DEF SessVerify, SessDb
  <2>3. CASE SessGoes(step)
    <3>1. step \in {"override", "refused"}
      OBVIOUS
    <3> HIDE DEF step
    <3>2. /\ sessForm' \in SessForms /\ sessForm'.kind = sessForm.kind /\ sessForm'.mine = sessForm.mine
          /\ sessForm'.step = step
      BY <2>3, <3>1, SessGoesForm
    <3> QED
      BY <1>1, <2>1, <3>1, <3>2, SessHandlerStep, SessUserRests DEF SessVerify, SessDb
  <2> QED
    BY <1>1, <2>2, <2>3 DEF SessVerify
<1>2. CASE SessOverride
  <2>1. sessForm.step = "override" /\ sessForm.kind = "login"
    BY <1>2 DEF SessOverride, SessAt
  <2>2. PICK step \in {"burn", "refused"} :
          SessGoes(step) /\ (sessUser' = {[must |-> FALSE]} \/ sessUser' = sessUser)
    BY <1>2 DEF SessOverride
  <2>3. /\ sessForm' \in SessForms /\ sessForm'.kind = sessForm.kind /\ sessForm'.mine = sessForm.mine
        /\ sessForm'.step = step
    BY <2>2, SessGoesForm
  <2>4. sessUser' \in {{}} \cup {{[must |-> m]} : m \in BOOLEAN}
    BY <2>2, SessUserRests
  <2> QED
    BY <1>2, <2>1, <2>2, <2>3, <2>4, SessHandlerStep DEF SessOverride
<1>3. CASE SessBurn
  <2>1. sessForm.step = "burn" /\ sessForm.kind = "login"
    BY <1>3 DEF SessBurn, SessAt
  <2>2. /\ sessForm' \in SessForms /\ sessForm'.kind = sessForm.kind /\ sessForm'.mine = sessForm.mine
        /\ sessForm'.step = "session"
    BY <1>3, SessGoesForm DEF SessBurn
  <2> QED
    BY <1>3, <2>1, <2>2, SessHandlerStep, SessUserRests DEF SessBurn
<1> QED
  BY <1>1, <1>2, <1>3

(* The steps of setupComplete, changePassword and logout, and failures. *)
LEMMA SessHandlersKeep ==
  ASSUME SessInv, \/ SessMayCreate \/ SessCreateUser \/ SessSetupDone
                  \/ SessCheck \/ SessUpdate \/ SessClear \/ SessRemove \/ SessFails
  PROVE  SessInv'
<1> DEFINE Steps == {"user", "flag", "session", "update", "clear", "refused", "answer"}
<1>1. \E step \in Steps : SessGoes(step) /\ (step = "answer" => sessForm.kind = "logout")
  <2>1. CASE SessMayCreate
    <3>1. CASE sessSetup \/ sessUser # {}
      BY <2>1, <3>1 DEF SessMayCreate
    <3>2. CASE ~(sessSetup \/ sessUser # {})
      BY <2>1, <3>2 DEF SessMayCreate
    <3> QED
      BY <3>1, <3>2
  <2>2. CASE SessCreateUser \/ SessSetupDone \/ SessCheck \/ SessUpdate \/ SessClear \/ SessFails
    BY <2>2 DEF SessCreateUser, SessSetupDone, SessCheck, SessUpdate, SessClear, SessFails
  <2>3. CASE SessRemove
    <3>1. CASE sessTab.cookie \in sessRows
      BY <2>3, <3>1 DEF SessRemove, SessAt
    <3>2. CASE sessTab.cookie \notin sessRows
      BY <2>3, <3>2 DEF SessRemove
    <3> QED
      BY <3>1, <3>2
  <2> QED
    BY <2>1, <2>2, <2>3
<1>2. PICK step \in Steps : SessGoes(step) /\ (step = "answer" => sessForm.kind = "logout")
  BY <1>1
<1>3. /\ sessForm' \in SessForms /\ sessForm'.kind = sessForm.kind /\ sessForm'.mine = sessForm.mine
      /\ sessForm'.step = step
  BY <1>2, SessGoesForm
<1>4. sessForm.step # "idle" /\ sessTab' = sessTab /\ sessCount' = sessCount
  BY DEF SessMayCreate, SessCreateUser, SessSetupDone, SessCheck, SessUpdate, SessClear, SessRemove, SessFails,
         SessAt
<1>5. sessUser' = sessUser \/ sessUser' = {[must |-> FALSE]}
  BY DEF SessMayCreate, SessCreateUser, SessSetupDone, SessCheck, SessUpdate, SessClear, SessRemove, SessFails,
         SessDb
<1>6. sessRows' \subseteq sessRows
  BY DEF SessMayCreate, SessCreateUser, SessSetupDone, SessCheck, SessUpdate, SessClear, SessRemove, SessFails,
         SessDb
<1>7. sessUser' \in {{}} \cup {{[must |-> m]} : m \in BOOLEAN}
  BY <1>5, SessUserRests
<1> QED
  BY <1>2, <1>3, <1>4, <1>6, <1>7, SessHandlerStep

LEMMA SessCreateKeeps == ASSUME SessInv, SessCreate PROVE SessInv'
<1>1. CASE sessUser = {}
  <2>1. SessGoes("refused") /\ sessRows' = sessRows /\ sessCount' = sessCount /\ sessForm.step = "session"
    BY <1>1 DEF SessCreate
  <2>2. /\ sessForm' \in SessForms /\ sessForm'.kind = sessForm.kind /\ sessForm'.mine = sessForm.mine
        /\ sessForm'.step = "refused"
    BY <2>1, SessGoesForm
  <2> QED
    BY <2>1, <2>2, SessHandlerStep, SessUserRests DEF SessCreate
<1>2. CASE sessUser # {}
  <2> DEFINE n == sessCount.tokens
             m == n + 1
  <2>1. /\ sessRows' = sessRows \cup {m} /\ sessCount' = [sessCount EXCEPT !.tokens = @ + 1]
        /\ SessGoes("answer") /\ sessForm.step = "session" /\ n < SessTokens
        /\ sessUser' = sessUser /\ sessTab' = sessTab
    BY <1>2 DEF SessCreate, SessSession
  <2>2. /\ sessForm' \in SessForms /\ sessForm'.kind = sessForm.kind /\ sessForm'.mine = sessForm.mine
        /\ sessForm'.step = "answer"
    BY <2>1, SessGoesForm
  <2>3. /\ n \in Nat /\ m \in Nat /\ n <= m /\ m > 0 /\ sessCount' \in SessCounts /\ sessCount'.tokens = m
        /\ sessCount'.others = sessCount.others
    <3>1. sessCount \in SessCounts
      BY SessInvFacts
    <3> QED
      BY <2>1, <3>1 DEF SessCounts
  <2>4. sessRows' \subseteq 1 .. m /\ m <= SessTokens /\ m \in sessRows'
    <3>1. sessRows \subseteq 1 .. n /\ SessTokens \in Nat
      BY SessInvFacts, SessAssumption
    <3> QED
      BY <2>1, <2>3, <3>1
  <2>5. SessDbOK'
    BY <2>1, <2>3, <2>4 DEF SessInv, SessDbOK
  <2>6. SessTabSound(sessTab', m)
    BY <2>1, <2>3, SessInvFacts, SessTabLater
  <2>7. sessForm # SessNoForm
    BY <2>1 DEF SessNoForm
  <2>8. SessFormFits'
    BY <2>1, <2>2, <2>3, <2>7 DEF SessInv, SessFormFits
  <2>9. SessChangeFits'
    BY <2>1, <2>2, <2>3, <2>4, <2>7 DEF SessInv, SessChangeFits
  <2> QED
    BY <2>3, <2>5, <2>6, <2>8, <2>9 DEF SessInv
<1> QED
  BY <1>1, <1>2

-----------------------------------------------------------------------------
(* Answers, and others *)

LEMMA SessNoFormFits == SessNoForm \in SessForms /\ SessNoForm.step = "idle" /\ SessNoForm.kind = "none"
BY DEF SessNoForm, SessForms

(* An answer has been dealt with. *)
LEMMA SessFormEnds ==
  ASSUME SessInv, sessUser' = sessUser, sessRows' = sessRows, sessCount' = sessCount, sessForm' = SessNoForm,
         SessTabSound(sessTab', sessCount.tokens),
         sessTab'.changed = TRUE /\ sessCount.others = 0 => sessTab'.cookie \in sessRows
  PROVE  SessInv'
<1>1. SessDbOK'
  BY DEF SessInv, SessDbOK
<1>2. SessFormFits' /\ SessChangeFits'
  BY SessNoFormFits DEF SessFormFits, SessChangeFits
<1>3. SessTabSound(sessTab, sessCount.tokens)'
  OBVIOUS
<1> QED
  BY <1>1, <1>2, <1>3 DEF SessInv

LEMMA SessAnsweredKeeps == ASSUME SessInv, SessAnswered PROVE SessInv'
<1> DEFINE n == sessCount.tokens
           cookie == IF sessForm.step = "refused" THEN sessTab.cookie
                     ELSE IF sessForm.kind = "logout" THEN 0 ELSE n
           t == [sessTab EXCEPT !.cookie = cookie]
           told == sessForm.mine /\ (sessForm.kind = "logout" \/ sessForm.step = "answer")
<1>1. SessTabSound(sessTab, n) /\ sessTab \in SessTabs /\ n \in Nat /\ sessTab.cookie <= n
  BY SessInvFacts
<1>2. cookie \in Nat /\ cookie <= n
  <2>1. sessTab.cookie \in Nat
    BY <1>1 DEF SessTabs
  <2> QED
    BY <1>1, <2>1
<1>3. SessCookie = t
  BY DEF SessCookie
<1>4. /\ sessForm.step \in {"answer", "refused"} /\ sessUser' = sessUser /\ sessRows' = sessRows
      /\ sessCount' = sessCount
  BY DEF SessAnswered, SessDb
<1>5. sessForm # SessNoForm /\ sessTab.changed # TRUE
  <2>1. sessForm # SessNoForm
    BY <1>4 DEF SessNoForm
  <2> QED
    BY <2>1 DEF SessInv, SessChangeFits
<1>6. \/ sessTab' = t /\ sessForm' = SessNoForm
      \/ told /\ sessTab' = SessSetUser(t, "none") /\ sessForm' = SessNoForm
      \/ /\ told /\ sessForm.kind = "login" /\ sessForm' = SessNoForm
         /\ sessTab' = SessPush(SessSetUser(t, IF sessForm.must THEN "must" ELSE "settled"),
                                IF sessForm.must THEN "change" ELSE "home")
      \/ told /\ sessForm.kind \in {"setup", "change"} /\ sessTab' = t /\ SessGoes("who")
  BY <1>3 DEF SessAnswered
<1>7. told => sessTab.page # "blank"
  BY <1>5 DEF SessInv, SessFormFits
<1>8. told /\ sessForm.kind # "logout" => sessForm.step = "answer"
  OBVIOUS
<1>9. told /\ sessForm.kind = "change" /\ cookie # n => FALSE
  BY <1>8
<1> HIDE DEF cookie
<1>10. /\ SessTabSound(t, n) /\ t.cookie = cookie /\ t.page = sessTab.page /\ t.changed = sessTab.changed
       /\ t.hard = sessTab.hard
  BY <1>1, <1>2, SessTabCookie
<1>11. t \in SessTabs
  BY <1>10 DEF SessTabSound, SessTabType
<1> HIDE DEF t, told
<1>12. CASE sessTab' = t /\ sessForm' = SessNoForm
  BY <1>4, <1>5, <1>10, <1>12, SessFormEnds
<1>13. CASE told /\ sessTab' = SessSetUser(t, "none") /\ sessForm' = SessNoForm
  <2> DEFINE v == SessSetUser(t, "none")
  <2>1. t.page # "blank" /\ "none" \in SessUsers
    BY <1>7, <1>10, <1>13 DEF SessUsers
  <2>2. SessTabSound(v, n)
    BY <1>1, <1>10, <2>1, SessSetUserSound
  <2>3. SessUserSet(v, t, "none")
    BY <1>11, <2>1, SessSetUserFields
  <2> HIDE DEF v
  <2>4. v.changed # TRUE
    BY <1>5, <1>10, <2>3 DEF SessUserSet
  <2>5. sessTab' = v
    BY <1>13 DEF v
  <2> QED
    BY <1>4, <1>13, <2>2, <2>4, <2>5, SessFormEnds DEF n
<1>14. ASSUME told, sessForm.kind = "login", sessForm' = SessNoForm,
              sessTab' = SessPush(SessSetUser(t, IF sessForm.must THEN "must" ELSE "settled"),
                                  IF sessForm.must THEN "change" ELSE "home")
       PROVE  SessInv'
  <2> DEFINE u == IF sessForm.must THEN "must" ELSE "settled"
             to == IF sessForm.must THEN "change" ELSE "home"
             v == SessSetUser(t, u)
  <2>1. u \in SessUsers /\ to \in SessPages /\ sessTab' = SessPush(v, to)
    BY <1>14 DEF SessUsers, SessPages, SessPublic
  <2>2. n > 0 /\ t.page # "blank"
    BY <1>7, <1>8, <1>10, <1>14 DEF SessInv, SessFormFits
  <2> HIDE DEF u, to
  <2>3. SessTabSound(v, n)
    BY <1>1, <1>10, <2>1, <2>2, SessSetUserSound
  <2>4. SessUserSet(v, t, u)
    BY <1>11, <2>1, SessSetUserFields
  <2> HIDE DEF v
  <2>5. v.page # "blank" /\ v.changed = t.changed
    BY <2>2, <2>4 DEF SessUserSet
  <2>6. v.hard = 0 /\ SessTabType(v, n) /\ SessTabShows(v)
    BY <2>3, <2>5, SessShownIsEasy DEF SessTabSound
  <2>7. SessTabSound(sessTab', n) /\ sessTab'.changed = v.changed
    BY <1>1, <2>1, <2>5, <2>6, SessPushSound
  <2>8. sessTab'.changed # TRUE
    BY <1>5, <1>10, <2>5, <2>7
  <2> QED
    BY <1>4, <1>14, <2>7, <2>8, SessFormEnds DEF n
<1>15. CASE told /\ sessForm.kind \in {"setup", "change"} /\ sessTab' = t /\ SessGoes("who")
  <2>1. /\ sessForm' \in SessForms /\ sessForm'.kind = sessForm.kind /\ sessForm'.mine = sessForm.mine
        /\ sessForm'.step = "who"
    BY <1>15, SessGoesForm
  <2>2. SessDbOK'
    BY <1>4 DEF SessInv, SessDbOK
  <2>3. SessFormFits'
    BY <1>7, <1>10, <1>15, <2>1 DEF SessFormFits
  <2>4. SessChangeFits'
    <3>1. sessTab'.changed # TRUE
      BY <1>5, <1>10, <1>15
    <3>2. sessForm.kind = "change" /\ sessCount.others = 0 => sessTab'.cookie \in sessRows
      <4>1. sessForm.kind = "change" => sessForm.step = "answer" /\ cookie = n
        BY <1>8, <1>9, <1>15
      <4> QED
        BY <1>10, <1>15, <4>1 DEF SessInv, SessChangeFits
    <3> QED
      BY <1>4, <2>1, <3>1, <3>2 DEF SessChangeFits
  <2>5. SessTabSound(sessTab, sessCount.tokens)'
    BY <1>4, <1>10, <1>15
  <2> QED
    BY <2>2, <2>3, <2>4, <2>5 DEF SessInv
<1> QED
  BY <1>6, <1>12, <1>13, <1>14, <1>15

LEMMA SessFinishKeeps == ASSUME SessInv, SessFinish PROVE SessInv'
<1> DEFINE n == sessCount.tokens
           t == sessTab
<1>1. SessTabSound(t, n) /\ t \in SessTabs /\ n \in Nat
  BY SessInvFacts
<1>2. /\ sessForm.step = "who" /\ sessUser' = sessUser /\ sessRows' = sessRows
      /\ sessCount' = sessCount /\ sessForm' = SessNoForm
  BY DEF SessFinish, SessDb
<1>3. sessForm # SessNoForm /\ t.changed # TRUE
  <2>1. sessForm # SessNoForm
    BY <1>2 DEF SessNoForm
  <2> QED
    BY <2>1 DEF SessInv, SessChangeFits
<1>4. sessForm.mine => t.page # "blank"
  BY <1>3 DEF SessInv, SessFormFits
<1>5. /\ sessForm.kind \in {"setup", "change"}
      /\ sessForm.kind = "change" /\ sessCount.others = 0 => t.cookie \in sessRows
  BY <1>2 DEF SessInv, SessFormFits, SessChangeFits
<1>6. PICK got \in {SessWho(t.cookie), "error"} :
        LET tab == SessSetUser(t, SessFetched(got)) IN
        sessTab' = IF ~sessForm.mine THEN t
                   ELSE IF sessForm.kind = "setup" THEN SessPush(tab, "home")
                   ELSE [tab EXCEPT !.timer = TRUE, !.changed = TRUE]
  BY DEF SessFinish
<1> DEFINE u == SessFetched(got)
           v == SessSetUser(t, u)
<1>7. u \in SessUsers /\ (u # "none" => n > 0)
  <2>1. got \in SessAnswers /\ (n = 0 => SessUserOf(got) = "none")
    BY SessWhoIsKnown
  <2> QED
    BY <2>1, SessFetchedUser
<1>8. sessTab' = IF ~sessForm.mine THEN t
                 ELSE IF sessForm.kind = "setup" THEN SessPush(v, "home")
                 ELSE [v EXCEPT !.timer = TRUE, !.changed = TRUE]
  BY <1>6
<1> HIDE DEF u
<1>9. CASE ~sessForm.mine
  <2>1. sessTab' = t
    BY <1>8, <1>9
  <2> QED
    BY <1>1, <1>2, <1>3, <2>1, SessFormEnds
<1>10. CASE sessForm.mine
  <2>1. SessTabSound(v, n) /\ SessUserSet(v, t, u)
    BY <1>1, <1>4, <1>7, <1>10, SessSetUserSound, SessSetUserFields
  <2> HIDE DEF v, t, n
  <2>2. /\ v \in SessTabs /\ v.page = t.page /\ v.page # "blank" /\ v.changed = t.changed
        /\ v.cookie = t.cookie /\ v.hard = 0
    BY <1>4, <1>10, <2>1, SessShownIsEasy DEF SessUserSet
  <2>3. CASE sessForm.kind = "setup"
    <3>1. "home" \in SessPages /\ sessTab' = SessPush(v, "home")
      BY <1>8, <1>10, <2>3 DEF SessPages
    <3>2. SessTabType(v, n) /\ SessTabShows(v)
      BY <2>1 DEF SessTabSound
    <3>3. SessTabSound(sessTab', n) /\ sessTab'.changed = v.changed
      BY <1>1, <2>2, <3>1, <3>2, SessPushSound
    <3> QED
      BY <1>2, <1>3, <2>2, <3>3, SessFormEnds DEF n
  <2>4. CASE sessForm.kind = "change"
    <3>1. sessTab' = [v EXCEPT !.timer = TRUE, !.changed = TRUE]
      BY <1>8, <1>10, <2>4
    <3> SUFFICES ASSUME NEW r, r = sessTab' PROVE SessTabSound(r, n) /\ r.cookie = t.cookie
      BY <1>2, <1>5, <2>4, SessFormEnds DEF n
    <3>2. /\ r \in SessTabs /\ r.strays = v.strays /\ r.cookie = v.cookie /\ r.user = v.user
          /\ r.page = v.page /\ r.nav = v.nav /\ r.watch = v.watch /\ r.lost = v.lost /\ r.late = v.late
          /\ r.hard = 0
      BY <2>2, <3>1 DEF SessTabs
    <3> QED
      BY <1>1, <2>1, <2>2, <3>2, SessTabTweak
  <2> QED
    BY <1>5, <2>3, <2>4
<1> QED
  BY <1>9, <1>10

LEMMA SessOthersCount ==
  ASSUME SessInv, sessCount' = [sessCount EXCEPT !.others = @ + 1]
  PROVE  sessCount' \in SessCounts /\ sessCount'.tokens = sessCount.tokens /\ sessCount'.others # 0
<1>1. sessCount \in SessCounts
  BY SessInvFacts
<1> QED
  BY <1>1 DEF SessCounts

LEMMA SessOtherKeeps == ASSUME SessInv, SessOther PROVE SessInv'
<1>1. sessCount' = [sessCount EXCEPT !.others = @ + 1] /\ sessTab' = sessTab
  BY DEF SessOther
<1>2. sessCount' \in SessCounts /\ sessCount'.tokens = sessCount.tokens /\ sessCount'.others # 0
  BY <1>1, SessOthersCount
<1>3. \/ sessForm' = sessForm
      \/ SessGoes("refused") /\ sessForm.step \in {"update", "clear", "session"}
  BY DEF SessOther
<1>4. /\ sessForm' \in SessForms /\ sessForm'.kind = sessForm.kind /\ sessForm'.mine = sessForm.mine
      /\ sessForm' = sessForm \/ (sessForm # SessNoForm /\ sessForm'.step = "refused")
  <2>1. CASE sessForm' = sessForm
    BY <2>1, SessInvFacts
  <2>2. CASE SessGoes("refused") /\ sessForm.step \in {"update", "clear", "session"}
    <3>1. sessForm # SessNoForm
      BY <2>2, SessNoFormFits
    <3> QED
      BY <2>2, <3>1, SessGoesForm
  <2> QED
    BY <1>3, <2>1, <2>2
<1>5. sessUser' \in {{}} \cup {{[must |-> m]} : m \in BOOLEAN}
  <2>1. \/ sessUser' = {[must |-> FALSE]} \/ sessUser' = sessUser \/ sessUser' = {} \/ sessUser' = {[must |-> TRUE]}
    BY DEF SessOther
  <2>2. TRUE \in BOOLEAN
    OBVIOUS
  <2>3. {[must |-> TRUE]} \in {{[must |-> m]} : m \in BOOLEAN}
    BY <2>2
  <2> QED
    BY <2>1, <2>3, SessUserRests
<1>6. sessRows' \subseteq sessRows
  BY DEF SessOther
<1>7. SessDbOK'
  BY <1>2, <1>5, <1>6 DEF SessInv, SessDbOK
<1>8. SessFormFits'
  BY <1>1, <1>2, <1>4 DEF SessInv, SessFormFits
<1>9. SessChangeFits'
  BY <1>1, <1>2, <1>4 DEF SessInv, SessChangeFits
<1>10. SessTabSound(sessTab, sessCount.tokens)'
  BY <1>1, <1>2 DEF SessInv
<1> QED
  BY <1>7, <1>8, <1>9, <1>10 DEF SessInv

LEMMA SessOtherTabKeeps == ASSUME SessInv, SessOtherTab PROVE SessInv'
<1> DEFINE n == sessCount.tokens
           m == n + 1
<1>1. /\ sessCount' = [sessCount EXCEPT !.others = @ + 1, !.tokens = @ + 1]
      /\ sessRows' = sessRows \cup {m} /\ sessTab' = [sessTab EXCEPT !.cookie = m]
      /\ sessUser' = sessUser /\ sessForm' = sessForm /\ n < SessTokens
  BY DEF SessOtherTab
<1>2. /\ n \in Nat /\ m \in Nat /\ n <= m /\ m > 0 /\ sessCount' \in SessCounts /\ sessCount'.tokens = m
      /\ sessCount'.others # 0
  <2> DEFINE k == sessCount.others + 1
  <2>1. sessCount \in SessCounts
    BY SessInvFacts
  <2>2. sessCount.tokens \in Nat /\ sessCount.others \in Nat
    BY <2>1 DEF SessCounts
  <2>3. n \in Nat /\ m \in Nat /\ n <= m /\ m > 0 /\ k \in Nat /\ k # 0
    BY <2>2
  <2>4. sessCount' = [sessCount EXCEPT !.others = k, !.tokens = m]
    BY <1>1
  <2> HIDE DEF k, m
  <2>5. sessCount' \in SessCounts /\ sessCount'.tokens = m /\ sessCount'.others = k
    BY <2>1, <2>3, <2>4 DEF SessCounts
  <2> QED
    BY <2>3, <2>5
<1>3. sessRows' \subseteq 1 .. m /\ m <= SessTokens
  <2>1. sessRows \subseteq 1 .. n /\ SessTokens \in Nat
    BY SessInvFacts, SessAssumption
  <2> QED
    BY <1>1, <1>2, <2>1
<1>4. SessDbOK'
  BY <1>1, <1>2, <1>3 DEF SessInv, SessDbOK
<1>5. SessTabSound(sessTab, m)
  BY <1>2, SessInvFacts, SessTabLater
<1>6. SessTabSound(sessTab', m) /\ sessTab'.page = sessTab.page /\ sessTab'.changed = sessTab.changed
  <2> DEFINE r == [sessTab EXCEPT !.cookie = m]
  <2>1. SessTabSound(r, m) /\ r.page = sessTab.page /\ r.changed = sessTab.changed
    BY <1>2, <1>5, SessTabCookie
  <2> QED
    BY <1>1, <2>1
<1>7. SessFormFits'
  BY <1>1, <1>2, <1>6 DEF SessInv, SessFormFits
<1>8. SessChangeFits'
  BY <1>1, <1>2, <1>6 DEF SessInv, SessChangeFits
<1> QED
  BY <1>2, <1>4, <1>6, <1>7, <1>8 DEF SessInv

-----------------------------------------------------------------------------
(* The session *)

LEMMA SessInvInit == SessInit => SessInv
<1> SUFFICES ASSUME SessInit PROVE SessInv
  OBVIOUS
<1>1. PICK to \in SessPages : sessTab = SessOpens(SessBlank, to)
  BY DEF SessInit
<1>2. /\ SessBlank \in SessTabs /\ SessBlank.cookie = 0 /\ SessBlank.hard = 0
  BY SessNoNavFields, SessSinglesOf DEF SessBlank, SessTabs, SessUsers
<1>3. SessOpened(sessTab, SessBlank, to)
  BY <1>1, <1>2, SessOpensFields
<1>4. sessTab.hard = 0 /\ sessTab.changed = FALSE
  BY <1>2, <1>3 DEF SessOpened
<1>5. SessTabHard(sessTab)
  BY <1>4 DEF SessTabHard
<1>6. sessCount = [tokens |-> 0, moves |-> 0, others |-> 0] /\ sessRows = {} /\ sessForm = SessNoForm
  BY DEF SessInit
<1>7. sessCount \in SessCounts /\ sessCount.tokens = 0
  BY <1>6 DEF SessCounts
<1>8. SessTabSound(sessTab, sessCount.tokens)
  BY <1>1, <1>2, <1>5, <1>7, SessOpensSound
<1>9. SessDbOK
  <2>1. sessUser \in {{}} \cup {{[must |-> m]} : m \in BOOLEAN}
    BY DEF SessInit
  <2>2. sessCount.tokens <= SessTokens
    BY <1>7, SessAssumption
  <2> QED
    BY <1>6, <1>7, <2>1, <2>2 DEF SessDbOK
<1>10. SessFormFits
  BY <1>6, SessNoFormFits DEF SessFormFits
<1>11. SessChangeFits
  BY <1>4, <1>6, SessNoFormFits DEF SessChangeFits
<1> QED
  BY <1>8, <1>9, <1>10, <1>11 DEF SessInv

LEMMA SessInvNext == SessInv /\ [SessNext]_SessVars => SessInv'
<1> SUFFICES ASSUME SessInv, [SessNext]_SessVars PROVE SessInv'
  OBVIOUS
<1>1. CASE UNCHANGED SessVars
  <2>1. /\ sessUser' = sessUser /\ sessRows' = sessRows /\ sessCount' = sessCount /\ sessForm' = sessForm
        /\ sessTab' = sessTab
    BY <1>1 DEF SessVars
  <2> QED
    BY <2>1 DEF SessInv, SessDbOK, SessFormFits, SessChangeFits
<1>2. CASE SessAsked \/ SessReplied \/ SessGuarded \/ SessLoaded \/ SessBroken \/ SessWatch
  BY <1>2, SessAskedKeeps, SessRepliedKeeps, SessGuardedKeeps, SessLoadedKeeps, SessBrokenKeeps, SessWatchKeeps
<1>3. CASE \E s \in sessTab.strays : SessStrayEnds(s)
  BY <1>3, SessStrayEndsKeeps
<1>4. CASE \E to \in SessPages : SessOpen(to)
  BY <1>4, SessOpenKeeps
<1>5. CASE \E to \in SessPages \ SessPublic : SessClick(to)
  BY <1>5, SessClickKeeps DEF SessPrivate
<1>6. CASE SessSubmit \/ SessLogout \/ SessTimer
  BY <1>6, SessSubmitKeeps, SessLogoutKeeps, SessTimerKeeps
<1>7. CASE SessVerify \/ SessOverride \/ SessBurn
  BY <1>7, SessLoginKeeps
<1>8. CASE \/ SessMayCreate \/ SessCreateUser \/ SessSetupDone
           \/ SessCheck \/ SessUpdate \/ SessClear \/ SessRemove \/ SessFails
  BY <1>8, SessHandlersKeep
<1>9. CASE SessCreate \/ SessAnswered \/ SessFinish \/ SessOther \/ SessOtherTab
  BY <1>9, SessCreateKeeps, SessAnsweredKeeps, SessFinishKeeps, SessOtherKeeps, SessOtherTabKeeps
<1> QED
  BY <1>1, <1>2, <1>3, <1>4, <1>5, <1>6, <1>7, <1>8, <1>9 DEF SessNext

(* At most one answer is no two answers. *)
LEMMA SessFewAnswers ==
  ASSUME NEW answers \in SUBSET SessAnswers, Cardinality(answers) <= 1
  PROVE  ~SessMany(answers)
<1>1. IsFiniteSet(SessAnswers)
  <2> DEFINE A == {"none"}
             B == A \cup {"must"}
             C == B \cup {"settled"}
             D == C \cup {"error"}
  <2>1. SessAnswers = D
    BY DEF SessAnswers, SessUsers
  <2>2. IsFiniteSet(A)
    BY FS_Singleton
  <2>3. IsFiniteSet(B)
    BY <2>2, FS_AddElement
  <2>4. IsFiniteSet(C)
    BY <2>3, FS_AddElement
  <2>5. IsFiniteSet(D)
    BY <2>4, FS_AddElement
  <2> QED
    BY <2>1, <2>5
<1>2. IsFiniteSet(answers)
  BY <1>1, FS_Subset
<1>3. Cardinality(answers) \in Nat
  BY <1>2, FS_CardinalityType
<1>4. Cardinality(answers) = 0 \/ Cardinality(answers) = 1
  BY <1>3
<1>5. CASE Cardinality(answers) = 0
  <2>1. answers = {}
    BY <1>2, <1>5, FS_EmptySet
  <2> QED
    BY <2>1 DEF SessMany
<1>6. CASE Cardinality(answers) = 1
  <2>1. \E x : answers = {x}
    BY <1>2, <1>6, FS_Singleton
  <2> QED
    BY <2>1 DEF SessMany
<1> QED
  BY <1>4, <1>5, <1>6

LEMMA SessInvTypes == ASSUME SessInv PROVE SessTypeOK
<1>1. /\ sessCount.tokens \in Nat /\ sessTab \in SessTabs /\ SessTabType(sessTab, sessCount.tokens)
      /\ sessRows \subseteq 1 .. sessCount.tokens
  BY SessInvFacts DEF SessTabSound
<1>2. Cardinality(sessUser) <= 1
  <2>1. sessUser = {} \/ \E u : sessUser = {u}
    BY DEF SessInv, SessDbOK
  <2>2. Cardinality(sessUser) = 0 \/ Cardinality(sessUser) = 1
    BY <2>1, FS_EmptySet, FS_Singleton
  <2> QED
    BY <2>2
<1>3. sessRows \subseteq 1 .. SessTokens
  <2>1. sessCount.tokens <= SessTokens /\ SessTokens \in Nat
    BY SessAssumption DEF SessInv, SessDbOK
  <2> QED
    BY <1>1, <2>1
<1>4. sessTab.cookie \in 0 .. sessCount.tokens
  <2>1. sessTab.cookie \in Nat
    BY <1>1 DEF SessTabs
  <2>2. sessTab.cookie <= sessCount.tokens
    BY <1>1 DEF SessTabType
  <2> QED
    BY <1>1, <2>1, <2>2
<1>5. sessTab.page \in SessPages \cup {"blank"}
  BY <1>1 DEF SessTabs
<1>6. Cardinality(sessTab.pending) <= 1
  <2>1. sessTab.pending \in SessSingles
    BY <1>1 DEF SessTabs
  <2>2. sessTab.pending = {} \/ \E p : sessTab.pending = {p}
    BY <2>1 DEF SessSingles
  <2>3. Cardinality(sessTab.pending) = 0 \/ Cardinality(sessTab.pending) = 1
    BY <2>2, FS_EmptySet, FS_Singleton
  <2> QED
    BY <2>3
<1>7. sessTab.user # "none" => sessCount.tokens > 0
  <2>1. sessTab.user \in SessUsers
    BY <1>1 DEF SessTabs
  <2>2. SessUserOf(sessTab.user) = sessTab.user
    BY <2>1, SessUserOfUser
  <2>3. sessCount.tokens = 0 => SessUserOf(sessTab.user) = "none"
    BY <1>1 DEF SessTabType
  <2> QED
    BY <1>1, <2>2, <2>3
<1>8. sessTab.nav.step # "idle" => sessTab.nav.to \in SessPages
  BY <1>1 DEF SessTabType
<1> QED
  BY <1>2, <1>3, <1>4, <1>5, <1>6, <1>7, <1>8 DEF SessTypeOK

LEMMA SessInvIsSound == ASSUME SessInv PROVE SessionIsSound
<1>1. sessTab \in SessTabs /\ SessTabSound(sessTab, sessCount.tokens)
  BY SessInvFacts
<1>2. RedirectsSettle
  BY <1>1 DEF SessTabSound, SessTabSettles, RedirectsSettle
<1>3. RecoveryStops
  <2> SUFFICES ASSUME Cardinality(sessTab.answers) <= 1 PROVE sessTab.hard <= 2
    BY DEF RecoveryStops
  <2>1. sessTab.answers \in SUBSET SessAnswers /\ sessTab.hard \in Nat
    BY <1>1 DEF SessTabs
  <2>2. ~SessMany(sessTab.answers)
    BY <2>1, SessFewAnswers
  <2>3. sessTab.hard > 0 => sessTab.hard <= 2
    BY <1>1, <2>2 DEF SessTabSound, SessTabHard
  <2> QED
    BY <2>1, <2>3
<1>4. SignedInAfterChange
  <2>1. sessTab.changed \in BOOLEAN
    BY <1>1 DEF SessTabs
  <2>2. SessChangeFits
    BY DEF SessInv
  <2> QED
    BY <2>1, <2>2 DEF SessChangeFits, SignedInAfterChange
<1>5. ChangeIsAsked
  <2>1. sessTab.lost \in BOOLEAN /\ sessTab.page \in SessPages \cup {"blank"}
    BY <1>1 DEF SessTabs
  <2>2. SessTabShows(sessTab) /\ SessTabFresh(sessTab)
    BY <1>1 DEF SessTabSound
  <2>3. sessTab.page = "blank" /\ sessTab.nav.step = "idle" => sessTab.lost = TRUE
    BY <2>2 DEF SessTabFresh
  <2>4. /\ sessTab.user = "must" /\ ~sessTab.watch /\ ~sessTab.lost /\ ~sessTab.late
        /\ sessTab.page \in SessPages \ SessPublic
        => sessTab.nav.step # "idle"
    BY <2>2 DEF SessTabShows, SessPrivate
  <2> QED
    BY <2>1, <2>3, <2>4 DEF ChangeIsAsked
<1> QED
  BY <1>2, <1>3, <1>4, <1>5, SessInvTypes DEF SessionIsSound

(* Navigation in a browser tab settles and ends where it fits who is signed in:
   a redirect is not redirected again, a page that cannot be loaded is loaded
   anew at most twice for one answer of whoami, a change of the password leaves
   the browser signed in, and no page stays open to a user who must change it
   (router.ts:16-26, 91-111; Layout.vue:71-76; routers/auth.ts:224-240). *)
THEOREM SessionIsSoundHolds == SessSpec => []SessionIsSound
<1>1. SessInit => SessInv
  BY SessInvInit
<1>2. SessInv /\ [SessNext]_SessVars => SessInv'
  BY SessInvNext
<1>3. SessInv => SessionIsSound
  BY SessInvIsSound
<1> QED
  BY <1>1, <1>2, <1>3, PTL DEF SessSpec

-----------------------------------------------------------------------------
(***************************************************************************)
(* SiteyctlArgs                                                            *)
(***************************************************************************)

(* A set that has zero, and with a number below L the next one. *)
ArgInductive(S, L) == 0 \in S /\ \A n \in 0 .. L : n \in S /\ n < L => n + 1 \in S

(* A set that is finite and not empty has a least number. *)
LEMMA ArgHasLeast ==
    ASSUME NEW T, T \subseteq Nat, IsFiniteSet(T), T # {}
    PROVE  \E x \in T : \A y \in T : x <= y
<1> DEFINE UpTo(x) == {z \in T : z <= x}
           Segments == {UpTo(x) : x \in T}
           R == StrictSubsetOrdering(T)
<1>1. IsWellFoundedOn(R, SUBSET T)
  BY FS_StrictSubsetOrderingWellFounded, FS_FiniteSubsetsOfFinite
<1>2. Segments \subseteq SUBSET T /\ Segments # {}
  OBVIOUS
<1>3. PICK A \in Segments : \A B \in Segments : ~ (<<B, A>> \in R)
  <2> HIDE DEF R, Segments
  <2> QED  BY <1>1, <1>2, WFMin
<1>4. PICK x \in T : A = UpTo(x)
  BY <1>3
<1>5. \A y \in T : x <= y
  <2>1. SUFFICES ASSUME NEW y \in T, y < x
                 PROVE  FALSE
    OBVIOUS
  <2>2. UpTo(y) \in Segments
    OBVIOUS
  <2>3. UpTo(y) \subseteq UpTo(x)
    <3>1. ASSUME NEW z \in T, z <= y
          PROVE  z <= x
      BY <2>1, <3>1
    <3>2. QED  BY <3>1
  <2>4. x \in UpTo(x) /\ x \notin UpTo(y)
    BY <2>1, T \subseteq Nat
  <2>5. <<UpTo(y), UpTo(x)>> \in R
    BY <2>3, <2>4 DEF StrictSubsetOrdering
  <2>6. QED  BY <1>3, <1>4, <2>2, <2>5
<1>6. QED  BY <1>5

(* Induction up to a bound: what an inductive set leaves out would have a
   least number. *)
LEMMA ArgInduct ==
    ASSUME NEW L \in Nat, NEW S, ArgInductive(S, L)
    PROVE  0 .. L \subseteq S
<1> DEFINE T == (0 .. L) \ S
<1>1. SUFFICES ASSUME T # {} PROVE FALSE
  OBVIOUS
<1>2. T \subseteq Nat /\ IsFiniteSet(T)
  <2>1. IsFiniteSet(0 .. L)
    BY FS_Interval
  <2>2. T \subseteq 0 .. L
    OBVIOUS
  <2>3. IsFiniteSet(T)
    <3> HIDE DEF T
    <3> QED  BY <2>1, <2>2, FS_Subset
  <2> QED  BY <2>2, <2>3
<1>3. PICK x \in T : \A y \in T : x <= y
  <2> HIDE DEF T
  <2> QED  BY <1>1, <1>2, ArgHasLeast
<1>4. x \in 0 .. L /\ x \notin S /\ x # 0
  BY <1>3 DEF ArgInductive
<1>5. x - 1 \in 0 .. L /\ x - 1 < L /\ (x - 1) + 1 = x
  BY <1>4
<1>6. x - 1 \in S
  BY <1>3, <1>5
<1>7. QED  BY <1>4, <1>5, <1>6 DEF ArgInductive

(* Min and Max of the numbers below a bound. *)
LEMMA ArgMinIs ==
    ASSUME NEW n \in Nat, NEW T, T \subseteq 1 .. n, T # {}
    PROVE  Min(T) \in T /\ \A y \in T : Min(T) <= y
<1>1. IsFiniteSet(1 .. n)
  BY FS_Interval
<1>2. IsFiniteSet(T)
  BY <1>1, FS_Subset
<1>3. T \subseteq Nat
  OBVIOUS
<1>4. \E x \in T : \A y \in T : x <= y
  BY <1>2, <1>3, ArgHasLeast
<1> QED  BY <1>4 DEF Min

(* Max of numbers is one of them, and none is above it. *)
LEMMA ArgMaxIs ==
    ASSUME NEW n \in Nat, NEW T, T \subseteq 1 .. n, T # {}
    PROVE  Max(T) \in T /\ \A y \in T : Max(T) >= y
<1> DEFINE U == {k \in 0 .. n : n - k \in T}
<1>1. IsFiniteSet(0 .. n)
  BY FS_Interval
<1>2. IsFiniteSet(U)
  <2>1. U \subseteq 0 .. n
    OBVIOUS
  <2> HIDE DEF U
  <2> QED  BY <1>1, <2>1, FS_Subset
<1>3. U \subseteq Nat
  OBVIOUS
<1>4. \A y \in T : n - y \in U
  <2>1. ASSUME NEW y \in T PROVE n - y \in 0 .. n /\ n - (n - y) = y
    OBVIOUS
  <2> QED  BY <2>1
<1>5. U # {}
  BY <1>4
<1>6. PICK x \in U : \A y \in U : x <= y
  <2> HIDE DEF U
  <2> QED  BY <1>2, <1>3, <1>5, ArgHasLeast
<1>7. n - x \in T
  BY <1>6
<1>8. ASSUME NEW y \in T PROVE n - x >= y
  <2>1. x <= n - y
    BY <1>4, <1>6
  <2>2. x \in Nat /\ y \in Nat
    BY <1>3, <1>6
  <2> QED  BY <2>1, <2>2
<1>9. \E z \in T : \A y \in T : z >= y
  BY <1>7, <1>8
<1> QED  BY <1>9 DEF Max

(* What they are of numbers that are two higher. *)
LEMMA ArgMinHigher ==
    ASSUME NEW n \in Nat, NEW T \in SUBSET (1 .. n), T # {}, NEW U \in SUBSET (1 .. (n + 2)),
           \A k \in T : k + 2 \in U, \A u \in U : u - 2 \in T
    PROVE  Min(U) = Min(T) + 2
<1>1. Min(T) \in T /\ \A y \in T : Min(T) <= y
  BY ArgMinIs
<1>2. U # {} /\ n + 2 \in Nat
  <2>1. PICK t \in T : TRUE
    OBVIOUS
  <2> QED  BY <2>1
<1>3. Min(U) \in U /\ \A y \in U : Min(U) <= y
  BY <1>2, ArgMinIs
<1>4. Min(T) + 2 \in U /\ Min(U) - 2 \in T
  BY <1>1, <1>3
<1>5. Min(T) <= Min(U) - 2 /\ Min(U) <= Min(T) + 2
  BY <1>1, <1>3, <1>4
<1>6. Min(U) \in Nat /\ Min(T) \in Nat
  <2>1. U \subseteq Nat /\ T \subseteq Nat
    OBVIOUS
  <2> QED  BY <1>1, <1>3, <2>1
<1>7. \A a, b \in Nat : a <= b - 2 /\ b <= a + 2 => b = a + 2
  OBVIOUS
<1> QED  BY <1>5, <1>6, <1>7

(* ... the greatest also if the number 1 is there besides. *)
LEMMA ArgMaxHigher ==
    ASSUME NEW n \in Nat, NEW T \in SUBSET (1 .. n), T # {}, NEW U \in SUBSET (1 .. (n + 2)),
           \A k \in T : k + 2 \in U, \A u \in U : u = 1 \/ u - 2 \in T
    PROVE  Max(U) = Max(T) + 2
<1>1. Max(T) \in T /\ \A y \in T : Max(T) >= y
  BY ArgMaxIs
<1>2. U # {} /\ n + 2 \in Nat
  <2>1. PICK t \in T : TRUE
    OBVIOUS
  <2> QED  BY <2>1
<1>3. Max(U) \in U /\ \A y \in U : Max(U) >= y
  BY <1>2, ArgMaxIs
<1>4. Max(U) \in Nat /\ Max(T) \in Nat
  <2>1. U \subseteq Nat /\ T \subseteq Nat
    OBVIOUS
  <2> QED  BY <1>1, <1>3, <2>1
<1>5. Max(T) + 2 \in U
  BY <1>1
<1>6. Max(U) >= Max(T) + 2
  BY <1>3, <1>5
<1>7. Max(U) # 1
  BY <1>4, <1>6
<1>8. Max(U) - 2 \in T
  BY <1>3, <1>7
<1>9. Max(T) >= Max(U) - 2
  BY <1>1, <1>8
<1>10. \A a, b \in Nat : a >= b - 2 /\ b >= a + 2 => b = a + 2
  OBVIOUS
<1> QED  BY <1>4, <1>6, <1>9, <1>10

(* What is kept after each of m places, and the equation that defines it. *)
ArgKeptRun(f, s, places, m) ==
  f[0] = <<>> /\ \A n \in 1 .. m : f[n] = IF n \in places THEN Append(f[n - 1], s[n]) ELSE f[n - 1]

ArgKeptEqn(f, s, places) ==
  f = [n \in 0 .. Len(s) |-> IF n = 0 THEN <<>> ELSE IF n \in places THEN Append(f[n - 1], s[n]) ELSE f[n - 1]]

(* ArgKept, unfolded place by place. *)
LEMMA ArgKeptSteps ==
    ASSUME NEW s, Len(s) \in Nat, NEW places
    PROVE  \E f : ArgKeptRun(f, s, places, Len(s)) /\ ArgKept(s, places) = f[Len(s)]
<1> DEFINE S == {m \in 0 .. Len(s) : \E f : ArgKeptRun(f, s, places, m)}
           f == CHOOSE f : ArgKeptEqn(f, s, places)
<1>1. 0 \in S
  <2>1. ArgKeptRun([x \in {0} |-> <<>>], s, places, 0)
    BY DEF ArgKeptRun
  <2> QED  BY <2>1
<1>2. ASSUME NEW m \in 0 .. Len(s), m \in S, m < Len(s)
      PROVE  m + 1 \in S
  <2>1. PICK e : ArgKeptRun(e, s, places, m)
    BY <1>2
  <2> DEFINE g == [n \in 0 .. (m + 1) |-> IF n = m + 1 THEN IF n \in places THEN Append(e[n - 1], s[n]) ELSE e[n - 1] ELSE e[n]]
  <2>2. m \in Nat /\ m + 1 \in 0 .. Len(s)
    BY <1>2
  <2>3. g[0] = <<>>
    BY <2>1, <2>2 DEF ArgKeptRun
  <2>4. ASSUME NEW n \in 1 .. (m + 1)
        PROVE  g[n] = IF n \in places THEN Append(g[n - 1], s[n]) ELSE g[n - 1]
    <3>1. n \in 0 .. (m + 1) /\ n - 1 \in 0 .. (m + 1) /\ n - 1 # m + 1
      BY <2>2
    <3>2. g[n - 1] = e[n - 1]
      BY <3>1
    <3>3. CASE n = m + 1
      <4>1. g[n] = IF n \in places THEN Append(e[n - 1], s[n]) ELSE e[n - 1]
        BY <3>1, <3>3
      <4> HIDE DEF g
      <4> QED  BY <3>2, <4>1
    <3>4. CASE n # m + 1
      <4>1. n \in 1 .. m
        BY <2>2, <3>4
      <4>2. g[n] = e[n]
        BY <3>1, <3>4
      <4> HIDE DEF g
      <4> QED  BY <2>1, <3>2, <4>1, <4>2 DEF ArgKeptRun
    <3> QED  BY <3>3, <3>4
  <2>5. ArgKeptRun(g, s, places, m + 1)
    <3> HIDE DEF g
    <3> QED  BY <2>3, <2>4 DEF ArgKeptRun
  <2> QED  BY <2>2, <2>5
<1>3. Len(s) \in S
  <2> HIDE DEF S
  <2>1. ArgInductive(S, Len(s))
    BY <1>1, <1>2 DEF ArgInductive
  <2> QED  BY <2>1, ArgInduct
<1>4. PICK e : ArgKeptRun(e, s, places, Len(s))
  BY <1>3
<1> DEFINE g == [n \in 0 .. Len(s) |-> e[n]]
<1>5. ArgKeptEqn(g, s, places)
  <2>1. ASSUME NEW n \in 0 .. Len(s)
        PROVE  e[n] = IF n = 0 THEN <<>> ELSE IF n \in places THEN Append(g[n - 1], s[n]) ELSE g[n - 1]
    <3>1. n = 0 \/ (n \in 1 .. Len(s) /\ n - 1 \in 0 .. Len(s))
      OBVIOUS
    <3>2. n # 0 => g[n - 1] = e[n - 1]
      BY <3>1
    <3> HIDE DEF g
    <3> QED  BY <1>4, <3>1, <3>2 DEF ArgKeptRun
  <2>2. g = [n \in 0 .. Len(s) |-> IF n = 0 THEN <<>> ELSE IF n \in places THEN Append(g[n - 1], s[n]) ELSE g[n - 1]]
    BY <2>1
  <2> HIDE DEF g
  <2> QED  BY <2>2 DEF ArgKeptEqn
<1>6. ArgKeptEqn(f, s, places)
  BY <1>5
<1>7. ArgKept(s, places) = f[Len(s)]
  BY DEF ArgKept, ArgKeptEqn
<1> HIDE DEF f
<1>8. ArgKeptRun(f, s, places, Len(s))
  <2>1. f[0] = <<>>
    BY <1>6 DEF ArgKeptEqn
  <2>2. ASSUME NEW n \in 1 .. Len(s) PROVE f[n] = IF n \in places THEN Append(f[n - 1], s[n]) ELSE f[n - 1]
    <3>1. n \in 0 .. Len(s) /\ n # 0
      OBVIOUS
    <3> QED  BY <1>6, <3>1 DEF ArgKeptEqn
  <2> QED  BY <2>1, <2>2 DEF ArgKeptRun
<1> QED  BY <1>7, <1>8

(* What ArgKept leaves of a sequence: e tells where each token was. *)
ArgOrder(e, out, s, J) ==
  /\ e \in [1 .. Len(out) -> J]
  /\ \A i \in 1 .. Len(out) : out[i] = s[e[i]]
  /\ \A i, j \in 1 .. Len(out) : i < j => e[i] < e[j]
  /\ \A k \in J : \E i \in 1 .. Len(out) : e[i] = k

(* One more place is kept. *)
LEMMA ArgOrderAppend ==
    ASSUME NEW X, NEW s \in Seq(X), NEW out \in Seq(X), NEW n \in 0 .. Len(s), n < Len(s),
           NEW J, J \subseteq 1 .. n, NEW e, ArgOrder(e, out, s, J)
    PROVE  \E d : ArgOrder(d, Append(out, s[n + 1]), s, J \cup {n + 1})
<1>1. Len(s) \in Nat /\ Len(out) \in Nat /\ n \in Nat /\ n + 1 \in 1 .. Len(s)
  OBVIOUS
<1> DEFINE l == Len(out)
           o == Append(out, s[n + 1])
           d == [i \in 1 .. (l + 1) |-> IF i = l + 1 THEN n + 1 ELSE e[i]]
<1>2. Len(o) = l + 1 /\ o[l + 1] = s[n + 1] /\ \A i \in 1 .. l : o[i] = out[i]
  OBVIOUS
<1>3. d[l + 1] = n + 1
  BY <1>1
<1>4. ASSUME NEW i \in 1 .. l PROVE i \in 1 .. (l + 1) /\ d[i] = e[i] /\ e[i] \in J /\ e[i] <= n /\ e[i] \in Nat
  <2>1. i \in 1 .. (l + 1) /\ i # l + 1
    BY <1>1
  <2>2. d[i] = e[i]
    BY <2>1
  <2>3. e[i] \in J
    BY DEF ArgOrder
  <2>4. e[i] \in 1 .. n
    BY <2>3
  <2> QED  BY <1>1, <2>1, <2>2, <2>3, <2>4
<1>5. ASSUME NEW i \in 1 .. (l + 1) PROVE i = l + 1 \/ i \in 1 .. l
  BY <1>1
<1> HIDE DEF o
<1>6. d \in [1 .. Len(o) -> J \cup {n + 1}]
  <2>1. ASSUME NEW i \in 1 .. (l + 1) PROVE d[i] \in J \cup {n + 1}
    BY <1>3, <1>4, <1>5
  <2>2. d = [i \in 1 .. (l + 1) |-> d[i]]
    OBVIOUS
  <2> HIDE DEF d
  <2> QED  BY <1>2, <2>1, <2>2
<1> HIDE DEF d
<1>7. ASSUME NEW i \in 1 .. Len(o) PROVE o[i] = s[d[i]]
  <2>1. CASE i = l + 1
    BY <1>2, <1>3, <2>1
  <2>2. CASE i \in 1 .. l
    <3>1. out[i] = s[e[i]]
      BY <2>2 DEF ArgOrder
    <3> QED  BY <1>2, <1>4, <2>2, <3>1
  <2> QED  BY <1>2, <1>5, <2>1, <2>2
<1>8. ASSUME NEW i \in 1 .. Len(o), NEW j \in 1 .. Len(o), i < j PROVE d[i] < d[j]
  <2>1. i \in 1 .. l
    BY <1>1, <1>2, <1>8
  <2>2. CASE j = l + 1
    BY <1>1, <1>3, <1>4, <2>1, <2>2
  <2>3. CASE j \in 1 .. l
    <3>1. e[i] < e[j]
      BY <1>8, <2>1, <2>3 DEF ArgOrder
    <3> QED  BY <1>4, <2>1, <2>3, <3>1
  <2> QED  BY <1>2, <1>5, <2>2, <2>3
<1>9. ASSUME NEW k \in J \cup {n + 1} PROVE \E i \in 1 .. Len(o) : d[i] = k
  <2>1. CASE k = n + 1
    BY <1>1, <1>2, <1>3, <2>1
  <2>2. CASE k \in J
    <3>1. PICK i \in 1 .. l : e[i] = k
      BY <2>2 DEF ArgOrder
    <3> QED  BY <1>2, <1>4, <3>1
  <2> QED  BY <2>1, <2>2
<1>10. ArgOrder(d, o, s, J \cup {n + 1})
  BY <1>6, <1>7, <1>8, <1>9 DEF ArgOrder
<1> QED  BY <1>10 DEF o

(* What is kept are the tokens at the places, in their order. *)
LEMMA ArgKeptPlaces ==
    ASSUME NEW X, NEW s \in Seq(X), NEW K
    PROVE  /\ ArgKept(s, K) \in Seq(X)
           /\ \E e : ArgOrder(e, ArgKept(s, K), s, K \cap (1 .. Len(s)))
<1>1. Len(s) \in Nat /\ DOMAIN s = 1 .. Len(s)
  OBVIOUS
<1>2. PICK f : ArgKeptRun(f, s, K, Len(s)) /\ ArgKept(s, K) = f[Len(s)]
  BY <1>1, ArgKeptSteps
<1> DEFINE Good(n) == f[n] \in Seq(X) /\ \E e : ArgOrder(e, f[n], s, K \cap (1 .. n))
           S == {n \in 0 .. Len(s) : Good(n)}
<1>3. 0 \in S
  <2>1. f[0] = <<>> /\ K \cap (1 .. 0) = {}
    BY <1>2 DEF ArgKeptRun
  <2>2. ArgOrder([i \in {} |-> 0], <<>>, s, {})
    BY DEF ArgOrder
  <2>3. Good(0)
    BY <2>1, <2>2
  <2> QED  BY <1>1, <2>3
<1>4. ASSUME NEW n \in 0 .. Len(s), n \in S, n < Len(s)
      PROVE  n + 1 \in S
  <2>1. n \in Nat /\ n + 1 \in 1 .. Len(s) /\ (n + 1) - 1 = n /\ n + 1 \in 0 .. Len(s)
    BY <1>1, <1>4
  <2>2. f[n + 1] = IF n + 1 \in K THEN Append(f[n], s[n + 1]) ELSE f[n]
    BY <1>2, <2>1 DEF ArgKeptRun
  <2>3. f[n] \in Seq(X) /\ s[n + 1] \in X
    BY <1>4, <2>1
  <2>4. PICK e : ArgOrder(e, f[n], s, K \cap (1 .. n))
    BY <1>4
  <2>5. 1 .. (n + 1) = (1 .. n) \cup {n + 1}
    BY <2>1
  <2>6. Good(n + 1)
    <3>1. CASE n + 1 \in K
      <4>1. K \cap (1 .. (n + 1)) = (K \cap (1 .. n)) \cup {n + 1}
        BY <2>5, <3>1
      <4>2. K \cap (1 .. n) \subseteq 1 .. n
        OBVIOUS
      <4>3. \E d : ArgOrder(d, Append(f[n], s[n + 1]), s, (K \cap (1 .. n)) \cup {n + 1})
        BY <1>4, <2>3, <2>4, <4>2, ArgOrderAppend
      <4>4. f[n + 1] = Append(f[n], s[n + 1]) /\ Append(f[n], s[n + 1]) \in Seq(X)
        BY <2>2, <2>3, <3>1
      <4> QED  BY <4>1, <4>3, <4>4
    <3>2. CASE n + 1 \notin K
      <4>1. K \cap (1 .. (n + 1)) = K \cap (1 .. n)
        BY <2>5, <3>2
      <4> QED  BY <2>2, <2>3, <2>4, <3>2, <4>1
    <3> QED  BY <3>1, <3>2
  <2> QED  BY <2>1, <2>6
<1>5. Len(s) \in S
  <2> HIDE DEF S
  <2>1. ArgInductive(S, Len(s))
    BY <1>3, <1>4 DEF ArgInductive
  <2> QED  BY <1>1, <2>1, ArgInduct
<1> QED  BY <1>2, <1>5

(* A concatenation, kept folded: what it has at each place is ArgConcatIs. *)
ArgCat(q, s) == q \o s

(* What is appended to the second of two sequences ends up behind both. *)
LEMMA ArgAppendAfter ==
    ASSUME NEW X, NEW q \in Seq(X), NEW s \in Seq(X), NEW x \in X
    PROVE  Append(ArgCat(q, s), x) = ArgCat(q, Append(s, x))
<1> DEFINE l == Append(q \o s, x)
           r == q \o Append(s, x)
<1>1. q \o s \in Seq(X) /\ Append(s, x) \in Seq(X)
  OBVIOUS
<1>2. l \in Seq(X) /\ r \in Seq(X)
  BY <1>1
<1>3. Len(q) \in Nat /\ Len(s) \in Nat
  OBVIOUS
<1>4. Len(l) = Len(q) + Len(s) + 1 /\ Len(r) = Len(q) + Len(s) + 1
  BY <1>1, <1>3
<1>5. ASSUME NEW i \in 1 .. Len(l) PROVE l[i] = r[i]
  BY <1>1, <1>3, <1>4
<1> HIDE DEF l, r
<1>6. l = r
  BY <1>2, <1>4, <1>5, SeqEqual
<1> QED  BY <1>6 DEF l, r, ArgCat

(* Two tokens in front change nothing but themselves in what is kept. *)
LEMMA ArgKeptAfter ==
    ASSUME NEW X, NEW s \in Seq(X), NEW a \in X, NEW b \in X, NEW K, NEW L,
           \A k \in 1 .. Len(s) : k + 2 \in L <=> k \in K
    PROVE  /\ 1 \in L /\ 2 \in L => ArgKept(ArgCat(<<a, b>>, s), L) = ArgCat(<<a, b>>, ArgKept(s, K))
           /\ 1 \notin L /\ 2 \notin L => ArgKept(ArgCat(<<a, b>>, s), L) = ArgKept(s, K)
<1> DEFINE w == <<a, b>> \o s
<1>1. Len(s) \in Nat /\ <<a, b>> \in Seq(X) /\ w \in Seq(X)
  OBVIOUS
<1>2. Len(w) = Len(s) + 2 /\ w[1] = a /\ w[2] = b /\ \A k \in 1 .. Len(s) : w[k + 2] = s[k]
  BY <1>1
<1>3. PICK f : ArgKeptRun(f, s, K, Len(s)) /\ ArgKept(s, K) = f[Len(s)]
  BY <1>1, ArgKeptSteps
<1> HIDE DEF w
<1>4. PICK g : ArgKeptRun(g, w, L, Len(w)) /\ ArgKept(w, L) = g[Len(w)]
  BY <1>1, <1>2, ArgKeptSteps
<1>5. /\ g[1] = IF 1 \in L THEN Append(<<>>, a) ELSE <<>>
      /\ g[2] = IF 2 \in L THEN Append(g[1], b) ELSE g[1]
  <2>1. 1 \in 1 .. Len(w) /\ 2 \in 1 .. Len(w) /\ 1 - 1 = 0 /\ 2 - 1 = 1
    BY <1>1, <1>2
  <2>2. g[0] = <<>> /\ \A n \in 1 .. Len(w) : g[n] = IF n \in L THEN Append(g[n - 1], w[n]) ELSE g[n - 1]
    BY <1>4 DEF ArgKeptRun
  <2>3. g[1] = IF 1 \in L THEN Append(g[0], w[1]) ELSE g[0]
    BY <2>1, <2>2
  <2>4. g[2] = IF 2 \in L THEN Append(g[1], w[2]) ELSE g[1]
    BY <2>1, <2>2
  <2> QED  BY <1>2, <2>2, <2>3, <2>4
<1>6. g[2] \in Seq(X)
  <2>1. g[1] \in Seq(X)
    BY <1>5
  <2> QED  BY <1>5, <2>1
<1> DEFINE S == {n \in 0 .. Len(s) : f[n] \in Seq(X) /\ g[n + 2] = ArgCat(g[2], f[n])}
<1>7. 0 \in S
  <2>1. f[0] = <<>> /\ 0 + 2 = 2
    BY <1>3 DEF ArgKeptRun
  <2>2. ArgCat(g[2], <<>>) = g[2]
    BY <1>6, ConcatEmptySeq DEF ArgCat
  <2>3. f[0] \in Seq(X) /\ g[0 + 2] = ArgCat(g[2], f[0])
    BY <2>1, <2>2
  <2> QED  BY <1>1, <2>3
<1>8. ASSUME NEW n \in 0 .. Len(s), n \in S, n < Len(s)
      PROVE  n + 1 \in S
  <2>1. n \in Nat /\ n + 1 \in 1 .. Len(s) /\ (n + 1) - 1 = n /\ n + 1 \in 0 .. Len(s)
    BY <1>1, <1>8
  <2>2. n + 3 \in 1 .. Len(w) /\ (n + 3) - 1 = n + 2 /\ (n + 1) + 2 = n + 3
    BY <1>1, <1>2, <1>8
  <2>3. f[n + 1] = IF n + 1 \in K THEN Append(f[n], s[n + 1]) ELSE f[n]
    BY <1>3, <2>1 DEF ArgKeptRun
  <2>4. g[n + 3] = IF n + 3 \in L THEN Append(g[n + 2], w[n + 3]) ELSE g[n + 2]
    BY <1>4, <2>2 DEF ArgKeptRun
  <2>5. (n + 3 \in L <=> n + 1 \in K) /\ w[n + 3] = s[n + 1]
    BY <1>2, <2>1, <2>2
  <2>6. f[n] \in Seq(X) /\ g[n + 2] = ArgCat(g[2], f[n]) /\ s[n + 1] \in X
    BY <1>8, <2>1
  <2>7. Append(ArgCat(g[2], f[n]), s[n + 1]) = ArgCat(g[2], Append(f[n], s[n + 1]))
    <3>1. \A q, r \in Seq(X) : \A x \in X : Append(ArgCat(q, r), x) = ArgCat(q, Append(r, x))
      BY ArgAppendAfter
    <3> QED  BY <1>6, <2>6, <3>1
  <2>8. f[n + 1] \in Seq(X) /\ g[n + 3] = ArgCat(g[2], f[n + 1])
    <3>1. CASE n + 1 \in K
      BY <2>3, <2>4, <2>5, <2>6, <2>7, <3>1
    <3>2. CASE n + 1 \notin K
      BY <2>3, <2>4, <2>5, <2>6, <3>2
    <3> QED  BY <3>1, <3>2
  <2> QED  BY <2>1, <2>2, <2>8
<1>9. Len(s) \in S
  <2> HIDE DEF S
  <2>1. ArgInductive(S, Len(s))
    BY <1>7, <1>8 DEF ArgInductive
  <2> QED  BY <1>1, <2>1, ArgInduct
<1>10. ArgKept(w, L) = ArgCat(g[2], ArgKept(s, K)) /\ ArgKept(s, K) \in Seq(X)
  BY <1>2, <1>3, <1>4, <1>9
<1>11. 1 \in L /\ 2 \in L => g[2] = <<a, b>>
  <2> DEFINE l == Append(Append(<<>>, a), b)
             r == <<a, b>>
  <2>1. l \in Seq(X) /\ r \in Seq(X) /\ Len(l) = 2 /\ Len(r) = 2
    OBVIOUS
  <2>2. l[1] = a /\ l[2] = b /\ r[1] = a /\ r[2] = b
    OBVIOUS
  <2> HIDE DEF l, r
  <2>3. \A i \in 1 .. Len(l) : l[i] = r[i]
    BY <2>1, <2>2
  <2>4. l = r
    BY <2>1, <2>3, SeqEqual
  <2>5. 1 \in L /\ 2 \in L => g[2] = l
    BY <1>5 DEF l
  <2> QED  BY <2>4, <2>5 DEF r
<1>12. 1 \notin L /\ 2 \notin L => g[2] = <<>>
  BY <1>5
<1>13. <<>> \o ArgKept(s, K) = ArgKept(s, K)
  BY <1>10, ConcatEmptySeq
<1> QED  BY <1>10, <1>11, <1>12, <1>13 DEF w, ArgCat

ArgServer == ArgOption("server")

(* What is skipped, place by place, and the equation that defines it. *)
ArgSkipRun(f, s, m) ==
  \A k \in 0 .. m : f[k] = IF k < 2 THEN FALSE ELSE s[k - 1] = ArgServer /\ ~f[k - 1]

ArgSkipEqn(f, s) ==
  f = [k \in 0 .. Len(s) |-> IF k < 2 THEN FALSE ELSE s[k - 1] = ArgServer /\ ~f[k - 1]]

(* ArgSkipped, unfolded place by place. *)
LEMMA ArgSkippedSteps ==
    ASSUME NEW s, Len(s) \in Nat
    PROVE  ArgSkipRun(ArgSkipped(s), s, Len(s))
<1> DEFINE S == {m \in 0 .. Len(s) : \E f : ArgSkipRun(f, s, m)}
           f == CHOOSE f : ArgSkipEqn(f, s)
<1>1. 0 \in S
  <2>1. ArgSkipRun([x \in {0} |-> FALSE], s, 0)
    BY DEF ArgSkipRun
  <2> QED  BY <2>1
<1>2. ASSUME NEW m \in 0 .. Len(s), m \in S, m < Len(s)
      PROVE  m + 1 \in S
  <2>1. PICK e : ArgSkipRun(e, s, m)
    BY <1>2
  <2> DEFINE next == IF m + 1 < 2 THEN FALSE ELSE s[m] = ArgServer /\ ~e[m]
             g == [k \in 0 .. (m + 1) |-> IF k = m + 1 THEN next ELSE e[k]]
  <2>2. m \in Nat /\ m + 1 \in 0 .. Len(s) /\ (m + 1) - 1 = m /\ m \in 0 .. (m + 1) /\ m # m + 1
    BY <1>2
  <2>3. g[m + 1] = next /\ g[m] = e[m]
    BY <2>2
  <2>4. ASSUME NEW k \in 0 .. (m + 1)
        PROVE  g[k] = IF k < 2 THEN FALSE ELSE s[k - 1] = ArgServer /\ ~g[k - 1]
    <3>1. CASE k = m + 1
      <4> HIDE DEF g
      <4> QED  BY <2>2, <2>3, <3>1
    <3>2. CASE k # m + 1
      <4>1. k \in 0 .. m /\ g[k] = e[k]
        BY <2>2, <3>2
      <4>2. k < 2 \/ (k - 1 \in 0 .. (m + 1) /\ k - 1 # m + 1)
        BY <2>2, <4>1
      <4>3. k < 2 \/ g[k - 1] = e[k - 1]
        BY <4>2
      <4> HIDE DEF g
      <4> QED  BY <2>1, <4>1, <4>3 DEF ArgSkipRun
    <3> QED  BY <3>1, <3>2
  <2>5. ArgSkipRun(g, s, m + 1)
    <3> HIDE DEF g
    <3> QED  BY <2>4 DEF ArgSkipRun
  <2> QED  BY <2>2, <2>5
<1>3. Len(s) \in S
  <2> HIDE DEF S
  <2>1. ArgInductive(S, Len(s))
    BY <1>1, <1>2 DEF ArgInductive
  <2> QED  BY <2>1, ArgInduct
<1>4. PICK e : ArgSkipRun(e, s, Len(s))
  BY <1>3
<1> DEFINE g == [k \in 0 .. Len(s) |-> e[k]]
<1>5. ArgSkipEqn(g, s)
  <2>1. ASSUME NEW k \in 0 .. Len(s)
        PROVE  e[k] = IF k < 2 THEN FALSE ELSE s[k - 1] = ArgServer /\ ~g[k - 1]
    <3>1. k < 2 \/ k - 1 \in 0 .. Len(s)
      OBVIOUS
    <3>2. k < 2 \/ g[k - 1] = e[k - 1]
      BY <3>1
    <3> HIDE DEF g
    <3> QED  BY <1>4, <3>2 DEF ArgSkipRun
  <2>2. g = [k \in 0 .. Len(s) |-> IF k < 2 THEN FALSE ELSE s[k - 1] = ArgServer /\ ~g[k - 1]]
    BY <2>1
  <2> HIDE DEF g
  <2> QED  BY <2>2 DEF ArgSkipEqn
<1>6. ArgSkipEqn(f, s)
  BY <1>5
<1>7. ArgSkipped(s) = f
  BY DEF ArgSkipped, ArgSkipEqn, ArgServer
<1> HIDE DEF f
<1>8. ASSUME NEW k \in 0 .. Len(s)
      PROVE  f[k] = IF k < 2 THEN FALSE ELSE s[k - 1] = ArgServer /\ ~f[k - 1]
  BY <1>6 DEF ArgSkipEqn
<1> QED  BY <1>7, <1>8 DEF ArgSkipRun

(* The tokens there are, typed or made by the parser. *)
ArgTexts == ArgWords \cup ArgOptions \cup {ArgNone, ArgDefault, ArgYes, "server", "x"}
ArgTokens == [kind : {"word", "option", "end", "equals"}, text : ArgTexts, value : ArgTexts]

(* A command line with --server x before everything else. *)
ArgFronted(s) == ArgCat(<<ArgServer, ArgWord("x")>>, s)

(* --server is an option. *)
LEMMA ArgServerIs == ArgServer = ArgToken("option", "server", ArgNone)
  BY DEF ArgServer, ArgOption

(* What may be typed are tokens. *)
LEMMA ArgTokensTyped ==
  ArgTyped \subseteq ArgTokens /\ ArgServer \in ArgTokens /\ ArgWord("x") \in ArgTokens
<1>1. \A w \in ArgWords \cup {"x"} : ArgWord(w) \in ArgTokens
  BY DEF ArgWord, ArgToken, ArgTokens, ArgTexts
<1>2. \A o \in ArgOptions : ArgOption(o) \in ArgTokens
  BY DEF ArgOption, ArgToken, ArgTokens, ArgTexts
<1>3. ArgServer \in ArgTokens
  BY ArgServerIs DEF ArgToken, ArgTokens, ArgTexts
<1> QED  BY <1>1, <1>2, <1>3 DEF ArgTyped

(* What a concatenation has at each place. *)
LEMMA ArgConcatIs ==
    ASSUME NEW X, NEW q \in Seq(X), NEW s \in Seq(X)
    PROVE  /\ q \o s \in Seq(X) /\ Len(q \o s) = Len(q) + Len(s) /\ Len(s) \in Nat /\ Len(q) \in Nat
           /\ \A k \in 1 .. Len(q) : (q \o s)[k] = q[k]
           /\ \A k \in 1 .. Len(s) : (q \o s)[k + Len(q)] = s[k]
<1>1. q \o s \in Seq(X) /\ Len(q \o s) = Len(q) + Len(s) /\ Len(s) \in Nat /\ Len(q) \in Nat
  OBVIOUS
<1>2. \A k \in 1 .. Len(q) : (q \o s)[k] = q[k]
  OBVIOUS
<1>3. \A k \in 1 .. Len(s) : (q \o s)[k + Len(q)] = s[k]
  OBVIOUS
<1> QED  BY <1>1, <1>2, <1>3

(* What a line with --server x in front has at each place. *)
LEMMA ArgFrontedIs ==
    ASSUME NEW s \in Seq(ArgTokens)
    PROVE  /\ Len(s) \in Nat /\ DOMAIN s = 1 .. Len(s)
           /\ ArgFronted(s) \in Seq(ArgTokens) /\ Len(ArgFronted(s)) = Len(s) + 2
           /\ DOMAIN ArgFronted(s) = 1 .. (Len(s) + 2)
           /\ ArgFronted(s)[1] = ArgServer /\ ArgFronted(s)[2] = ArgWord("x")
           /\ \A k \in 1 .. Len(s) : ArgFronted(s)[k + 2] = s[k]
           /\ \A k \in 1 .. (Len(s) + 2) : k = 1 \/ k = 2 \/ (k - 2 \in 1 .. Len(s) /\ (k - 2) + 2 = k)
<1>1. Len(s) \in Nat /\ DOMAIN s = 1 .. Len(s)
  OBVIOUS
<1>2. PICK q : q = <<ArgServer, ArgWord("x")>>
  OBVIOUS
<1>3. q \in Seq(ArgTokens) /\ Len(q) = 2 /\ q[1] = ArgServer /\ q[2] = ArgWord("x")
  BY <1>2, ArgTokensTyped
<1>4. PICK w : w = q \o s
  OBVIOUS
<1>5. /\ w \in Seq(ArgTokens) /\ Len(w) = Len(s) + 2
      /\ w[1] = q[1] /\ w[2] = q[2] /\ \A k \in 1 .. Len(s) : w[k + 2] = s[k]
  <2>1. /\ w \in Seq(ArgTokens) /\ Len(w) = Len(q) + Len(s) /\ Len(s) \in Nat
        /\ \A k \in 1 .. Len(q) : w[k] = q[k]
        /\ \A k \in 1 .. Len(s) : w[k + Len(q)] = s[k]
    <3>1. q \in Seq(ArgTokens)
      BY <1>3
    <3> QED  BY <1>4, <3>1, ArgConcatIs
  <2> QED  BY <1>3, <2>1
<1>6. DOMAIN w = 1 .. (Len(s) + 2)
  BY <1>1, <1>5
<1>10. \A k \in 1 .. (Len(s) + 2) : k = 1 \/ k = 2 \/ (k - 2 \in 1 .. Len(s) /\ (k - 2) + 2 = k)
  BY <1>1
<1>11. ArgFronted(s) = w
  BY <1>2, <1>4 DEF ArgFronted, ArgCat
<1> QED  BY <1>1, <1>3, <1>5, <1>6, <1>10, <1>11

(* Of --server x the x is skipped, and the rest as without. *)
LEMMA ArgSkippedShift ==
    ASSUME NEW s \in Seq(ArgTokens)
    PROVE  /\ ~ArgSkipped(ArgFronted(s))[1] /\ ArgSkipped(ArgFronted(s))[2]
           /\ \A k \in 1 .. Len(s) : ArgSkipped(ArgFronted(s))[k + 2] <=> ArgSkipped(s)[k]
<1> DEFINE w == ArgFronted(s)
           f == ArgSkipped(s)
           g == ArgSkipped(w)
<1>1. /\ Len(s) \in Nat /\ Len(w) = Len(s) + 2 /\ w[1] = ArgServer /\ w[2] = ArgWord("x")
      /\ \A k \in 1 .. Len(s) : w[k + 2] = s[k]
  BY ArgFrontedIs
<1> HIDE DEF w
<1>2. \A k \in 0 .. Len(s) : f[k] = IF k < 2 THEN FALSE ELSE s[k - 1] = ArgServer /\ ~f[k - 1]
  BY <1>1, ArgSkippedSteps DEF ArgSkipRun
<1>3. \A k \in 0 .. (Len(s) + 2) : g[k] = IF k < 2 THEN FALSE ELSE w[k - 1] = ArgServer /\ ~g[k - 1]
  <2>1. Len(w) \in Nat
    BY <1>1
  <2>2. ArgSkipRun(g, w, Len(w))
    BY <2>1, ArgSkippedSteps
  <2> HIDE DEF g
  <2> QED  BY <1>1, <2>2 DEF ArgSkipRun
<1> HIDE DEF f, g
<1>4. ~g[1]
  <2>1. 1 \in 0 .. (Len(s) + 2) /\ 1 < 2
    BY <1>1
  <2> QED  BY <1>3, <2>1
<1>5. g[2]
  <2>1. 2 \in 0 .. (Len(s) + 2) /\ ~(2 < 2) /\ 2 - 1 = 1
    BY <1>1
  <2>2. g[2] = (w[1] = ArgServer /\ ~g[1])
    <3>1. g[2] = IF 2 < 2 THEN FALSE ELSE w[2 - 1] = ArgServer /\ ~g[2 - 1]
      BY <1>3, <2>1
    <3> QED  BY <2>1, <3>1
  <2> QED  BY <1>1, <1>4, <2>2
<1>6. ArgWord("x") # ArgServer
  BY ArgServerIs DEF ArgWord, ArgToken
<1> DEFINE S == {n \in 0 .. Len(s) : n = 0 \/ (g[n + 2] <=> f[n])}
<1>7. 0 \in S
  BY <1>1
<1>8. ASSUME NEW n \in 0 .. Len(s), n \in S, n < Len(s)
      PROVE  n + 1 \in S
  <2>1. n \in Nat /\ n + 1 \in 0 .. Len(s) /\ (n + 1) - 1 = n /\ n + 3 \in 0 .. (Len(s) + 2) /\ (n + 3) - 1 = n + 2
    BY <1>1, <1>8
  <2>2. f[n + 1] = IF n + 1 < 2 THEN FALSE ELSE s[n] = ArgServer /\ ~f[n]
    BY <1>2, <2>1
  <2>3. g[n + 3] = (w[n + 2] = ArgServer /\ ~g[n + 2])
    <3>1. ~(n + 3 < 2)
      BY <2>1
    <3>2. g[n + 3] = IF n + 3 < 2 THEN FALSE ELSE w[(n + 3) - 1] = ArgServer /\ ~g[(n + 3) - 1]
      BY <1>3, <2>1
    <3> QED  BY <2>1, <3>1, <3>2
  <2>4. CASE n = 0
    <3>1. ~f[n + 1] /\ ~g[n + 3]
      <4>1. n + 1 < 2 /\ w[n + 2] = ArgWord("x")
        BY <1>1, <2>4
      <4> QED  BY <1>6, <2>2, <2>3, <4>1
    <3>2. (n + 1) + 2 = n + 3
      BY <2>1
    <3> QED  BY <2>1, <3>1, <3>2
  <2>5. CASE n # 0
    <3>1. n \in 1 .. Len(s) /\ ~(n + 1 < 2) /\ (n + 1) + 2 = n + 3
      BY <2>1, <2>5
    <3>2. w[n + 2] = s[n] /\ (g[n + 2] <=> f[n])
      BY <1>1, <1>8, <2>5, <3>1
    <3>3. g[n + 3] <=> f[n + 1]
      BY <2>2, <2>3, <3>1, <3>2
    <3> QED  BY <2>1, <3>1, <3>3
  <2> QED  BY <2>4, <2>5
<1>9. ArgInductive(S, Len(s))
  <2> HIDE DEF S
  <2> QED  BY <1>7, <1>8 DEF ArgInductive
<1>10. 0 .. Len(s) \subseteq S
  <2> HIDE DEF S
  <2> QED  BY <1>1, <1>9, ArgInduct
<1>11. ASSUME NEW k \in 1 .. Len(s) PROVE g[k + 2] <=> f[k]
  <2>1. k \in 0 .. Len(s) /\ k # 0
    OBVIOUS
  <2>2. k \in S
    <3> HIDE DEF S
    <3> QED  BY <1>10, <2>1
  <2> QED  BY <2>1, <2>2
<1> QED  BY <1>4, <1>5, <1>11 DEF f, g, w

(* The words are those of the line, two places on. *)
LEMMA ArgWordIndexesShift ==
    ASSUME NEW s \in Seq(ArgTokens)
    PROVE  /\ ArgWordIndexes(s) \in SUBSET (1 .. Len(s))
           /\ ArgWordIndexes(ArgFronted(s)) \in SUBSET (1 .. (Len(s) + 2))
           /\ \A k \in 1 .. Len(s) : k + 2 \in ArgWordIndexes(ArgFronted(s)) <=> k \in ArgWordIndexes(s)
           /\ \A u \in ArgWordIndexes(ArgFronted(s)) : u - 2 \in ArgWordIndexes(s) /\ (u - 2) + 2 = u
<1> DEFINE w == ArgFronted(s)
           f == ArgSkipped(s)
           g == ArgSkipped(w)
<1>1. /\ Len(s) \in Nat /\ DOMAIN s = 1 .. Len(s) /\ DOMAIN w = 1 .. (Len(s) + 2)
      /\ w[1] = ArgServer /\ w[2] = ArgWord("x") /\ \A k \in 1 .. Len(s) : w[k + 2] = s[k]
      /\ \A k \in 1 .. (Len(s) + 2) : k = 1 \/ k = 2 \/ (k - 2 \in 1 .. Len(s) /\ (k - 2) + 2 = k)
  BY ArgFrontedIs
<1>2. ~g[1] /\ g[2] /\ \A k \in 1 .. Len(s) : g[k + 2] <=> f[k]
  BY ArgSkippedShift
<1>3. w[1].kind = "option"
  BY <1>1, ArgServerIs DEF ArgToken
<1> DEFINE E == {k \in DOMAIN s : s[k].kind = "end" /\ ~f[k]}
           D == {k \in DOMAIN w : w[k].kind = "end" /\ ~g[k]}
           A == {k \in DOMAIN s : s[k].kind = "word" /\ ~f[k] /\ \A e \in E : k < e}
           B == {k \in DOMAIN w : w[k].kind = "word" /\ ~g[k] /\ \A e \in D : k < e}
<1>4. ArgWordIndexes(s) = A /\ ArgWordIndexes(w) = B
  BY DEF ArgWordIndexes
<1> HIDE DEF w, f, g
<1>5. ASSUME NEW k \in 1 .. Len(s) PROVE k + 2 \in 1 .. (Len(s) + 2) /\ (k + 2 \in D <=> k \in E)
  <2>1. k + 2 \in 1 .. (Len(s) + 2)
    BY <1>1
  <2> QED  BY <1>1, <1>2, <2>1
<1>6. ASSUME NEW e \in D PROVE e - 2 \in E /\ (e - 2) + 2 = e
  <2>1. e # 1 /\ e # 2 /\ e \in 1 .. (Len(s) + 2)
    BY <1>1, <1>2, <1>3
  <2>2. e - 2 \in 1 .. Len(s) /\ (e - 2) + 2 = e
    BY <1>1, <2>1
  <2>3. e - 2 \in E
    BY <1>5, <2>2
  <2> QED  BY <2>2, <2>3
<1>7. E \subseteq 1 .. Len(s)
  BY <1>1
<1>8. ASSUME NEW k \in 1 .. Len(s) PROVE (\A e \in D : k + 2 < e) <=> (\A e \in E : k < e)
  <2>1. ASSUME \A e \in D : k + 2 < e, NEW e \in E PROVE k < e
    <3>1. e \in 1 .. Len(s) /\ e + 2 \in D
      BY <1>5, <1>7
    <3>2. k + 2 < e + 2
      BY <2>1, <3>1
    <3> QED  BY <3>1, <3>2
  <2>2. ASSUME \A e \in E : k < e, NEW e \in D PROVE k + 2 < e
    <3>1. k < e - 2 /\ e - 2 \in 1 .. Len(s) /\ (e - 2) + 2 = e
      BY <1>6, <1>7, <2>2
    <3>2. \A m \in 1 .. Len(s) : k < m => k + 2 < m + 2
      OBVIOUS
    <3>3. k + 2 < (e - 2) + 2
      BY <3>1, <3>2
    <3> QED  BY <3>1, <3>3
  <2> QED  BY <2>1, <2>2
<1> HIDE DEF D, E
<1>9. ASSUME NEW k \in 1 .. Len(s) PROVE k + 2 \in B <=> k \in A
  <2>1. k + 2 \in DOMAIN w /\ k \in DOMAIN s /\ w[k + 2] = s[k] /\ (g[k + 2] <=> f[k])
    BY <1>1, <1>2, <1>5
  <2> QED  BY <1>8, <2>1
<1>10. ASSUME NEW u \in B PROVE u - 2 \in A /\ (u - 2) + 2 = u
  <2>1. u # 1 /\ u # 2 /\ u \in 1 .. (Len(s) + 2)
    BY <1>1, <1>2, <1>3
  <2>2. u - 2 \in 1 .. Len(s) /\ (u - 2) + 2 = u
    BY <1>1, <2>1
  <2> HIDE DEF A, B
  <2>3. u - 2 \in A
    BY <1>9, <2>2
  <2> QED  BY <2>2, <2>3
<1>11. A \in SUBSET (1 .. Len(s)) /\ B \in SUBSET (1 .. (Len(s) + 2))
  BY <1>1
<1> HIDE DEF A, B
<1> QED  BY <1>4, <1>9, <1>10, <1>11 DEF w

(* Where a command was found: one word or two that follow each other. *)
LEMMA ArgFindIs ==
    ASSUME NEW s \in Seq(ArgTokens), ArgFind(s) # <<>>
    PROVE  /\ ArgFind(s) \in Seq(1 .. Len(s)) /\ Len(ArgFind(s)) \in {1, 2}
           /\ ArgNamed([k \in 1 .. Len(ArgFind(s)) |-> s[ArgFind(s)[k]].text]) # {}
           /\ \A k \in 1 .. Len(ArgFind(s)) : ArgFind(s)[k] \in ArgWordIndexes(s)
           /\ Len(ArgFind(s)) = 2 => ArgFind(s)[1] # ArgFind(s)[2]
<1> DEFINE words == ArgWordIndexes(s)
           first == Min(words)
<1>1. words \in SUBSET (1 .. Len(s)) /\ Len(s) \in Nat
  BY ArgWordIndexesShift
<1> HIDE DEF words
<1>2. words # {}
  BY DEF ArgFind, words
<1>3. first \in words
  BY <1>1, <1>2, ArgMinIs
<1>4. first \in 1 .. Len(s)
  BY <1>1, <1>3
<1> DEFINE two == first + 1 \in words /\ ArgNamed(<<s[first].text, s[first + 1].text>>) # {}
<1>5. ArgFind(s) = IF two THEN <<first, first + 1>>
                   ELSE IF ArgNamed(<<s[first].text>>) # {} THEN <<first>> ELSE <<>>
  BY <1>2 DEF ArgFind, words
<1>6. CASE two
  <2>1. PICK at : at = <<first, first + 1>>
    OBVIOUS
  <2>2. ArgFind(s) = at
    BY <1>5, <1>6, <2>1
  <2>3. first + 1 \in 1 .. Len(s) /\ first + 1 \in words /\ first # first + 1
    BY <1>1, <1>4, <1>6
  <2> HIDE DEF first
  <2>4. at \in Seq(1 .. Len(s)) /\ Len(at) = 2 /\ at[1] = first /\ at[2] = first + 1
    BY <1>4, <2>1, <2>3
  <2>5. [k \in 1 .. Len(at) |-> s[at[k]].text] = <<s[first].text, s[first + 1].text>>
    BY <2>4
  <2>6. \A k \in 1 .. Len(at) : at[k] \in words
    BY <1>3, <2>3, <2>4
  <2>7. ArgNamed([k \in 1 .. Len(at) |-> s[at[k]].text]) # {}
    BY <1>6, <2>5
  <2> QED  BY <2>2, <2>3, <2>4, <2>6, <2>7 DEF words
<1>7. CASE ~two
  <2>1. PICK at : at = <<first>>
    OBVIOUS
  <2>2. ArgFind(s) = at /\ ArgNamed(<<s[first].text>>) # {}
    BY <1>5, <1>7, <2>1
  <2> HIDE DEF first
  <2>4. at \in Seq(1 .. Len(s)) /\ Len(at) = 1 /\ at[1] = first
    BY <1>4, <2>1
  <2>5. [k \in 1 .. Len(at) |-> s[at[k]].text] = <<s[first].text>>
    BY <2>4
  <2>6. \A k \in 1 .. Len(at) : at[k] \in words
    BY <1>3, <2>4
  <2>7. ArgNamed([k \in 1 .. Len(at) |-> s[at[k]].text]) # {}
    BY <2>2, <2>5
  <2>8. Len(at) \in {1, 2} /\ Len(at) # 2
    BY <2>4
  <2> QED  BY <2>2, <2>4, <2>6, <2>7, <2>8 DEF words
<1> QED  BY <1>6, <1>7

(* The same words name the command. *)
LEMMA ArgFindShift ==
    ASSUME NEW s \in Seq(ArgTokens), ArgFind(s) # <<>>
    PROVE  /\ Len(ArgFind(ArgFronted(s))) = Len(ArgFind(s))
           /\ \A k \in 1 .. Len(ArgFind(s)) : ArgFind(ArgFronted(s))[k] = ArgFind(s)[k] + 2
<1> DEFINE w == ArgFronted(s)
           A == ArgWordIndexes(s)
           B == ArgWordIndexes(w)
           a == Min(A)
           b == Min(B)
<1>1. /\ A \in SUBSET (1 .. Len(s)) /\ B \in SUBSET (1 .. (Len(s) + 2))
      /\ \A k \in 1 .. Len(s) : k + 2 \in B <=> k \in A
      /\ \A u \in B : u - 2 \in A /\ (u - 2) + 2 = u
      /\ Len(s) \in Nat
  BY ArgWordIndexesShift
<1>2. \A k \in 1 .. Len(s) : w[k + 2] = s[k]
  BY ArgFrontedIs
<1> HIDE DEF w, A, B
<1>3. A # {}
  BY DEF ArgFind, A
<1>4. \A k \in A : k + 2 \in B
  BY <1>1
<1>5. b = a + 2
  BY <1>1, <1>3, <1>4, ArgMinHigher
<1>6. a \in A /\ a \in 1 .. Len(s)
  BY <1>1, <1>3, ArgMinIs
<1>7. B # {}
  BY <1>4, <1>6
<1> DEFINE twoA == a + 1 \in A /\ ArgNamed(<<s[a].text, s[a + 1].text>>) # {}
           twoB == b + 1 \in B /\ ArgNamed(<<w[b].text, w[b + 1].text>>) # {}
<1>8. ArgFind(s) = IF twoA THEN <<a, a + 1>> ELSE IF ArgNamed(<<s[a].text>>) # {} THEN <<a>> ELSE <<>>
  BY <1>3 DEF ArgFind, A
<1>9. ArgFind(w) = IF twoB THEN <<b, b + 1>> ELSE IF ArgNamed(<<w[b].text>>) # {} THEN <<b>> ELSE <<>>
  BY <1>7 DEF ArgFind, B
<1> HIDE DEF a, b
<1>10. w[b] = s[a] /\ b + 1 = (a + 1) + 2 /\ a \in Nat
  BY <1>2, <1>5, <1>6
<1>11. a + 1 \in A => w[b + 1] = s[a + 1]
  BY <1>1, <1>2, <1>10
<1>12. b + 1 \in B <=> a + 1 \in A
  <2>1. a + 1 \in A => b + 1 \in B
    BY <1>4, <1>10
  <2>2. b + 1 \in B => (b + 1) - 2 \in A
    BY <1>1
  <2>3. (b + 1) - 2 = a + 1
    BY <1>5, <1>10
  <2> QED  BY <2>1, <2>2, <2>3
<1>13. twoA <=> twoB
  BY <1>10, <1>11, <1>12
<1>14. CASE twoA
  <2>1. ArgFind(s) = <<a, a + 1>> /\ ArgFind(w) = <<b, b + 1>>
    BY <1>8, <1>9, <1>13, <1>14
  <2>2. PICK p, q : p = <<a, a + 1>> /\ q = <<b, b + 1>>
    OBVIOUS
  <2>3. Len(p) = 2 /\ Len(q) = 2 /\ p[1] = a /\ p[2] = a + 1 /\ q[1] = b /\ q[2] = b + 1
    BY <2>2
  <2>4. \A k \in 1 .. Len(p) : q[k] = p[k] + 2
    BY <1>5, <1>10, <2>3
  <2> QED  BY <2>1, <2>2, <2>3, <2>4 DEF w
<1>15. CASE ~twoA
  <2>1. ArgFind(s) = <<a>> /\ ArgFind(w) = <<b>>
    BY <1>8, <1>9, <1>10, <1>13, <1>15
  <2>2. PICK p, q : p = <<a>> /\ q = <<b>>
    OBVIOUS
  <2>3. Len(p) = 1 /\ Len(q) = 1 /\ p[1] = a /\ q[1] = b
    BY <2>2
  <2>4. \A k \in 1 .. Len(p) : q[k] = p[k] + 2
    BY <1>5, <2>3
  <2> QED  BY <2>1, <2>2, <2>3, <2>4 DEF w
<1> QED  BY <1>14, <1>15

(* The same command is found. *)
LEMMA ArgCommandShift ==
    ASSUME NEW s \in Seq(ArgTokens), ArgFind(s) # <<>>
    PROVE  /\ ArgFind(ArgFronted(s)) # <<>>
           /\ ArgCommandAt(ArgFronted(s), ArgFind(ArgFronted(s))) = ArgCommandAt(s, ArgFind(s))
           /\ \A k \in 1 .. Len(s) : k + 2 \in ArgPlaces(ArgFind(ArgFronted(s))) <=> k \in ArgPlaces(ArgFind(s))
           /\ 1 \notin ArgPlaces(ArgFind(ArgFronted(s))) /\ 2 \notin ArgPlaces(ArgFind(ArgFronted(s)))
<1> DEFINE w == ArgFronted(s)
           p == ArgFind(s)
           q == ArgFind(w)
<1>1. Len(q) = Len(p) /\ \A k \in 1 .. Len(p) : q[k] = p[k] + 2
  BY ArgFindShift
<1>2. p \in Seq(1 .. Len(s)) /\ Len(p) \in {1, 2}
  BY ArgFindIs
<1>3. Len(s) \in Nat /\ \A k \in 1 .. Len(s) : w[k + 2] = s[k]
  BY ArgFrontedIs
<1> HIDE DEF w, p, q
<1>4. q # <<>>
  BY <1>1, <1>2
<1>5. \A k \in 1 .. Len(p) : p[k] \in 1 .. Len(s)
  BY <1>2
<1>6. [k \in 1 .. Len(q) |-> w[q[k]].text] = [k \in 1 .. Len(p) |-> s[p[k]].text]
  BY <1>1, <1>3, <1>5
<1>7. ArgCommandAt(w, q) = ArgCommandAt(s, p)
  BY <1>6 DEF ArgCommandAt
<1>8. ASSUME NEW k \in 1 .. Len(s) PROVE k + 2 \in ArgPlaces(q) <=> k \in ArgPlaces(p)
  <2>1. \A i \in 1 .. Len(p) : k + 2 = q[i] <=> k = p[i]
    BY <1>1, <1>3, <1>5
  <2> QED  BY <1>1, <2>1 DEF ArgPlaces
<1>9. 1 \notin ArgPlaces(q) /\ 2 \notin ArgPlaces(q)
  <2>1. \A i \in 1 .. Len(p) : q[i] # 1 /\ q[i] # 2
    BY <1>1, <1>3, <1>5
  <2> QED  BY <1>1, <2>1 DEF ArgPlaces
<1> QED  BY <1>4, <1>7, <1>8, <1>9 DEF w, p, q

(* What is kept of the line, with both tokens in front or neither. *)
LEMMA ArgKeptFronted ==
    ASSUME NEW s \in Seq(ArgTokens), NEW K, NEW L, \A k \in 1 .. Len(s) : k + 2 \in L <=> k \in K
    PROVE  /\ 1 \in L /\ 2 \in L => ArgKept(ArgFronted(s), L) = ArgFronted(ArgKept(s, K))
           /\ 1 \notin L /\ 2 \notin L => ArgKept(ArgFronted(s), L) = ArgKept(s, K)
           /\ ArgKept(s, K) \in Seq(ArgTokens)
<1>1. ArgServer \in ArgTokens /\ ArgWord("x") \in ArgTokens
  BY ArgTokensTyped
<1>2. \A a, b \in ArgTokens :
        /\ 1 \in L /\ 2 \in L => ArgKept(ArgCat(<<a, b>>, s), L) = ArgCat(<<a, b>>, ArgKept(s, K))
        /\ 1 \notin L /\ 2 \notin L => ArgKept(ArgCat(<<a, b>>, s), L) = ArgKept(s, K)
  BY ArgKeptAfter
<1>3. ArgKept(s, K) \in Seq(ArgTokens)
  BY ArgKeptPlaces
<1> QED  BY <1>1, <1>2, <1>3 DEF ArgFronted

(* What is left without the command has --server x in front. *)
LEMMA ArgRestShift ==
    ASSUME NEW s \in Seq(ArgTokens), ArgFind(s) # <<>>
    PROVE  ArgKept(ArgFronted(s), DOMAIN ArgFronted(s) \ ArgPlaces(ArgFind(ArgFronted(s))))
             = ArgFronted(ArgKept(s, DOMAIN s \ ArgPlaces(ArgFind(s))))
<1> DEFINE L == DOMAIN ArgFronted(s) \ ArgPlaces(ArgFind(ArgFronted(s)))
           K == DOMAIN s \ ArgPlaces(ArgFind(s))
<1>1. Len(s) \in Nat /\ DOMAIN s = 1 .. Len(s) /\ DOMAIN ArgFronted(s) = 1 .. (Len(s) + 2)
  BY ArgFrontedIs
<1>2. /\ \A k \in 1 .. Len(s) : k + 2 \in ArgPlaces(ArgFind(ArgFronted(s))) <=> k \in ArgPlaces(ArgFind(s))
      /\ 1 \notin ArgPlaces(ArgFind(ArgFronted(s))) /\ 2 \notin ArgPlaces(ArgFind(ArgFronted(s)))
  BY ArgCommandShift
<1>3. ASSUME NEW k \in 1 .. Len(s) PROVE k + 2 \in L <=> k \in K
  <2>1. k + 2 \in 1 .. (Len(s) + 2)
    BY <1>1
  <2> QED  BY <1>1, <1>2, <2>1
<1>4. 1 \in L /\ 2 \in L
  <2>1. 1 \in 1 .. (Len(s) + 2) /\ 2 \in 1 .. (Len(s) + 2)
    BY <1>1
  <2> QED  BY <1>1, <1>2, <2>1
<1> HIDE DEF K, L
<1>5. ArgKept(ArgFronted(s), L) = ArgFronted(ArgKept(s, K))
  BY <1>3, <1>4, ArgKeptFronted
<1> QED  BY <1>5 DEF K, L

(* The options of a command and those of every command. *)
ArgHasServer(options) == "server" \in DOMAIN options /\ options["server"] = "string"

(* With its optional value a token is a token. *)
LEMMA ArgGiveValueType ==
    ASSUME NEW s \in Seq(ArgTokens), NEW options, NEW k \in 1 .. Len(s)
    PROVE  ArgGiveValue(s, options, k) \in ArgTokens
<1>1. s[k] \in ArgTokens /\ DOMAIN s = 1 .. Len(s)
  OBVIOUS
<1> DEFINE v == IF ArgIs(s, k + 1, "word") THEN s[k + 1].text ELSE ArgDefault
<1>2. v \in ArgTexts
  <2>1. CASE ArgIs(s, k + 1, "word")
    <3>1. s[k + 1] \in ArgTokens
      BY <1>1, <2>1 DEF ArgIs
    <3> QED  BY <2>1, <3>1 DEF ArgTokens
  <2>2. CASE ~ArgIs(s, k + 1, "word")
    BY <2>2 DEF ArgTexts
  <2> QED  BY <2>1, <2>2
<1>3. s[k].text \in ArgTexts
  BY <1>1 DEF ArgTokens
<1> HIDE DEF v
<1>4. ArgToken("equals", s[k].text, v) \in ArgTokens
  BY <1>2, <1>3 DEF ArgToken, ArgTokens
<1> QED  BY <1>1, <1>4 DEF ArgGiveValue, v

(* --server x takes no part in the expansion. *)
LEMMA ArgExpandShift ==
    ASSUME NEW s \in Seq(ArgTokens), NEW options, ArgHasServer(options)
    PROVE  /\ ArgExpand(ArgFronted(s), options) = ArgFronted(ArgExpand(s, options))
           /\ ArgExpand(s, options) \in Seq(ArgTokens)
<1> DEFINE w == ArgFronted(s)
           m == [k \in DOMAIN s |-> ArgGiveValue(s, options, k)]
           n == [k \in DOMAIN w |-> ArgGiveValue(w, options, k)]
           K == {k \in DOMAIN s : ~ArgTaken(s, options, k)}
           L == {k \in DOMAIN w : ~ArgTaken(w, options, k)}
<1>1. /\ Len(s) \in Nat /\ DOMAIN s = 1 .. Len(s) /\ DOMAIN w = 1 .. (Len(s) + 2)
      /\ w \in Seq(ArgTokens) /\ Len(w) = Len(s) + 2
      /\ w[1] = ArgServer /\ w[2] = ArgWord("x") /\ \A k \in 1 .. Len(s) : w[k + 2] = s[k]
      /\ \A k \in 1 .. (Len(s) + 2) : k = 1 \/ k = 2 \/ (k - 2 \in 1 .. Len(s) /\ (k - 2) + 2 = k)
  BY ArgFrontedIs
<1>2. ArgExpand(s, options) = ArgKept(m, K) /\ ArgExpand(w, options) = ArgKept(n, L)
  BY DEF ArgExpand
<1>3. ~ArgOptional(ArgServer, options) /\ ~ArgOptional(ArgWord("x"), options)
  <2>1. options["server"] # "optional-string"
    BY DEF ArgHasServer
  <2>2. ArgServer.text = "server" /\ ArgWord("x").kind = "word"
    BY ArgServerIs DEF ArgToken, ArgWord
  <2> QED  BY <2>1, <2>2 DEF ArgOptional
<1>4. ASSUME NEW k \in 1 .. Len(s) PROVE ArgGiveValue(w, options, k + 2) = ArgGiveValue(s, options, k)
  <2>1. w[k + 2] = s[k] /\ (k + 2) + 1 = (k + 1) + 2
    BY <1>1
  <2>2. ArgIs(w, (k + 1) + 2, "word") <=> ArgIs(s, k + 1, "word")
    <3>1. (k + 1) + 2 \in DOMAIN w <=> k + 1 \in DOMAIN s
      BY <1>1
    <3>2. k + 1 \in DOMAIN s => w[(k + 1) + 2] = s[k + 1]
      BY <1>1
    <3> QED  BY <3>1, <3>2 DEF ArgIs
  <2>3. ArgIs(s, k + 1, "word") => w[(k + 1) + 2] = s[k + 1]
    BY <1>1 DEF ArgIs
  <2> QED  BY <2>1, <2>2, <2>3 DEF ArgGiveValue
<1>5. ArgGiveValue(w, options, 1) = w[1] /\ ArgGiveValue(w, options, 2) = w[2]
  BY <1>1, <1>3 DEF ArgGiveValue
<1>6. \A k \in 1 .. Len(s) : ArgGiveValue(s, options, k) \in ArgTokens
  BY ArgGiveValueType
<1>7. \A k \in 1 .. (Len(s) + 2) : ArgGiveValue(w, options, k) \in ArgTokens
  BY <1>1, ArgGiveValueType
<1> HIDE DEF w
<1>8. m \in Seq(ArgTokens) /\ Len(m) = Len(s) /\ \A k \in 1 .. Len(s) : m[k] = ArgGiveValue(s, options, k)
  BY <1>1, <1>6
<1>9. n \in Seq(ArgTokens) /\ Len(n) = Len(s) + 2 /\ \A k \in 1 .. (Len(s) + 2) : n[k] = ArgGiveValue(w, options, k)
  <2>1. Len(s) + 2 \in Nat
    BY <1>1
  <2> QED  BY <1>1, <1>7, <2>1
<1> HIDE DEF m, n
<1>10. n = ArgFronted(m)
  <2>1. /\ ArgFronted(m) \in Seq(ArgTokens) /\ Len(ArgFronted(m)) = Len(s) + 2
        /\ ArgFronted(m)[1] = ArgServer /\ ArgFronted(m)[2] = ArgWord("x")
        /\ \A k \in 1 .. Len(s) : ArgFronted(m)[k + 2] = m[k]
    BY <1>8, ArgFrontedIs
  <2>2. ASSUME NEW k \in 1 .. Len(n) PROVE n[k] = ArgFronted(m)[k]
    <3>1. k \in 1 .. (Len(s) + 2)
      BY <1>9
    <3>2. CASE k = 1
      BY <1>1, <1>5, <1>9, <2>1, <3>1, <3>2
    <3>3. CASE k = 2
      BY <1>1, <1>5, <1>9, <2>1, <3>1, <3>3
    <3>4. CASE k - 2 \in 1 .. Len(s) /\ (k - 2) + 2 = k
      <4>1. n[k] = ArgGiveValue(s, options, k - 2)
        BY <1>4, <1>9, <3>1, <3>4
      <4>2. ArgFronted(m)[k] = m[k - 2]
        BY <2>1, <3>4
      <4> QED  BY <1>8, <3>4, <4>1, <4>2
    <3> QED  BY <1>1, <3>1, <3>2, <3>3, <3>4
  <2> QED  BY <1>9, <2>1, <2>2, SeqEqual
<1>11. ASSUME NEW k \in 1 .. Len(s) PROVE k + 2 \in L <=> k \in K
  <2>1. k + 2 \in DOMAIN w /\ k \in DOMAIN s /\ w[k + 2] = s[k] /\ k + 2 > 1 /\ (k + 2) - 1 = k + 1
    BY <1>1
  <2>2. CASE k = 1
    <3>1. w[(k + 2) - 1] = ArgWord("x")
      BY <1>1, <2>2
    <3>2. ~ArgTaken(w, options, k + 2) /\ ~ArgTaken(s, options, k)
      BY <1>3, <2>2, <3>1 DEF ArgTaken
    <3> QED  BY <2>1, <3>2
  <2>3. CASE k # 1
    <3>1. k - 1 \in 1 .. Len(s) /\ (k - 1) + 2 = (k + 2) - 1 /\ k > 1
      BY <1>1, <2>3
    <3>2. w[(k + 2) - 1] = s[k - 1]
      BY <1>1, <3>1
    <3>3. ArgTaken(w, options, k + 2) <=> ArgTaken(s, options, k)
      BY <2>1, <3>1, <3>2 DEF ArgTaken
    <3> QED  BY <2>1, <3>3
  <2> QED  BY <2>2, <2>3
<1>12. 1 \in L /\ 2 \in L
  <2>1. 1 \in DOMAIN w /\ 2 \in DOMAIN w /\ 2 - 1 = 1
    BY <1>1
  <2>2. ~ArgTaken(w, options, 1)
    BY DEF ArgTaken
  <2>3. ~ArgTaken(w, options, 2)
    BY <1>1, <1>3, <2>1 DEF ArgTaken
  <2> QED  BY <2>1, <2>2, <2>3
<1> HIDE DEF K, L
<1>13. \A k \in 1 .. Len(m) : k + 2 \in L <=> k \in K
  BY <1>8, <1>11
<1>14. ArgKept(ArgFronted(m), L) = ArgFronted(ArgKept(m, K)) /\ ArgKept(m, K) \in Seq(ArgTokens)
  BY <1>8, <1>12, <1>13, ArgKeptFronted
<1> QED  BY <1>2, <1>10, <1>14 DEF w

(* The end of options is two places on. *)
LEMMA ArgEndShift ==
    ASSUME NEW s \in Seq(ArgTokens)
    PROVE  ArgEnd(s) \in 1 .. (Len(s) + 1) /\ ArgEnd(ArgFronted(s)) = ArgEnd(s) + 2
<1> DEFINE w == ArgFronted(s)
           T == {k \in DOMAIN s : s[k].kind = "end"}
           U == {k \in DOMAIN w : w[k].kind = "end"}
<1>1. /\ Len(s) \in Nat /\ DOMAIN s = 1 .. Len(s) /\ DOMAIN w = 1 .. (Len(s) + 2) /\ Len(w) = Len(s) + 2
      /\ w[1] = ArgServer /\ w[2] = ArgWord("x") /\ \A k \in 1 .. Len(s) : w[k + 2] = s[k]
      /\ \A k \in 1 .. (Len(s) + 2) : k = 1 \/ k = 2 \/ (k - 2 \in 1 .. Len(s) /\ (k - 2) + 2 = k)
  BY ArgFrontedIs
<1>2. w[1].kind # "end" /\ w[2].kind # "end"
  BY <1>1, ArgServerIs DEF ArgToken, ArgWord
<1>3. ArgEnd(s) = (IF T = {} THEN Len(s) + 1 ELSE Min(T)) /\ ArgEnd(w) = (IF U = {} THEN Len(w) + 1 ELSE Min(U))
  BY DEF ArgEnd
<1> HIDE DEF w
<1>4. T \in SUBSET (1 .. Len(s)) /\ U \in SUBSET (1 .. (Len(s) + 2))
  BY <1>1
<1>5. ASSUME NEW k \in T PROVE k + 2 \in U
  <2>1. k \in 1 .. Len(s) /\ k + 2 \in 1 .. (Len(s) + 2) /\ w[k + 2] = s[k]
    BY <1>1
  <2> QED  BY <1>1, <2>1
<1>6. ASSUME NEW u \in U PROVE u - 2 \in T
  <2>1. u \in 1 .. (Len(s) + 2) /\ u # 1 /\ u # 2
    BY <1>1, <1>2
  <2>2. u - 2 \in 1 .. Len(s) /\ (u - 2) + 2 = u
    BY <1>1, <2>1
  <2>3. w[u] = s[u - 2]
    BY <1>1, <2>2
  <2> QED  BY <1>1, <2>2, <2>3
<1> HIDE DEF T, U
<1>7. CASE T = {}
  <2>1. U = {}
    BY <1>6, <1>7
  <2> QED  BY <1>1, <1>3, <1>7, <2>1 DEF w
<1>8. CASE T # {}
  <2>1. Min(U) = Min(T) + 2
    BY <1>1, <1>4, <1>5, <1>6, <1>8, ArgMinHigher
  <2>2. Min(T) \in 1 .. Len(s)
    BY <1>1, <1>4, <1>8, ArgMinIs
  <2>3. U # {}
    BY <1>5, <1>8
  <2> QED  BY <1>1, <1>3, <1>8, <2>1, <2>2, <2>3 DEF w
<1> QED  BY <1>7, <1>8

(* The values of options are two places on, and x is one. *)
LEMMA ArgIsValueShift ==
    ASSUME NEW s \in Seq(ArgTokens), NEW options, ArgHasServer(options)
    PROVE  /\ \A k \in 1 .. (Len(s) + 1) : ArgIsValue(ArgFronted(s), options, k + 2) <=> ArgIsValue(s, options, k)
           /\ ArgIsValue(ArgFronted(s), options, 2)
<1> DEFINE w == ArgFronted(s)
<1>1. /\ Len(s) \in Nat /\ DOMAIN s = 1 .. Len(s)
      /\ w[1] = ArgServer /\ w[2] = ArgWord("x") /\ \A k \in 1 .. Len(s) : w[k + 2] = s[k]
  BY ArgFrontedIs
<1>2. ArgEnd(s) \in 1 .. (Len(s) + 1) /\ ArgEnd(w) = ArgEnd(s) + 2
  BY ArgEndShift
<1>3. ArgTakes(ArgServer, options) /\ ~ArgTakes(ArgWord("x"), options) /\ ArgWord("x").kind = "word"
  BY ArgServerIs DEF ArgTakes, ArgHasServer, ArgToken, ArgWord
<1> HIDE DEF w
<1>4. ArgIsValue(w, options, 2)
  <2>1. 2 - 1 = 1 /\ 2 > 1 /\ 2 < ArgEnd(w)
    BY <1>1, <1>2
  <2> QED  BY <1>1, <1>3, <2>1 DEF ArgIsValue
<1>5. ASSUME NEW k \in 1 .. (Len(s) + 1) PROVE ArgIsValue(w, options, k + 2) <=> ArgIsValue(s, options, k)
  <2>1. k + 2 < ArgEnd(w) <=> k < ArgEnd(s)
    BY <1>1, <1>2
  <2>2. CASE ~(k < ArgEnd(s))
    BY <2>1, <2>2 DEF ArgIsValue
  <2>3. CASE k < ArgEnd(s)
    <3>1. k \in 1 .. Len(s) /\ w[k + 2] = s[k] /\ (k + 2) - 1 = k + 1 /\ k + 2 > 1
      BY <1>1, <1>2, <2>3
    <3>2. CASE k = 1
      <4>1. w[(k + 2) - 1] = ArgWord("x") /\ ~(k > 1)
        BY <1>1, <3>1, <3>2
      <4> QED  BY <1>3, <4>1 DEF ArgIsValue
    <3>3. CASE k # 1
      <4>1. k - 1 \in 1 .. Len(s) /\ (k - 1) + 2 = (k + 2) - 1 /\ k > 1
        BY <1>1, <3>1, <3>3
      <4>2. w[(k + 2) - 1] = s[k - 1]
        BY <1>1, <4>1
      <4> QED  BY <2>1, <2>3, <3>1, <4>1, <4>2 DEF ArgIsValue
    <3> QED  BY <3>2, <3>3
  <2> QED  BY <2>2, <2>3
<1> QED  BY <1>4, <1>5 DEF w

(* The options that are given are two places on, after --server. *)
LEMMA ArgGivenShift ==
    ASSUME NEW s \in Seq(ArgTokens)
    PROVE  /\ ArgGiven(s) \in SUBSET (1 .. Len(s)) /\ ArgGiven(ArgFronted(s)) \in SUBSET (1 .. (Len(s) + 2))
           /\ 1 \in ArgGiven(ArgFronted(s)) /\ 2 \notin ArgGiven(ArgFronted(s))
           /\ \A k \in 1 .. Len(s) : k + 2 \in ArgGiven(ArgFronted(s)) <=> k \in ArgGiven(s)
           /\ \A u \in ArgGiven(ArgFronted(s)) : u = 1 \/ (u - 2 \in ArgGiven(s) /\ (u - 2) + 2 = u)
<1> DEFINE w == ArgFronted(s)
           A == ArgGiven(s)
           B == ArgGiven(w)
<1>1. /\ Len(s) \in Nat /\ DOMAIN s = 1 .. Len(s) /\ DOMAIN w = 1 .. (Len(s) + 2)
      /\ w[1] = ArgServer /\ w[2] = ArgWord("x") /\ \A k \in 1 .. Len(s) : w[k + 2] = s[k]
      /\ \A k \in 1 .. (Len(s) + 2) : k = 1 \/ k = 2 \/ (k - 2 \in 1 .. Len(s) /\ (k - 2) + 2 = k)
  BY ArgFrontedIs
<1>2. ArgEnd(s) \in 1 .. (Len(s) + 1) /\ ArgEnd(w) = ArgEnd(s) + 2
  BY ArgEndShift
<1>3. w[1].kind = "option" /\ w[2].kind = "word"
  BY <1>1, ArgServerIs DEF ArgToken, ArgWord
<1> HIDE DEF w
<1>4. A \in SUBSET (1 .. Len(s)) /\ B \in SUBSET (1 .. (Len(s) + 2))
  BY <1>1 DEF ArgGiven
<1>5. 1 \in B
  <2>1. 1 \in DOMAIN w /\ 1 < ArgEnd(w)
    BY <1>1, <1>2
  <2> QED  BY <1>3, <2>1 DEF ArgGiven
<1>6. 2 \notin B
  BY <1>3 DEF ArgGiven
<1>7. ASSUME NEW k \in 1 .. Len(s) PROVE k + 2 \in B <=> k \in A
  <2>1. k + 2 \in DOMAIN w /\ k \in DOMAIN s /\ w[k + 2] = s[k] /\ (k + 2 < ArgEnd(w) <=> k < ArgEnd(s))
    BY <1>1, <1>2
  <2> QED  BY <2>1 DEF ArgGiven
<1>8. ASSUME NEW u \in B PROVE u = 1 \/ (u - 2 \in A /\ (u - 2) + 2 = u)
  <2>1. u \in 1 .. (Len(s) + 2) /\ u # 2
    BY <1>4, <1>6
  <2>2. CASE u # 1
    <3>1. u - 2 \in 1 .. Len(s) /\ (u - 2) + 2 = u
      BY <1>1, <2>1, <2>2
    <3>2. u - 2 \in A
      BY <1>7, <3>1
    <3> QED  BY <3>1, <3>2
  <2> QED  BY <2>2
<1> HIDE DEF A, B
<1> QED  BY <1>4, <1>5, <1>6, <1>7, <1>8 DEF A, B, w

(* They are known or not as before and have their values. *)
LEMMA ArgKnownShift ==
    ASSUME NEW s \in Seq(ArgTokens), NEW options, ArgHasServer(options)
    PROVE  /\ ArgKnown(ArgFronted(s), options, 1)
           /\ \A k \in 1 .. Len(s) : ArgKnown(ArgFronted(s), options, k + 2) <=> ArgKnown(s, options, k)
           /\ ArgValue(ArgFronted(s), options, 1) = "x"
           /\ \A k \in 1 .. Len(s) : ArgValue(ArgFronted(s), options, k + 2) = ArgValue(s, options, k)
<1> DEFINE w == ArgFronted(s)
<1>1. /\ Len(s) \in Nat /\ DOMAIN s = 1 .. Len(s)
      /\ w[1] = ArgServer /\ w[2] = ArgWord("x") /\ \A k \in 1 .. Len(s) : w[k + 2] = s[k]
  BY ArgFrontedIs
<1>2. /\ \A k \in 1 .. (Len(s) + 1) : ArgIsValue(w, options, k + 2) <=> ArgIsValue(s, options, k)
      /\ ArgIsValue(w, options, 2)
  BY ArgIsValueShift
<1>3. ArgServer.text = "server" /\ ArgServer.kind = "option" /\ ArgWord("x").text = "x"
  BY ArgServerIs DEF ArgToken, ArgWord
<1>4. ArgEnd(s) \in 1 .. (Len(s) + 1)
  BY ArgEndShift
<1> HIDE DEF w
<1>5. 1 + 1 = 2
  OBVIOUS
<1>6. ArgKnown(w, options, 1) /\ ArgValue(w, options, 1) = "x"
  BY <1>1, <1>2, <1>3, <1>5 DEF ArgKnown, ArgValue, ArgHasServer
<1>7. ASSUME NEW k \in 1 .. Len(s)
      PROVE  /\ ArgKnown(w, options, k + 2) <=> ArgKnown(s, options, k)
             /\ ArgValue(w, options, k + 2) = ArgValue(s, options, k)
  <2>1. w[k + 2] = s[k] /\ (k + 2) + 1 = (k + 1) + 2 /\ k + 1 \in 1 .. (Len(s) + 1)
    BY <1>1
  <2>2. ArgIsValue(w, options, (k + 2) + 1) <=> ArgIsValue(s, options, k + 1)
    BY <1>2, <2>1
  <2>3. ArgIsValue(s, options, k + 1) => w[(k + 2) + 1] = s[k + 1]
    <3>1. ASSUME ArgIsValue(s, options, k + 1) PROVE k + 1 \in 1 .. Len(s)
      BY <1>1, <1>4, <2>1, <3>1 DEF ArgIsValue
    <3> QED  BY <1>1, <2>1, <3>1
  <2> QED  BY <2>1, <2>2, <2>3 DEF ArgKnown, ArgValue
<1> QED  BY <1>6, <1>7 DEF w

(* The arguments are the same. *)
LEMMA ArgPositionalsShift ==
    ASSUME NEW s \in Seq(ArgTokens), NEW options, ArgHasServer(options)
    PROVE  ArgPositionals(ArgFronted(s), options) = ArgPositionals(s, options)
<1> DEFINE w == ArgFronted(s)
           P(t, k) == \/ k > ArgEnd(t)
                      \/ k < ArgEnd(t) /\ t[k].kind = "word" /\ ~ArgIsValue(t, options, k)
           K == {k \in DOMAIN s : P(s, k)}
           L == {k \in DOMAIN w : P(w, k)}
<1>1. /\ Len(s) \in Nat /\ DOMAIN s = 1 .. Len(s) /\ DOMAIN w = 1 .. (Len(s) + 2)
      /\ w[1] = ArgServer /\ w[2] = ArgWord("x") /\ \A k \in 1 .. Len(s) : w[k + 2] = s[k]
  BY ArgFrontedIs
<1>2. /\ \A k \in 1 .. (Len(s) + 1) : ArgIsValue(w, options, k + 2) <=> ArgIsValue(s, options, k)
      /\ ArgIsValue(w, options, 2)
  BY ArgIsValueShift
<1>3. ArgEnd(s) \in 1 .. (Len(s) + 1) /\ ArgEnd(w) = ArgEnd(s) + 2
  BY ArgEndShift
<1>4. w[1].kind = "option"
  BY <1>1, ArgServerIs DEF ArgToken
<1>5. ArgPositionals(s, options) = ArgKept(s, K) /\ ArgPositionals(w, options) = ArgKept(w, L)
  BY DEF ArgPositionals
<1> HIDE DEF w
<1>6. ASSUME NEW k \in 1 .. Len(s) PROVE k + 2 \in L <=> k \in K
  <2>1. k + 2 \in DOMAIN w /\ k \in DOMAIN s /\ w[k + 2] = s[k] /\ k \in 1 .. (Len(s) + 1)
    BY <1>1
  <2>2. (k + 2 < ArgEnd(w) <=> k < ArgEnd(s)) /\ (k + 2 > ArgEnd(w) <=> k > ArgEnd(s))
    BY <1>3
  <2>3. P(w, k + 2) <=> P(s, k)
    BY <1>2, <2>1, <2>2
  <2> QED  BY <2>1, <2>3
<1>7. 1 \notin L /\ 2 \notin L
  <2>1. ~(1 > ArgEnd(w)) /\ ~(2 > ArgEnd(w))
    BY <1>1, <1>3
  <2>2. ~P(w, 1) /\ ~P(w, 2)
    BY <1>2, <1>4, <2>1
  <2> QED  BY <2>2
<1> HIDE DEF K, L
<1>8. ArgKept(ArgFronted(s), L) = ArgKept(s, K)
  BY <1>6, <1>7, ArgKeptFronted
<1> QED  BY <1>5, <1>8 DEF w

(* The values are the same, and x is that of --server if it has no other. *)
LEMMA ArgValuesShift ==
    ASSUME NEW s \in Seq(ArgTokens), NEW options, ArgHasServer(options)
    PROVE  ArgValues(ArgFronted(s), options) = ArgBoth(ArgValues(s, options), [o \in {"server"} |-> "x"])
<1> DEFINE w == ArgFronted(s)
           A == ArgGiven(s)
           B == ArgGiven(w)
           N(t, o) == {k \in ArgGiven(t) : t[k].text = o}
           v == ArgValues(s, options)
           u == ArgValues(w, options)
<1>1. /\ A \in SUBSET (1 .. Len(s)) /\ B \in SUBSET (1 .. (Len(s) + 2)) /\ 1 \in B /\ 2 \notin B
      /\ \A k \in 1 .. Len(s) : k + 2 \in B <=> k \in A
      /\ \A i \in B : i = 1 \/ (i - 2 \in A /\ (i - 2) + 2 = i)
  BY ArgGivenShift
<1>2. Len(s) \in Nat /\ w[1] = ArgServer /\ \A k \in 1 .. Len(s) : w[k + 2] = s[k]
  BY ArgFrontedIs
<1>3. /\ ArgValue(w, options, 1) = "x"
      /\ \A k \in 1 .. Len(s) : ArgValue(w, options, k + 2) = ArgValue(s, options, k)
  BY ArgKnownShift
<1>4. w[1].text = "server"
  BY <1>2, ArgServerIs DEF ArgToken
<1>5. /\ v = [o \in {s[k].text : k \in A} |-> ArgValue(s, options, Max(N(s, o)))]
      /\ u = [o \in {w[k].text : k \in B} |-> ArgValue(w, options, Max(N(w, o)))]
  BY DEF ArgValues
<1> HIDE DEF w
<1>6. {w[k].text : k \in B} = {s[k].text : k \in A} \cup {"server"}
  <2>1. ASSUME NEW o \in {w[k].text : k \in B} PROVE o \in {s[k].text : k \in A} \cup {"server"}
    <3>1. PICK k \in B : o = w[k].text
      OBVIOUS
    <3>2. k = 1 \/ (k - 2 \in A /\ w[k] = s[k - 2])
      BY <1>1, <1>2
    <3> QED  BY <1>4, <3>1, <3>2
  <2>2. ASSUME NEW k \in A PROVE s[k].text \in {w[i].text : i \in B}
    <3>1. k + 2 \in B /\ w[k + 2] = s[k]
      BY <1>1, <1>2
    <3> QED  BY <3>1
  <2>3. "server" \in {w[k].text : k \in B}
    BY <1>1, <1>4
  <2> QED  BY <2>1, <2>2, <2>3
<1>7. ASSUME NEW o \in {s[k].text : k \in A} PROVE ArgValue(w, options, Max(N(w, o))) = ArgValue(s, options, Max(N(s, o)))
  <2>1. N(s, o) \in SUBSET (1 .. Len(s)) /\ N(w, o) \in SUBSET (1 .. (Len(s) + 2)) /\ N(s, o) # {}
    BY <1>1
  <2>2. \A k \in N(s, o) : k + 2 \in N(w, o)
    BY <1>1, <1>2
  <2>3. \A i \in N(w, o) : i = 1 \/ i - 2 \in N(s, o)
    BY <1>1, <1>2
  <2> HIDE DEF N
  <2>4. Max(N(w, o)) = Max(N(s, o)) + 2
    BY <1>2, <2>1, <2>2, <2>3, ArgMaxHigher
  <2>5. Max(N(s, o)) \in 1 .. Len(s)
    BY <1>2, <2>1, ArgMaxIs
  <2> QED  BY <1>3, <2>4, <2>5
<1>8. ASSUME "server" \notin {s[k].text : k \in A} PROVE ArgValue(w, options, Max(N(w, "server"))) = "x"
  <2>1. N(w, "server") = {1}
    <3>1. 1 \in N(w, "server")
      BY <1>1, <1>4
    <3>2. ASSUME NEW i \in N(w, "server"), i # 1 PROVE FALSE
      <4>1. i - 2 \in A /\ w[i] = s[i - 2] /\ w[i].text = "server"
        BY <1>1, <1>2, <3>2
      <4> QED  BY <1>8, <4>1
    <3> HIDE DEF N
    <3> QED  BY <3>1, <3>2
  <2>2. Max({1}) = 1
    <3>1. {1} \subseteq 1 .. 1 /\ {1} # {} /\ 1 \in Nat
      OBVIOUS
    <3>2. Max({1}) \in {1}
      BY <3>1, ArgMaxIs
    <3> QED  BY <3>2
  <2> HIDE DEF N
  <2> QED  BY <1>3, <2>1, <2>2
<1> HIDE DEF A, B, N
<1> DEFINE D == {s[k].text : k \in A}
           F == {w[k].text : k \in B}
           x == [o \in {"server"} |-> "x"]
<1>9. DOMAIN v = D /\ DOMAIN u = F /\ DOMAIN x = {"server"} /\ F = D \cup {"server"} /\ x["server"] = "x"
  BY <1>5, <1>6
<1>10. \A o \in D : v[o] = ArgValue(s, options, Max(N(s, o)))
  BY <1>5
<1>11. \A o \in F : u[o] = ArgValue(w, options, Max(N(w, o)))
  BY <1>5
<1>12. \A o \in D : ArgValue(w, options, Max(N(w, o))) = ArgValue(s, options, Max(N(s, o)))
  BY <1>7
<1>13. "server" \notin D => ArgValue(w, options, Max(N(w, "server"))) = "x"
  BY <1>8
<1> HIDE DEF D, F
<1>14. ASSUME NEW o \in F PROVE u[o] = IF o \in DOMAIN v THEN v[o] ELSE x[o]
  <2>1. CASE o \in D
    <3>1. v[o] = ArgValue(s, options, Max(N(s, o)))
      BY <1>10, <2>1
    <3>2. u[o] = ArgValue(w, options, Max(N(w, o)))
      BY <1>11
    <3>3. ArgValue(w, options, Max(N(w, o))) = ArgValue(s, options, Max(N(s, o)))
      BY <1>12, <2>1
    <3> HIDE DEF v, u, x
    <3> QED  BY <1>9, <2>1, <3>1, <3>2, <3>3
  <2>2. CASE o \notin D
    <3>1. o = "server"
      BY <1>9, <2>2
    <3>2. u[o] = ArgValue(w, options, Max(N(w, o)))
      BY <1>11
    <3> HIDE DEF v, u, x
    <3> QED  BY <1>9, <1>13, <2>2, <3>1, <3>2
  <2> QED  BY <2>1, <2>2
<1>15. u = [o \in F |-> u[o]]
  BY <1>5 DEF F
<1> HIDE DEF v, u, x
<1>16. ArgBoth(v, x) = [o \in F |-> IF o \in DOMAIN v THEN v[o] ELSE x[o]]
  BY <1>9 DEF ArgBoth
<1>17. u = ArgBoth(v, x)
  BY <1>14, <1>15, <1>16
<1> QED  BY <1>17 DEF u, v, w, x

(* The options that a command takes. *)
ArgOptionsOf(command) == ArgBoth(ArgGlobal, command.options)

(* Every command has the global options, --server as a string. *)
LEMMA ArgOptionsAre ==
    ASSUME NEW command
    PROVE  /\ ArgHasServer(ArgOptionsOf(command))
           /\ DOMAIN ArgOptionsOf(command) = {"server", "json", "help"} \cup DOMAIN command.options
<1>1. DOMAIN ArgGlobal = {"server", "json", "help"} /\ ArgGlobal["server"] = "string"
  BY DEF ArgGlobal, ArgBoth, ArgStrings, ArgFlags
<1> QED  BY <1>1 DEF ArgHasServer, ArgOptionsOf, ArgBoth

(* What is run, and what that took. *)
LEMMA ArgRunIs ==
    ASSUME NEW command, NEW rest, ArgRun(command, rest).kind = "run"
    PROVE  LET options == ArgOptionsOf(command)
               tokens == ArgExpand(rest, options)
           IN /\ \A k \in ArgGiven(tokens) : ArgKnown(tokens, options, k)
              /\ "help" \notin DOMAIN ArgValues(tokens, options)
              /\ ArgCountOk(command, Len(ArgPositionals(tokens, options)))
              /\ ArgRun(command, rest) = [kind |-> "run", command |-> command.name,
                                          args |-> ArgPositionals(tokens, options),
                                          options |-> ArgValues(tokens, options)]
<1> DEFINE options == ArgOptionsOf(command)
           tokens == ArgExpand(rest, options)
           values == ArgValues(tokens, options)
           args == ArgPositionals(tokens, options)
           wrong == \E k \in ArgGiven(tokens) : ~ArgKnown(tokens, options, k)
           helped == "help" \in DOMAIN values
           counted == ArgCountOk(command, Len(args))
           result == [kind |-> "run", command |-> command.name, args |-> args, options |-> values]
<1>1. ArgRun(command, rest) = IF wrong THEN ArgResult("usage") ELSE IF helped THEN ArgResult("help")
                              ELSE IF ~counted THEN ArgResult("usage") ELSE result
  BY DEF ArgRun, ArgOptionsOf
<1>2. ArgResult("usage").kind # "run" /\ ArgResult("help").kind # "run"
  BY DEF ArgResult
<1> HIDE DEF wrong, helped, counted, result
<1>3. ~wrong /\ ~helped /\ counted /\ ArgRun(command, rest) = result
  BY <1>1, <1>2
<1> QED  BY <1>3 DEF wrong, helped, counted, result

(* ... and what makes it. *)
LEMMA ArgRunMade ==
    ASSUME NEW command, NEW rest,
           LET options == ArgOptionsOf(command)
               tokens == ArgExpand(rest, options)
           IN /\ \A k \in ArgGiven(tokens) : ArgKnown(tokens, options, k)
              /\ "help" \notin DOMAIN ArgValues(tokens, options)
              /\ ArgCountOk(command, Len(ArgPositionals(tokens, options)))
    PROVE  LET options == ArgOptionsOf(command)
               tokens == ArgExpand(rest, options)
           IN ArgRun(command, rest) = [kind |-> "run", command |-> command.name,
                                       args |-> ArgPositionals(tokens, options),
                                       options |-> ArgValues(tokens, options)]
  BY DEF ArgRun, ArgOptionsOf

(* A line that is run has a command, which is parsed with the rest. *)
LEMMA ArgInvocationIs ==
    ASSUME NEW s \in Seq(ArgTokens), ArgInvocation(s).kind = "run"
    PROVE  /\ s # <<>> /\ ArgFind(s) # <<>>
           /\ ArgInvocation(s) = ArgRun(ArgCommandAt(s, ArgFind(s)), ArgKept(s, DOMAIN s \ ArgPlaces(ArgFind(s))))
<1> DEFINE at == ArgFind(s)
           run == ArgRun(ArgCommandAt(s, at), ArgKept(s, DOMAIN s \ ArgPlaces(at)))
           asks == ArgWordIndexes(s) = {} /\ \E k \in DOMAIN s : s[k] = ArgOption("help")
           found == Len(s) = 1 \/ ArgFind(Tail(s)) # <<>>
<1>1. ArgInvocation(s) = IF s = <<>> THEN ArgResult("help")
                         ELSE IF s[1] = ArgWord("help") THEN ArgResult(IF found THEN "help" ELSE "usage")
                         ELSE IF at = <<>> THEN ArgResult(IF asks THEN "help" ELSE "usage")
                         ELSE run
  BY DEF ArgInvocation
<1>2. \A kind : ArgResult(kind).kind = kind
  BY DEF ArgResult
<1> HIDE DEF at, run, asks, found
<1>3. ArgResult("help").kind # "run" /\ ArgResult("usage").kind # "run"
  BY <1>2
<1>4. s # <<>> /\ at # <<>> /\ ArgInvocation(s) = run
  BY <1>1, <1>3
<1> QED  BY <1>4 DEF at, run

(* The rest is run the same with --server x in front. *)
LEMMA ArgRunShift ==
    ASSUME NEW command, NEW rest \in Seq(ArgTokens), ArgRun(command, rest).kind = "run"
    PROVE  ArgRun(command, ArgFronted(rest))
             = [ArgRun(command, rest) EXCEPT !.options = ArgBoth(ArgRun(command, rest).options, [o \in {"server"} |-> "x"])]
<1> DEFINE options == ArgOptionsOf(command)
           s == ArgExpand(rest, options)
           w == ArgExpand(ArgFronted(rest), options)
           x == [o \in {"server"} |-> "x"]
<1>1. ArgHasServer(options)
  BY ArgOptionsAre
<1>2. s \in Seq(ArgTokens) /\ w = ArgFronted(s)
  BY <1>1, ArgExpandShift
<1>3. /\ \A k \in ArgGiven(s) : ArgKnown(s, options, k)
      /\ "help" \notin DOMAIN ArgValues(s, options)
      /\ ArgCountOk(command, Len(ArgPositionals(s, options)))
      /\ ArgRun(command, rest) = [kind |-> "run", command |-> command.name,
                                  args |-> ArgPositionals(s, options), options |-> ArgValues(s, options)]
  BY ArgRunIs
<1> HIDE DEF options, s
<1>4. ASSUME NEW k \in ArgGiven(w) PROVE ArgKnown(w, options, k)
  <2>1. ArgGiven(s) \in SUBSET (1 .. Len(s))
    BY <1>2, ArgGivenShift
  <2>2. k = 1 \/ (k - 2 \in ArgGiven(s) /\ (k - 2) + 2 = k)
    BY <1>2, <1>4, ArgGivenShift
  <2>3. /\ ArgKnown(ArgFronted(s), options, 1)
        /\ \A i \in 1 .. Len(s) : ArgKnown(ArgFronted(s), options, i + 2) <=> ArgKnown(s, options, i)
    BY <1>1, <1>2, ArgKnownShift
  <2> QED  BY <1>2, <1>3, <2>1, <2>2, <2>3
<1>5. ArgValues(w, options) = ArgBoth(ArgValues(s, options), x)
  BY <1>1, <1>2, ArgValuesShift
<1>6. "help" \notin DOMAIN ArgValues(w, options)
  <2>1. DOMAIN ArgBoth(ArgValues(s, options), x) = DOMAIN ArgValues(s, options) \cup {"server"}
    BY DEF ArgBoth
  <2> QED  BY <1>3, <1>5, <2>1
<1>7. ArgPositionals(w, options) = ArgPositionals(s, options)
  BY <1>1, <1>2, ArgPositionalsShift
<1>8. ArgRun(command, ArgFronted(rest)) = [kind |-> "run", command |-> command.name,
                                           args |-> ArgPositionals(w, options), options |-> ArgValues(w, options)]
  <2>1. ArgCountOk(command, Len(ArgPositionals(w, options)))
    BY <1>3, <1>7
  <2> QED  BY <1>4, <1>6, <2>1, ArgRunMade DEF options
<1> QED  BY <1>3, <1>5, <1>7, <1>8

(* A line that is run is run the same with --server x in front. *)
LEMMA ArgServerFirst ==
    ASSUME NEW s \in Seq(ArgTokens), ArgInvocation(s).kind = "run"
    PROVE  ArgInvocation(ArgFronted(s))
             = [ArgInvocation(s) EXCEPT !.options = ArgBoth(ArgInvocation(s).options, [o \in {"server"} |-> "x"])]
<1> DEFINE w == ArgFronted(s)
           p == ArgFind(s)
           q == ArgFind(w)
           command == ArgCommandAt(s, p)
           rest == ArgKept(s, DOMAIN s \ ArgPlaces(p))
<1>1. p # <<>> /\ ArgInvocation(s) = ArgRun(command, rest)
  BY ArgInvocationIs
<1>2. q # <<>> /\ ArgCommandAt(w, q) = command
  BY <1>1, ArgCommandShift
<1>3. ArgKept(w, DOMAIN w \ ArgPlaces(q)) = ArgFronted(rest)
  BY <1>1, ArgRestShift
<1>4. rest \in Seq(ArgTokens)
  BY ArgKeptPlaces
<1>5. w # <<>> /\ w[1] # ArgWord("help")
  <2>1. Len(w) = Len(s) + 2 /\ Len(s) \in Nat /\ w[1] = ArgServer
    BY ArgFrontedIs
  <2>2. ArgServer # ArgWord("help")
    BY ArgServerIs DEF ArgToken, ArgWord
  <2> HIDE DEF w
  <2>3. w # <<>>
    BY <2>1
  <2> QED  BY <2>1, <2>2, <2>3
<1>6. ArgInvocation(w) = ArgRun(ArgCommandAt(w, q), ArgKept(w, DOMAIN w \ ArgPlaces(q)))
  BY <1>2, <1>5 DEF ArgInvocation
<1> HIDE DEF w, p, q, command, rest
<1>7. ArgInvocation(w) = ArgRun(command, ArgFronted(rest))
  BY <1>2, <1>3, <1>6
<1>8. ArgRun(command, ArgFronted(rest))
        = [ArgRun(command, rest) EXCEPT !.options = ArgBoth(ArgRun(command, rest).options, [o \in {"server"} |-> "x"])]
  BY <1>1, <1>4, ArgRunShift
<1> QED  BY <1>1, <1>7, <1>8 DEF w

(* The command found has the name that was found. *)
LEMMA ArgCommandIs ==
    ASSUME NEW s \in Seq(ArgTokens), ArgFind(s) # <<>>
    PROVE  /\ ArgCommandAt(s, ArgFind(s)) \in ArgNamed(ArgCommandAt(s, ArgFind(s)).name)
           /\ Len(ArgCommandAt(s, ArgFind(s)).name) = Len(ArgFind(s))
<1> DEFINE at == ArgFind(s)
           name == [k \in 1 .. Len(at) |-> s[at[k]].text]
           c == ArgCommandAt(s, at)
<1>1. Len(at) \in {1, 2} /\ ArgNamed(name) # {}
  BY ArgFindIs
<1>2. c \in ArgNamed(name)
  <2> HIDE DEF name
  <2>1. c = CHOOSE d \in ArgNamed(name) : TRUE
    BY DEF ArgCommandAt, name
  <2> QED  BY <1>1, <2>1
<1> HIDE DEF at, c
<1>3. Len(name) = Len(at)
  BY <1>1
<1> HIDE DEF name
<1>4. c.name = name /\ c \in ArgNamed(c.name)
  BY <1>2 DEF ArgNamed
<1> QED  BY <1>3, <1>4 DEF at, c

(* What is run is a command with as many arguments as it takes and its options. *)
LEMMA ArgRunTyped ==
    ASSUME NEW s \in Seq(ArgTokens), ArgInvocation(s).kind = "run"
    PROVE  LET i == ArgInvocation(s) IN
           \E c \in ArgNamed(i.command) :
             /\ c.least <= Len(i.args) /\ Len(i.args) <= c.most
             /\ DOMAIN i.options \subseteq DOMAIN c.options \cup {"server", "json"}
<1> DEFINE c == ArgCommandAt(s, ArgFind(s))
           rest == ArgKept(s, DOMAIN s \ ArgPlaces(ArgFind(s)))
           options == ArgOptionsOf(c)
           t == ArgExpand(rest, options)
           values == ArgValues(t, options)
           args == ArgPositionals(t, options)
<1>1. ArgFind(s) # <<>> /\ ArgInvocation(s) = ArgRun(c, rest)
  BY ArgInvocationIs
<1>2. c \in ArgNamed(c.name)
  BY <1>1, ArgCommandIs
<1> HIDE DEF c, rest
<1>3. /\ \A k \in ArgGiven(t) : ArgKnown(t, options, k)
      /\ "help" \notin DOMAIN values /\ ArgCountOk(c, Len(args))
      /\ ArgRun(c, rest) = [kind |-> "run", command |-> c.name, args |-> args, options |-> values]
  BY <1>1, ArgRunIs
<1>4. DOMAIN options = {"server", "json", "help"} \cup DOMAIN c.options
  BY ArgOptionsAre
<1>5. DOMAIN values = {t[k].text : k \in ArgGiven(t)}
  BY DEF ArgValues
<1> HIDE DEF options, t, values, args
<1>6. ASSUME NEW o \in DOMAIN values PROVE o \in DOMAIN options
  <2>1. PICK k \in ArgGiven(t) : o = t[k].text
    BY <1>5
  <2> QED  BY <1>3, <2>1 DEF ArgKnown
<1>7. DOMAIN values \subseteq DOMAIN c.options \cup {"server", "json"}
  BY <1>3, <1>4, <1>6
<1>8. c.least <= Len(args) /\ Len(args) <= c.most
  BY <1>3 DEF ArgCountOk
<1> QED  BY <1>1, <1>2, <1>3, <1>7, <1>8

(* Counting: sets that a function makes one another are of one size. *)
LEMMA ArgSameSize ==
    ASSUME NEW n \in Nat, NEW S \in SUBSET (1 .. n), NEW T, NEW f \in [S -> T],
           \A a, b \in S : f[a] = f[b] => a = b, \A y \in T : \E a \in S : f[a] = y
    PROVE  IsFiniteSet(S) /\ IsFiniteSet(T) /\ Cardinality(S) = Cardinality(T) /\ Cardinality(S) \in Nat
<1>1. IsFiniteSet(S)
  <2>1. IsFiniteSet(1 .. n)
    BY FS_Interval
  <2> QED  BY <2>1, FS_Subset
<1>2. f \in Bijection(S, T)
  BY DEF Bijection, Injection, Surjection, IsInjective
<1>3. ExistsBijection(S, T)
  BY <1>2 DEF ExistsBijection
<1>4. IsFiniteSet(T) /\ Cardinality(T) = Cardinality(S)
  BY <1>1, <1>3, FS_Bijection
<1>5. Cardinality(S) \in Nat
  BY <1>1, FS_CardinalityType
<1> QED  BY <1>1, <1>4, <1>5

(* Two parts of a set of numbers are together as large as it. *)
LEMMA ArgPartsSize ==
    ASSUME NEW n \in Nat, NEW A \in SUBSET (1 .. n), NEW B \in SUBSET (1 .. n), A \cap B = {}
    PROVE  /\ Cardinality(A \cup B) = Cardinality(A) + Cardinality(B)
           /\ Cardinality(A) \in Nat /\ Cardinality(B) \in Nat
<1>1. IsFiniteSet(1 .. n)
  BY FS_Interval
<1>2. IsFiniteSet(A) /\ IsFiniteSet(B)
  BY <1>1, FS_Subset
<1>3. Cardinality(A) \in Nat /\ Cardinality(B) \in Nat
  BY <1>2, FS_CardinalityType
<1>4. Cardinality(A \cup B) = Cardinality(A) + Cardinality(B) - Cardinality(A \cap B)
  BY <1>2, FS_Union
<1>5. Cardinality(A \cap B) = 0
  BY FS_EmptySet
<1> QED  BY <1>3, <1>4, <1>5

(* As many tokens are kept as there are places, and as many words as there are
   places of words. *)
LEMMA ArgKeptSize ==
    ASSUME NEW s \in Seq(ArgTokens), NEW out \in Seq(ArgTokens), NEW J \in SUBSET (1 .. Len(s)), NEW e,
           ArgOrder(e, out, s, J)
    PROVE  /\ Len(out) = Cardinality(J)
           /\ Cardinality(ArgWordsOf(out)) = Cardinality({k \in J : s[k].kind = "word"})
<1> DEFINE l == Len(out)
           W == ArgWordsOf(out)
           V == {k \in J : s[k].kind = "word"}
           d == [i \in W |-> e[i]]
<1>1. Len(s) \in Nat /\ l \in Nat /\ DOMAIN out = 1 .. l
  OBVIOUS
<1>2. /\ e \in [1 .. l -> J] /\ \A i \in 1 .. l : out[i] = s[e[i]]
      /\ \A i, j \in 1 .. l : i < j => e[i] < e[j]
      /\ \A k \in J : \E i \in 1 .. l : e[i] = k
  BY DEF ArgOrder
<1>3. \A i \in 1 .. l : e[i] \in J /\ e[i] \in Nat
  <2>1. J \subseteq Nat
    OBVIOUS
  <2> HIDE DEF l
  <2> QED  BY <1>2, <2>1
<1> HIDE DEF l
<1>4. ASSUME NEW a \in 1 .. l, NEW b \in 1 .. l, e[a] = e[b] PROVE a = b
  <2>1. ~(a < b) /\ ~(b < a)
    BY <1>2, <1>3, <1>4
  <2> QED  BY <1>1, <2>1
<1>5. Len(out) = Cardinality(J)
  <2> DEFINE I == 1 .. l
  <2>1. I \in SUBSET (1 .. l)
    OBVIOUS
  <2>2. \A a, b \in I : e[a] = e[b] => a = b
    BY <1>4
  <2>3. e \in [I -> J] /\ \A k \in J : \E i \in I : e[i] = k
    BY <1>2
  <2>4. Cardinality(I) = l
    BY <1>1, FS_Interval
  <2> HIDE DEF I
  <2>5. \A n \in Nat : \A S \in SUBSET (1 .. n) : \A f \in [S -> J] :
          (\A a, b \in S : f[a] = f[b] => a = b) /\ (\A y \in J : \E a \in S : f[a] = y)
            => Cardinality(S) = Cardinality(J)
    BY ArgSameSize
  <2>6. Cardinality(I) = Cardinality(J)
    BY <1>1, <2>1, <2>2, <2>3, <2>5
  <2> QED  BY <2>4, <2>6 DEF l
<1>6. W \in SUBSET (1 .. l)
  BY <1>1 DEF ArgWordsOf
<1>7. \A i \in 1 .. l : i \in W <=> out[i].kind = "word"
  BY <1>1 DEF ArgWordsOf
<1> HIDE DEF W
<1>8. d \in [W -> V]
  <2>1. ASSUME NEW i \in W PROVE e[i] \in V
    <3>1. i \in 1 .. l
      BY <1>6
    <3> QED  BY <1>2, <1>3, <1>7, <3>1
  <2> HIDE DEF V
  <2> QED  BY <2>1
<1>9. \A a, b \in W : d[a] = d[b] => a = b
  BY <1>4, <1>6
<1>10. ASSUME NEW k \in V PROVE \E i \in W : d[i] = k
  <2>1. PICK i \in 1 .. l : e[i] = k
    BY <1>2
  <2>2. i \in W
    BY <1>2, <1>7, <2>1
  <2> QED  BY <2>1, <2>2
<1> HIDE DEF d, V
<1>11. Cardinality(W) = Cardinality(V)
  BY <1>1, <1>6, <1>8, <1>9, <1>10, ArgSameSize
<1> QED  BY <1>5, <1>11 DEF V, W

(* A line of words and options, none of which is there twice. *)
ArgPlainLine(r) ==
  /\ r \in Seq(ArgTokens)
  /\ \A k \in 1 .. Len(r) : (r[k].kind = "word" /\ r[k].text \in ArgWords) \/ r[k].kind = "option"
  /\ \A j, k \in 1 .. Len(r) : j # k /\ r[j].kind = "option" /\ r[k].kind = "option" => r[j].text # r[k].text

(* Without --, and no option twice, what may be typed is such a line. *)
LEMMA ArgTypedPlain ==
    ASSUME NEW s \in Seq(ArgTyped), \A k \in DOMAIN s : s[k] # ArgOption("--"),
           \A j, k \in DOMAIN s : j # k /\ s[j].kind = "option" => s[k] # s[j]
    PROVE  ArgPlainLine(s)
<1>1. s \in Seq(ArgTokens) /\ DOMAIN s = 1 .. Len(s)
  BY ArgTokensTyped
<1>2. ASSUME NEW k \in 1 .. Len(s)
      PROVE  \/ s[k].kind = "word" /\ s[k].text \in ArgWords
             \/ s[k] = ArgToken("option", s[k].text, ArgNone)
  <2>1. s[k] \in ArgTyped
    OBVIOUS
  <2>2. CASE \E w \in ArgWords : s[k] = ArgWord(w)
    BY <2>2 DEF ArgWord, ArgToken
  <2>3. CASE \E o \in ArgOptions : s[k] = ArgOption(o)
    <3>1. PICK o \in ArgOptions : s[k] = ArgOption(o)
      BY <2>3
    <3>2. o # "--"
      BY <1>1, <3>1
    <3>3. s[k] = ArgToken("option", o, ArgNone)
      BY <3>1, <3>2 DEF ArgOption
    <3> QED  BY <3>3 DEF ArgToken
  <2> QED  BY <2>1, <2>2, <2>3 DEF ArgTyped
<1>3. \A k \in 1 .. Len(s) : (s[k].kind = "word" /\ s[k].text \in ArgWords) \/ s[k].kind = "option"
  <2>1. \A t : ArgToken("option", t, ArgNone).kind = "option"
    BY DEF ArgToken
  <2> QED  BY <1>2, <2>1
<1>4. ASSUME NEW j \in 1 .. Len(s), NEW k \in 1 .. Len(s), j # k, s[j].kind = "option", s[k].kind = "option"
      PROVE  s[j].text # s[k].text
  <2>1. s[j] = ArgToken("option", s[j].text, ArgNone) /\ s[k] = ArgToken("option", s[k].text, ArgNone)
    BY <1>2, <1>4
  <2>2. s[k] # s[j]
    BY <1>1, <1>4
  <2> QED  BY <2>1, <2>2
<1> QED  BY <1>1, <1>3, <1>4 DEF ArgPlainLine

(* What is kept of it is one. *)
LEMMA ArgKeptPlain ==
    ASSUME NEW s, ArgPlainLine(s), NEW K
    PROVE  ArgPlainLine(ArgKept(s, K))
<1> DEFINE r == ArgKept(s, K)
<1>1. s \in Seq(ArgTokens)
  BY DEF ArgPlainLine
<1>2. r \in Seq(ArgTokens) /\ \E e : ArgOrder(e, r, s, K \cap (1 .. Len(s)))
  BY <1>1, ArgKeptPlaces
<1>3. PICK e : ArgOrder(e, r, s, K \cap (1 .. Len(s)))
  BY <1>2
<1> HIDE DEF r
<1>4. \A i \in 1 .. Len(r) : e[i] \in 1 .. Len(s) /\ r[i] = s[e[i]]
  BY <1>3 DEF ArgOrder
<1>5. ASSUME NEW i \in 1 .. Len(r), NEW j \in 1 .. Len(r), i # j PROVE e[i] # e[j]
  <2>1. i < j \/ j < i
    BY <1>2, <1>5
  <2>2. e[i] < e[j] \/ e[j] < e[i]
    BY <1>3, <2>1 DEF ArgOrder
  <2>3. e[i] \in Nat /\ e[j] \in Nat
    BY <1>4
  <2> QED  BY <2>2, <2>3
<1>6. \A i \in 1 .. Len(r) : (r[i].kind = "word" /\ r[i].text \in ArgWords) \/ r[i].kind = "option"
  BY <1>4 DEF ArgPlainLine
<1>7. ASSUME NEW i \in 1 .. Len(r), NEW j \in 1 .. Len(r), i # j, r[i].kind = "option", r[j].kind = "option"
      PROVE  r[i].text # r[j].text
  <2>1. e[i] # e[j] /\ e[i] \in 1 .. Len(s) /\ e[j] \in 1 .. Len(s) /\ r[i] = s[e[i]] /\ r[j] = s[e[j]]
    BY <1>4, <1>5, <1>7
  <2> QED  BY <1>7, <2>1 DEF ArgPlainLine
<1> QED  BY <1>2, <1>6, <1>7 DEF ArgPlainLine, r

(* The words of the command and the rest are those of the line. *)
LEMMA ArgRestSize ==
    ASSUME NEW s \in Seq(ArgTokens), ArgFind(s) # <<>>
    PROVE  LET rest == ArgKept(s, DOMAIN s \ ArgPlaces(ArgFind(s)))
           IN /\ Cardinality(ArgWordsOf(s)) = Len(ArgFind(s)) + Cardinality(ArgWordsOf(rest))
              /\ Cardinality(ArgWordsOf(rest)) \in Nat
<1> DEFINE at == ArgFind(s)
           P == ArgPlaces(at)
           rest == ArgKept(s, DOMAIN s \ P)
           W == ArgWordsOf(s)
           J == (DOMAIN s \ P) \cap (1 .. Len(s))
           V == {k \in J : s[k].kind = "word"}
<1>1. Len(s) \in Nat /\ DOMAIN s = 1 .. Len(s)
  OBVIOUS
<1>2. rest \in Seq(ArgTokens) /\ \E e : ArgOrder(e, rest, s, J)
  BY ArgKeptPlaces
<1>3. J \in SUBSET (1 .. Len(s))
  OBVIOUS
<1>4. Cardinality(ArgWordsOf(rest)) = Cardinality(V)
  <2>1. PICK e : ArgOrder(e, rest, s, J)
    BY <1>2
  <2> HIDE DEF J, rest
  <2> QED  BY <1>2, <1>3, <2>1, ArgKeptSize
<1>5. /\ at \in Seq(1 .. Len(s)) /\ Len(at) \in {1, 2} /\ (Len(at) = 2 => at[1] # at[2])
      /\ \A k \in 1 .. Len(at) : at[k] \in ArgWordIndexes(s)
  BY ArgFindIs
<1>6. ArgWordIndexes(s) \subseteq W
  BY DEF ArgWordIndexes, ArgWordsOf
<1> HIDE DEF at, rest
<1>7. P \subseteq W
  BY <1>5, <1>6 DEF ArgPlaces
<1>8. W \in SUBSET (1 .. Len(s))
  BY <1>1 DEF ArgWordsOf
<1>9. W = P \cup V /\ P \cap V = {}
  <2>1. ASSUME NEW k \in W PROVE k \in P \cup V
    <3>1. k \in 1 .. Len(s) /\ k \in DOMAIN s /\ s[k].kind = "word"
      BY <1>1 DEF ArgWordsOf
    <3> HIDE DEF P, W
    <3> QED  BY <3>1
  <2>2. ASSUME NEW k \in V PROVE k \in W /\ k \notin P
    BY <1>1 DEF ArgWordsOf
  <2> HIDE DEF P, W, V
  <2> QED  BY <1>7, <2>1, <2>2
<1>10. Cardinality(W) = Cardinality(P) + Cardinality(V) /\ Cardinality(V) \in Nat
  <2>1. P \in SUBSET (1 .. Len(s)) /\ V \in SUBSET (1 .. Len(s))
    BY <1>7, <1>8, <1>9
  <2> HIDE DEF P, W, V
  <2>2. /\ Cardinality(P \cup V) = Cardinality(P) + Cardinality(V)
        /\ Cardinality(P) \in Nat /\ Cardinality(V) \in Nat
    BY <1>1, <1>9, <2>1, ArgPartsSize
  <2> QED  BY <1>9, <2>2
<1> HIDE DEF W, V
<1>11. Cardinality(P) = Len(at)
  <2>1. CASE Len(at) = 1
    <3>1. P = {at[1]}
      <4>1. 1 .. Len(at) = {1}
        BY <2>1
      <4> QED  BY <4>1 DEF ArgPlaces
    <3>2. Cardinality({at[1]}) = 1
      BY FS_Singleton
    <3> QED  BY <2>1, <3>1, <3>2
  <2>2. CASE Len(at) = 2
    <3>1. P = {at[1]} \cup {at[2]}
      <4>1. 1 .. Len(at) = {1, 2}
        BY <2>2
      <4> QED  BY <4>1 DEF ArgPlaces
    <3>2. IsFiniteSet({at[1]}) /\ Cardinality({at[1]}) = 1
      BY FS_Singleton
    <3>3. Cardinality({at[1]} \cup {at[2]}) = 2
      <4>1. at[2] \notin {at[1]}
        BY <1>5, <2>2
      <4>2. Cardinality({at[1]} \cup {at[2]}) = IF at[2] \in {at[1]} THEN Cardinality({at[1]}) ELSE Cardinality({at[1]}) + 1
        BY <3>2, FS_AddElement
      <4> QED  BY <3>2, <4>1, <4>2
    <3> QED  BY <2>2, <3>1, <3>3
  <2> QED  BY <1>5, <2>1, <2>2
<1> QED  BY <1>4, <1>10, <1>11 DEF W, at, rest

(* Words that become optional values, words that are values of the option before
   them, options of a kind whose value is a word. *)
ArgTakenAt(r, options) == {k \in 1 .. Len(r) : ArgTaken(r, options, k)}
ArgValueAt(e, options) == {k \in 1 .. Len(e) : ArgIsValue(e, options, k)}
ArgUsed(e, options, kind) == {k \in 1 .. Len(e) : e[k].kind = kind /\ ArgValue(e, options, k) \in ArgWords}

(* A line with the values of its optional values in it. *)
ArgExpandedLine(e) ==
  /\ e \in Seq(ArgTokens)
  /\ \A k \in 1 .. Len(e) : \/ e[k].kind = "word" /\ e[k].text \in ArgWords
                            \/ e[k].kind = "option" \/ e[k].kind = "equals"
  /\ \A j, k \in 1 .. Len(e) : j # k /\ e[j].kind # "word" /\ e[k].kind # "word" => e[j].text # e[k].text

(* The tokens of a plain line r at the places f[i], with their values, are e. *)
ArgExpandedBy(e, f, r, options) ==
  /\ e \in Seq(ArgTokens)
  /\ \A i \in 1 .. Len(e) : f[i] \in 1 .. Len(r) /\ ~ArgTaken(r, options, f[i]) /\ e[i] = ArgGiveValue(r, options, f[i])
  /\ \A i, j \in 1 .. Len(e) : f[i] = f[j] => i = j
  /\ \A k \in 1 .. Len(r) : ~ArgTaken(r, options, k) => \E i \in 1 .. Len(e) : f[i] = k

(* Only an option with an optional value gets one: the word after it, or its default. *)
LEMMA ArgGiveValueIs ==
    ASSUME NEW r, ArgPlainLine(r), NEW options, NEW k \in 1 .. Len(r)
    PROVE  /\ ArgOptional(r[k], options) =>
                /\ r[k].kind = "option" /\ ArgGiveValue(r, options, k).kind = "equals"
                /\ ArgGiveValue(r, options, k).text = r[k].text
                /\ ArgIs(r, k + 1, "word") => ArgGiveValue(r, options, k).value = r[k + 1].text
                /\ ~ArgIs(r, k + 1, "word") => ArgGiveValue(r, options, k).value = ArgDefault
           /\ ~ArgOptional(r[k], options) => ArgGiveValue(r, options, k) = r[k]
           /\ ArgGiveValue(r, options, k).kind = "word" <=> r[k].kind = "word"
           /\ ArgGiveValue(r, options, k).kind = "equals" <=> ArgOptional(r[k], options)
           /\ ArgGiveValue(r, options, k).text = r[k].text
<1> DEFINE v == IF ArgIs(r, k + 1, "word") THEN r[k + 1].text ELSE ArgDefault
<1>1. /\ ArgOptional(r[k], options) => ArgGiveValue(r, options, k) = ArgToken("equals", r[k].text, v)
      /\ ~ArgOptional(r[k], options) => ArgGiveValue(r, options, k) = r[k]
  BY DEF ArgGiveValue
<1>2. /\ ArgIs(r, k + 1, "word") => v = r[k + 1].text
      /\ ~ArgIs(r, k + 1, "word") => v = ArgDefault
  OBVIOUS
<1> HIDE DEF v
<1>3. /\ ArgToken("equals", r[k].text, v).kind = "equals" /\ ArgToken("equals", r[k].text, v).text = r[k].text
      /\ ArgToken("equals", r[k].text, v).value = v
  BY DEF ArgToken
<1>4. r[k].kind = "word" \/ r[k].kind = "option"
  BY DEF ArgPlainLine
<1>5. ArgOptional(r[k], options) => r[k].kind = "option"
  BY DEF ArgOptional
<1>6. CASE ArgOptional(r[k], options)
  <2>1. ArgGiveValue(r, options, k) = ArgToken("equals", r[k].text, v)
    BY <1>1, <1>6
  <2> QED  BY <1>2, <1>3, <1>5, <1>6, <2>1
<1>7. CASE ~ArgOptional(r[k], options)
  <2>1. ArgGiveValue(r, options, k) = r[k]
    BY <1>1, <1>7
  <2> QED  BY <1>4, <1>7, <2>1
<1> QED  BY <1>6, <1>7

(* The expansion takes the words after options with optional values, and leaves the rest. *)
LEMMA ArgExpandIs ==
    ASSUME NEW r, ArgPlainLine(r), NEW options
    PROVE  /\ \E f : ArgExpandedBy(ArgExpand(r, options), f, r, options)
           /\ Cardinality(ArgWordsOf(r)) = Cardinality(ArgTakenAt(r, options)) + Cardinality(ArgWordsOf(ArgExpand(r, options)))
           /\ Cardinality(ArgTakenAt(r, options)) \in Nat
<1> DEFINE m == [k \in DOMAIN r |-> ArgGiveValue(r, options, k)]
           K == {k \in DOMAIN r : ~ArgTaken(r, options, k)}
           J == K \cap (1 .. Len(r))
           e == ArgExpand(r, options)
           W == ArgWordsOf(r)
           T == ArgTakenAt(r, options)
           V == {k \in J : m[k].kind = "word"}
<1>1. r \in Seq(ArgTokens) /\ Len(r) \in Nat /\ DOMAIN r = 1 .. Len(r)
  BY DEF ArgPlainLine
<1>2. e = ArgKept(m, K)
  BY DEF ArgExpand
<1>3. m \in Seq(ArgTokens) /\ Len(m) = Len(r) /\ \A k \in 1 .. Len(r) : m[k] = ArgGiveValue(r, options, k)
  <2>1. \A k \in 1 .. Len(r) : ArgGiveValue(r, options, k) \in ArgTokens
    BY <1>1, ArgGiveValueType
  <2> QED  BY <1>1, <2>1
<1>4. \A k \in 1 .. Len(r) : k \in J <=> ~ArgTaken(r, options, k)
  BY <1>1
<1>5. J \in SUBSET (1 .. Len(r))
  OBVIOUS
<1> HIDE DEF m
<1>6. e \in Seq(ArgTokens) /\ \E f : ArgOrder(f, e, m, J)
  BY <1>2, <1>3, ArgKeptPlaces
<1>7. PICK f : ArgOrder(f, e, m, J)
  BY <1>6
<1> HIDE DEF J, K, e
<1>8. ArgExpandedBy(e, f, r, options)
  <2>1. ASSUME NEW i \in 1 .. Len(e)
        PROVE  f[i] \in 1 .. Len(r) /\ ~ArgTaken(r, options, f[i]) /\ e[i] = ArgGiveValue(r, options, f[i])
    <3>1. f[i] \in J /\ e[i] = m[f[i]]
      BY <1>7 DEF ArgOrder
    <3> QED  BY <1>3, <1>4, <1>5, <3>1
  <2>2. ASSUME NEW i \in 1 .. Len(e), NEW j \in 1 .. Len(e), f[i] = f[j] PROVE i = j
    <3>1. f[i] \in Nat
      BY <2>1
    <3>2. ~(i < j) /\ ~(j < i)
      BY <1>7, <2>2, <3>1 DEF ArgOrder
    <3>3. Len(e) \in Nat
      BY <1>6
    <3> QED  BY <3>2, <3>3
  <2>3. ASSUME NEW k \in 1 .. Len(r), ~ArgTaken(r, options, k) PROVE \E i \in 1 .. Len(e) : f[i] = k
    <3>1. k \in J
      BY <1>4, <2>3
    <3> QED  BY <1>7, <3>1 DEF ArgOrder
  <2> QED  BY <1>6, <2>1, <2>2, <2>3 DEF ArgExpandedBy
<1>9. Cardinality(ArgWordsOf(e)) = Cardinality(V)
  <2>1. J \in SUBSET (1 .. Len(m))
    BY <1>3, <1>5
  <2>2. m \in Seq(ArgTokens)
    BY <1>3
  <2> QED  BY <1>6, <1>7, <2>1, <2>2, ArgKeptSize
<1>10. ASSUME NEW k \in 1 .. Len(r)
       PROVE  (k \in W <=> r[k].kind = "word") /\ (k \in V <=> k \in J /\ r[k].kind = "word") /\ (k \in T <=> k \notin J)
  <2>1. k \in W <=> r[k].kind = "word"
    BY <1>1 DEF ArgWordsOf
  <2>2. m[k].kind = "word" <=> r[k].kind = "word"
    BY <1>3, ArgGiveValueIs
  <2>3. k \in T <=> k \notin J
    BY <1>4 DEF ArgTakenAt
  <2> QED  BY <2>1, <2>2, <2>3
<1>11. T \in SUBSET (1 .. Len(r)) /\ V \in SUBSET (1 .. Len(r)) /\ W \in SUBSET (1 .. Len(r))
  BY <1>1, <1>5 DEF ArgTakenAt, ArgWordsOf
<1>12. \A k \in T : r[k].kind = "word"
  BY DEF ArgTakenAt, ArgTaken
<1> HIDE DEF W, T, V
<1>13. W = T \cup V /\ T \cap V = {}
  BY <1>10, <1>11, <1>12
<1>14. Cardinality(T \cup V) = Cardinality(T) + Cardinality(V) /\ Cardinality(T) \in Nat
  <2>1. T \cap V = {}
    BY <1>13
  <2>2. T \in SUBSET (1 .. Len(r)) /\ V \in SUBSET (1 .. Len(r)) /\ Len(r) \in Nat
    BY <1>1, <1>11
  <2> QED  BY <2>1, <2>2, ArgPartsSize
<1> QED  BY <1>8, <1>9, <1>13, <1>14 DEF W, T, e

(* It makes such a line. *)
LEMMA ArgExpandLine ==
    ASSUME NEW r, ArgPlainLine(r), NEW options, NEW e, NEW f, ArgExpandedBy(e, f, r, options)
    PROVE  ArgExpandedLine(e)
<1>1. ASSUME NEW i \in 1 .. Len(e)
      PROVE  /\ f[i] \in 1 .. Len(r) /\ e[i].text = r[f[i]].text
             /\ e[i].kind = "word" <=> r[f[i]].kind = "word"
             /\ e[i].kind = "equals" \/ e[i].kind = r[f[i]].kind
             /\ (r[f[i]].kind = "word" /\ r[f[i]].text \in ArgWords) \/ r[f[i]].kind = "option"
  <2>1. f[i] \in 1 .. Len(r) /\ e[i] = ArgGiveValue(r, options, f[i])
    BY DEF ArgExpandedBy
  <2>2. /\ e[i].text = r[f[i]].text /\ (e[i].kind = "word" <=> r[f[i]].kind = "word")
        /\ e[i].kind = "equals" \/ e[i] = r[f[i]]
    BY <2>1, ArgGiveValueIs
  <2> QED  BY <2>1, <2>2 DEF ArgPlainLine
<1>2. \A k \in 1 .. Len(e) : \/ e[k].kind = "word" /\ e[k].text \in ArgWords
                             \/ e[k].kind = "option" \/ e[k].kind = "equals"
  BY <1>1
<1>3. ASSUME NEW j \in 1 .. Len(e), NEW k \in 1 .. Len(e), j # k, e[j].kind # "word", e[k].kind # "word"
      PROVE  e[j].text # e[k].text
  <2>1. f[j] # f[k]
    BY <1>3 DEF ArgExpandedBy
  <2>2. r[f[j]].kind = "option" /\ r[f[k]].kind = "option" /\ f[j] \in 1 .. Len(r) /\ f[k] \in 1 .. Len(r)
        /\ e[j].text = r[f[j]].text /\ e[k].text = r[f[k]].text
    BY <1>1, <1>3
  <2> QED  BY <2>1, <2>2 DEF ArgPlainLine
<1> QED  BY <1>2, <1>3 DEF ArgExpandedLine, ArgExpandedBy

(* It has no end of options, so its words are values where an option takes one. *)
LEMMA ArgNoEnd ==
    ASSUME NEW e, ArgExpandedLine(e), NEW options
    PROVE  /\ Len(e) \in Nat /\ DOMAIN e = 1 .. Len(e) /\ ArgEnd(e) = Len(e) + 1
           /\ \A k \in 1 .. Len(e) : k \in ArgGiven(e) <=> e[k].kind # "word"
           /\ ArgGiven(e) \in SUBSET (1 .. Len(e))
           /\ \A k \in 1 .. (Len(e) + 1) :
                ArgIsValue(e, options, k)
                  <=> /\ k \in 1 .. Len(e) /\ k - 1 \in 1 .. Len(e)
                      /\ e[k].kind = "word" /\ ArgTakes(e[k - 1], options)
<1>1. e \in Seq(ArgTokens) /\ Len(e) \in Nat /\ DOMAIN e = 1 .. Len(e)
  BY DEF ArgExpandedLine
<1>2. \A k \in 1 .. Len(e) : e[k].kind \in {"word", "option", "equals"}
  BY DEF ArgExpandedLine
<1> DEFINE U == {k \in DOMAIN e : e[k].kind = "end"}
<1>3. U = {}
  BY <1>1, <1>2
<1>4. ArgEnd(e) = IF U = {} THEN Len(e) + 1 ELSE Min(U)
  BY DEF ArgEnd
<1> HIDE DEF U
<1>5. ArgEnd(e) = Len(e) + 1
  BY <1>3, <1>4
<1>6. ASSUME NEW k \in 1 .. Len(e) PROVE k \in ArgGiven(e) <=> e[k].kind # "word"
  <2>1. k < ArgEnd(e)
    BY <1>1, <1>5
  <2> QED  BY <1>1, <1>2, <2>1 DEF ArgGiven
<1>7. ArgGiven(e) \in SUBSET (1 .. Len(e))
  BY <1>1 DEF ArgGiven
<1>8. ASSUME NEW k \in 1 .. (Len(e) + 1)
      PROVE  ArgIsValue(e, options, k) <=> /\ k \in 1 .. Len(e) /\ k - 1 \in 1 .. Len(e)
                                           /\ e[k].kind = "word" /\ ArgTakes(e[k - 1], options)
  <2>1. k > 1 /\ k < ArgEnd(e) <=> k \in 1 .. Len(e) /\ k - 1 \in 1 .. Len(e)
    BY <1>1, <1>5
  <2> QED  BY <2>1 DEF ArgIsValue
<1> QED  BY <1>1, <1>5, <1>6, <1>7, <1>8

(* A word is an argument or the value of an option. *)
LEMMA ArgPositionalsSize ==
    ASSUME NEW e, ArgExpandedLine(e), NEW options
    PROVE  /\ Cardinality(ArgWordsOf(e)) = Len(ArgPositionals(e, options)) + Cardinality(ArgValueAt(e, options))
           /\ Cardinality(ArgValueAt(e, options)) \in Nat
<1> DEFINE K == {k \in DOMAIN e : \/ k > ArgEnd(e)
                                  \/ /\ k < ArgEnd(e) /\ e[k].kind = "word" /\ ~ArgIsValue(e, options, k)}
           Q == K \cap (1 .. Len(e))
           V == ArgValueAt(e, options)
           W == ArgWordsOf(e)
           out == ArgPositionals(e, options)
<1>1. e \in Seq(ArgTokens) /\ Len(e) \in Nat /\ DOMAIN e = 1 .. Len(e) /\ ArgEnd(e) = Len(e) + 1
  BY ArgNoEnd DEF ArgExpandedLine
<1>2. out = ArgKept(e, K)
  BY DEF ArgPositionals
<1>3. ASSUME NEW k \in 1 .. Len(e)
      PROVE  /\ k \in Q <=> e[k].kind = "word" /\ ~ArgIsValue(e, options, k)
             /\ k \in V <=> ArgIsValue(e, options, k)
             /\ k \in W <=> e[k].kind = "word"
             /\ ArgIsValue(e, options, k) => e[k].kind = "word"
  <2>1. k < ArgEnd(e) /\ ~(k > ArgEnd(e)) /\ k \in DOMAIN e
    BY <1>1
  <2>2. k \in K <=> e[k].kind = "word" /\ ~ArgIsValue(e, options, k)
    BY <2>1
  <2>3. k \in V <=> ArgIsValue(e, options, k)
    BY DEF ArgValueAt
  <2>4. k \in W <=> e[k].kind = "word"
    BY <2>1 DEF ArgWordsOf
  <2>5. ArgIsValue(e, options, k) => e[k].kind = "word"
    BY DEF ArgIsValue
  <2> QED  BY <2>2, <2>3, <2>4, <2>5
<1>4. Q \in SUBSET (1 .. Len(e)) /\ V \in SUBSET (1 .. Len(e)) /\ W \in SUBSET (1 .. Len(e))
  BY <1>1 DEF ArgValueAt, ArgWordsOf
<1> HIDE DEF K, V, W
<1>5. out \in Seq(ArgTokens) /\ \E f : ArgOrder(f, out, e, Q)
  BY <1>1, <1>2, ArgKeptPlaces
<1> HIDE DEF Q, out
<1>6. Len(out) = Cardinality(Q)
  <2>1. PICK f : ArgOrder(f, out, e, Q)
    BY <1>5
  <2> QED  BY <1>1, <1>4, <1>5, <2>1, ArgKeptSize
<1>7. W = Q \cup V /\ Q \cap V = {}
  BY <1>3, <1>4
<1>8. Cardinality(Q \cup V) = Cardinality(Q) + Cardinality(V) /\ Cardinality(V) \in Nat
  <2>1. Q \cap V = {} /\ Q \in SUBSET (1 .. Len(e)) /\ V \in SUBSET (1 .. Len(e)) /\ Len(e) \in Nat
    BY <1>1, <1>4, <1>7
  <2> QED  BY <2>1, ArgPartsSize
<1> QED  BY <1>6, <1>7, <1>8 DEF W, V, out

(* The options whose value is the word after them are those with such a word. *)
LEMMA ArgUsedOptions ==
    ASSUME NEW e, ArgExpandedLine(e), NEW options
    PROVE  Cardinality(ArgUsed(e, options, "option")) = Cardinality(ArgValueAt(e, options))
<1> DEFINE U == ArgUsed(e, options, "option")
           V == ArgValueAt(e, options)
           d == [k \in U |-> k + 1]
<1>1. Len(e) \in Nat /\ \A k \in 1 .. Len(e) : e[k].kind = "word" => e[k].text \in ArgWords
  BY DEF ArgExpandedLine
<1>2. \A k \in 1 .. (Len(e) + 1) :
        ArgIsValue(e, options, k) <=> /\ k \in 1 .. Len(e) /\ k - 1 \in 1 .. Len(e)
                                      /\ e[k].kind = "word" /\ ArgTakes(e[k - 1], options)
  BY ArgNoEnd
<1>3. ASSUME NEW k \in U PROVE k + 1 \in V
  <2>1. k \in 1 .. Len(e) /\ e[k].kind = "option" /\ ArgValue(e, options, k) \in ArgWords
    BY DEF ArgUsed
  <2>2. ArgYes \notin ArgWords
    BY ArgAssumption
  <2>3. ArgIsValue(e, options, k + 1)
    BY <2>1, <2>2 DEF ArgValue
  <2>4. k + 1 \in 1 .. (Len(e) + 1)
    BY <1>1, <2>1
  <2>5. k + 1 \in 1 .. Len(e)
    BY <1>2, <2>3, <2>4
  <2> QED  BY <2>3, <2>5 DEF ArgValueAt
<1>4. ASSUME NEW v \in V PROVE v - 1 \in U /\ (v - 1) + 1 = v
  <2>1. v \in 1 .. Len(e) /\ ArgIsValue(e, options, v)
    BY DEF ArgValueAt
  <2>2. v - 1 \in 1 .. Len(e) /\ e[v].kind = "word" /\ ArgTakes(e[v - 1], options)
    BY <1>1, <1>2, <2>1
  <2>3. (v - 1) + 1 = v
    BY <1>1, <2>1
  <2>4. e[v - 1].kind = "option"
    BY <2>2 DEF ArgTakes
  <2>5. ArgValue(e, options, v - 1) = e[v].text
    BY <2>1, <2>3, <2>4 DEF ArgValue
  <2>6. e[v].text \in ArgWords
    BY <1>1, <2>1, <2>2
  <2> QED  BY <2>2, <2>3, <2>4, <2>5, <2>6 DEF ArgUsed
<1>5. U \in SUBSET (1 .. Len(e))
  BY DEF ArgUsed
<1>6. \A k \in U : k \in Nat
  <2>1. \A k \in 1 .. Len(e) : k \in Nat
    BY <1>1
  <2> QED  BY <1>5, <2>1
<1> HIDE DEF U, V
<1>7. d \in [U -> V] /\ \A a, b \in U : d[a] = d[b] => a = b
  BY <1>3, <1>6
<1>8. \A v \in V : \E a \in U : d[a] = v
  BY <1>4
<1> HIDE DEF d
<1>9. Cardinality(U) = Cardinality(V)
  BY <1>1, <1>5, <1>7, <1>8, ArgSameSize
<1> QED  BY <1>9 DEF U, V

(* The options whose optional value is a word are those that took one. *)
LEMMA ArgUsedEquals ==
    ASSUME NEW r, ArgPlainLine(r), NEW options, NEW e, NEW f, ArgExpandedBy(e, f, r, options)
    PROVE  Cardinality(ArgUsed(e, options, "equals")) = Cardinality(ArgTakenAt(r, options))
<1> DEFINE U == ArgUsed(e, options, "equals")
           T == ArgTakenAt(r, options)
           d == [k \in U |-> f[k] + 1]
<1>1. /\ Len(e) \in Nat /\ Len(r) \in Nat /\ DOMAIN r = 1 .. Len(r)
      /\ \A k \in 1 .. Len(r) : r[k].kind = "word" => r[k].text \in ArgWords
  BY DEF ArgPlainLine, ArgExpandedBy
<1>2. \A i \in 1 .. Len(e) : f[i] \in 1 .. Len(r) /\ e[i] = ArgGiveValue(r, options, f[i])
  BY DEF ArgExpandedBy
<1>3. ASSUME NEW i \in U PROVE f[i] + 1 \in T /\ i \in 1 .. Len(e) /\ f[i] \in Nat
  <2>1. i \in 1 .. Len(e) /\ e[i].kind = "equals" /\ ArgValue(e, options, i) \in ArgWords
    BY DEF ArgUsed
  <2> DEFINE k == f[i]
  <2>2. k \in 1 .. Len(r) /\ e[i] = ArgGiveValue(r, options, k)
    BY <1>2, <2>1
  <2> HIDE DEF k
  <2>3. ArgValue(e, options, i) = e[i].value
    BY <2>1 DEF ArgValue
  <2>4. ArgOptional(r[k], options) /\ (~ArgIs(r, k + 1, "word") => e[i].value = ArgDefault)
    BY <2>1, <2>2, ArgGiveValueIs
  <2>5. ArgIs(r, k + 1, "word")
    BY <2>1, <2>3, <2>4, ArgAssumption
  <2>6. k + 1 \in 1 .. Len(r) /\ r[k + 1].kind = "word"
    BY <1>1, <2>5 DEF ArgIs
  <2>7. k + 1 > 1 /\ (k + 1) - 1 = k /\ k \in Nat
    BY <1>1, <2>2
  <2>8. ArgTaken(r, options, k + 1)
    BY <2>4, <2>6, <2>7 DEF ArgTaken
  <2> QED  BY <2>1, <2>6, <2>7, <2>8 DEF ArgTakenAt, k
<1>4. ASSUME NEW t \in T PROVE \E i \in U : f[i] + 1 = t
  <2>1. t \in 1 .. Len(r) /\ t > 1 /\ r[t].kind = "word" /\ ArgOptional(r[t - 1], options)
    BY DEF ArgTakenAt, ArgTaken
  <2> DEFINE k == t - 1
  <2>2. k \in 1 .. Len(r) /\ k + 1 = t
    BY <1>1, <2>1
  <2>3. ArgOptional(r[k], options)
    BY <2>1
  <2> HIDE DEF k
  <2>4. r[k].kind = "option"
    BY <2>3 DEF ArgOptional
  <2>5. ~ArgTaken(r, options, k)
    BY <2>4 DEF ArgTaken
  <2>6. PICK i \in 1 .. Len(e) : f[i] = k
    BY <2>2, <2>5 DEF ArgExpandedBy
  <2>7. ArgIs(r, k + 1, "word")
    BY <1>1, <2>1, <2>2 DEF ArgIs
  <2>8. e[i] = ArgGiveValue(r, options, k)
    BY <1>2, <2>6
  <2>9. e[i].kind = "equals" /\ e[i].value = r[k + 1].text
    BY <2>2, <2>3, <2>7, <2>8, ArgGiveValueIs
  <2>10. ArgValue(e, options, i) \in ArgWords
    <3>1. r[t].text \in ArgWords
      BY <1>1, <2>1
    <3> QED  BY <2>2, <2>9, <3>1 DEF ArgValue
  <2>11. i \in U
    BY <2>9, <2>10 DEF ArgUsed
  <2> QED  BY <2>2, <2>6, <2>11
<1>5. U \in SUBSET (1 .. Len(e))
  BY DEF ArgUsed
<1>6. ASSUME NEW a \in U, NEW b \in U, f[a] + 1 = f[b] + 1 PROVE a = b
  <2>1. f[a] = f[b] /\ a \in 1 .. Len(e) /\ b \in 1 .. Len(e)
    BY <1>3, <1>6
  <2> QED  BY <2>1 DEF ArgExpandedBy
<1> HIDE DEF U, T
<1>7. d \in [U -> T] /\ \A a, b \in U : d[a] = d[b] => a = b
  BY <1>3, <1>6
<1>8. \A t \in T : \E a \in U : d[a] = t
  BY <1>4
<1> HIDE DEF d
<1>9. Cardinality(U) = Cardinality(T)
  <2>1. Len(e) \in Nat
    BY <1>1
  <2> QED  BY <2>1, <1>5, <1>7, <1>8, ArgSameSize
<1> QED  BY <1>9 DEF U, T

(* The options whose value was typed as a word. *)
ArgValued(values) == {o \in DOMAIN values : values[o] \in ArgWords}

(* Each option that has a word for its value has it from one token. *)
LEMMA ArgValuedSize ==
    ASSUME NEW e, ArgExpandedLine(e), NEW options
    PROVE  /\ Cardinality(ArgValued(ArgValues(e, options)))
                = Cardinality(ArgUsed(e, options, "option")) + Cardinality(ArgUsed(e, options, "equals"))
           /\ Cardinality(ArgUsed(e, options, "option")) \in Nat /\ Cardinality(ArgUsed(e, options, "equals")) \in Nat
<1> DEFINE v == ArgValues(e, options)
           A == ArgUsed(e, options, "option")
           B == ArgUsed(e, options, "equals")
           G == A \cup B
           S == ArgValued(v)
           d == [k \in G |-> e[k].text]
<1>1. /\ Len(e) \in Nat /\ ArgGiven(e) \in SUBSET (1 .. Len(e))
      /\ \A k \in 1 .. Len(e) : k \in ArgGiven(e) <=> e[k].kind # "word"
  BY ArgNoEnd
<1>2. \A j, k \in 1 .. Len(e) : j # k /\ e[j].kind # "word" /\ e[k].kind # "word" => e[j].text # e[k].text
  BY DEF ArgExpandedLine
<1>3. \A k \in 1 .. Len(e) : e[k].kind \in {"word", "option", "equals"}
  BY DEF ArgExpandedLine
<1>4. /\ DOMAIN v = {e[k].text : k \in ArgGiven(e)}
      /\ \A o \in DOMAIN v : v[o] = ArgValue(e, options, Max({k \in ArgGiven(e) : e[k].text = o}))
  BY DEF ArgValues
<1>5. ASSUME NEW k \in ArgGiven(e) PROVE e[k].text \in DOMAIN v /\ v[e[k].text] = ArgValue(e, options, k)
  <2> DEFINE M == {j \in ArgGiven(e) : e[j].text = e[k].text}
  <2>1. e[k].text \in DOMAIN v
    BY <1>4
  <2>2. v[e[k].text] = ArgValue(e, options, Max(M))
    BY <1>4, <2>1
  <2>3. ASSUME NEW j \in M PROVE j = k
    <3>1. j \in 1 .. Len(e) /\ k \in 1 .. Len(e) /\ e[j].kind # "word" /\ e[k].kind # "word" /\ e[j].text = e[k].text
      BY <1>1
    <3> QED  BY <1>2, <3>1
  <2>4. M \subseteq 1 .. Len(e) /\ M # {}
    BY <1>1
  <2> HIDE DEF M
  <2>5. Max(M) \in M
    BY <1>1, <2>4, ArgMaxIs
  <2>6. Max(M) = k
    BY <2>3, <2>5
  <2> QED  BY <2>1, <2>2, <2>6
<1> HIDE DEF v
<1>6. ASSUME NEW k \in 1 .. Len(e)
      PROVE  k \in G <=> e[k].kind # "word" /\ ArgValue(e, options, k) \in ArgWords
  BY <1>3 DEF ArgUsed
<1>7. A \in SUBSET (1 .. Len(e)) /\ B \in SUBSET (1 .. Len(e)) /\ A \cap B = {}
  BY DEF ArgUsed
<1> HIDE DEF A, B
<1>8. /\ Cardinality(G) = Cardinality(A) + Cardinality(B)
      /\ Cardinality(A) \in Nat /\ Cardinality(B) \in Nat
  <2>1. Len(e) \in Nat
    BY <1>1
  <2> QED  BY <1>7, <2>1, ArgPartsSize
<1>9. G \in SUBSET (1 .. Len(e))
  BY <1>7
<1> HIDE DEF G
<1>10. ASSUME NEW k \in G PROVE e[k].text \in S
  <2>1. k \in 1 .. Len(e) /\ e[k].kind # "word" /\ ArgValue(e, options, k) \in ArgWords
    BY <1>6, <1>9
  <2>2. e[k].text \in DOMAIN v /\ v[e[k].text] = ArgValue(e, options, k)
    BY <1>1, <1>5, <2>1
  <2> QED  BY <2>1, <2>2 DEF ArgValued
<1>11. ASSUME NEW o \in S PROVE \E k \in G : e[k].text = o
  <2>1. o \in DOMAIN v /\ v[o] \in ArgWords
    BY DEF ArgValued
  <2>2. PICK k \in ArgGiven(e) : e[k].text = o
    BY <1>4, <2>1
  <2>3. v[o] = ArgValue(e, options, k) /\ k \in 1 .. Len(e) /\ e[k].kind # "word"
    BY <1>1, <1>5, <2>2
  <2> QED  BY <1>6, <2>1, <2>2, <2>3
<1>12. ASSUME NEW a \in G, NEW b \in G, e[a].text = e[b].text PROVE a = b
  <2>1. a \in 1 .. Len(e) /\ b \in 1 .. Len(e) /\ e[a].kind # "word" /\ e[b].kind # "word"
    BY <1>6, <1>9
  <2> QED  BY <1>2, <1>12, <2>1
<1> HIDE DEF S
<1>13. d \in [G -> S] /\ \A a, b \in G : d[a] = d[b] => a = b
  BY <1>10, <1>12
<1>14. \A o \in S : \E a \in G : d[a] = o
  BY <1>11
<1> HIDE DEF d
<1>15. Cardinality(G) = Cardinality(S)
  <2>1. Len(e) \in Nat
    BY <1>1
  <2> QED  BY <1>9, <1>13, <1>14, <2>1, ArgSameSize
<1> QED  BY <1>8, <1>15 DEF S, v, A, B

(* Every word of a plain line that is run is used once. *)
LEMMA ArgWordsUsed ==
    ASSUME NEW s, ArgPlainLine(s), ArgInvocation(s).kind = "run"
    PROVE  LET i == ArgInvocation(s) IN
           Cardinality(ArgWordsOf(s)) = Len(i.command) + Len(i.args) + Cardinality(ArgValued(i.options))
<1> DEFINE i == ArgInvocation(s)
           command == ArgCommandAt(s, ArgFind(s))
           r == ArgKept(s, DOMAIN s \ ArgPlaces(ArgFind(s)))
           options == ArgOptionsOf(command)
           e == ArgExpand(r, options)
<1>1. s \in Seq(ArgTokens)
  BY DEF ArgPlainLine
<1>2. ArgFind(s) # <<>> /\ i = ArgRun(command, r)
  BY <1>1, ArgInvocationIs
<1>3. ArgPlainLine(r)
  BY ArgKeptPlain
<1>4. /\ Cardinality(ArgWordsOf(s)) = Len(ArgFind(s)) + Cardinality(ArgWordsOf(r))
      /\ Len(command.name) = Len(ArgFind(s))
  BY <1>1, <1>2, ArgRestSize, ArgCommandIs
<1> HIDE DEF r, command
<1>5. i.command = command.name /\ i.args = ArgPositionals(e, options) /\ i.options = ArgValues(e, options)
  <2>1. ArgRun(command, r).kind = "run"
    BY <1>2
  <2>2. ArgRun(command, r) = [kind |-> "run", command |-> command.name, args |-> ArgPositionals(e, options),
                              options |-> ArgValues(e, options)]
    BY <2>1, ArgRunIs
  <2> QED  BY <1>2, <2>2
<1> HIDE DEF options, i
<1>6. PICK f : ArgExpandedBy(e, f, r, options)
  BY <1>3, ArgExpandIs
<1>7. /\ Cardinality(ArgWordsOf(r)) = Cardinality(ArgTakenAt(r, options)) + Cardinality(ArgWordsOf(e))
      /\ Cardinality(ArgTakenAt(r, options)) \in Nat
  BY <1>3, ArgExpandIs
<1> HIDE DEF e
<1>8. ArgExpandedLine(e)
  BY <1>3, <1>6, ArgExpandLine
<1>9. /\ Cardinality(ArgWordsOf(e)) = Len(ArgPositionals(e, options)) + Cardinality(ArgValueAt(e, options))
      /\ Cardinality(ArgValueAt(e, options)) \in Nat
  BY <1>8, ArgPositionalsSize
<1>10. Cardinality(ArgUsed(e, options, "option")) = Cardinality(ArgValueAt(e, options))
  BY <1>8, ArgUsedOptions
<1>11. Cardinality(ArgUsed(e, options, "equals")) = Cardinality(ArgTakenAt(r, options))
  BY <1>3, <1>6, ArgUsedEquals
<1>12. Cardinality(ArgValued(ArgValues(e, options)))
         = Cardinality(ArgUsed(e, options, "option")) + Cardinality(ArgUsed(e, options, "equals"))
  BY <1>8, ArgValuedSize
<1>13. ArgPositionals(e, options) \in Seq(ArgTokens)
  <2>1. e \in Seq(ArgTokens)
    BY <1>8 DEF ArgExpandedLine
  <2> QED  BY <2>1, ArgKeptPlaces DEF ArgPositionals
<1>14. Len(ArgPositionals(e, options)) \in Nat
  BY <1>13
<1>15. Len(ArgFind(s)) \in Nat
  BY <1>1, <1>2, ArgFindIs
<1> DEFINE nf == Len(ArgFind(s))
           np == Len(ArgPositionals(e, options))
           nt == Cardinality(ArgTakenAt(r, options))
           nv == Cardinality(ArgValueAt(e, options))
<1>16. Cardinality(ArgWordsOf(s)) = nf + (nt + (np + nv)) /\ Cardinality(ArgValued(ArgValues(e, options))) = nv + nt
  BY <1>4, <1>7, <1>9, <1>10, <1>11, <1>12
<1>17. nf \in Nat /\ np \in Nat /\ nt \in Nat /\ nv \in Nat
  BY <1>7, <1>9, <1>14, <1>15
<1>18. Len(i.command) = nf /\ Len(i.args) = np
  BY <1>4, <1>5
<1> HIDE DEF nf, np, nt, nv
<1>19. nf + (nt + (np + nv)) = nf + np + (nv + nt)
  BY <1>17
<1> QED  BY <1>5, <1>16, <1>18, <1>19 DEF i

ArgLineTyped == argv \in Seq(ArgTyped)

(* Only what may be typed is on the line. *)
THEOREM ArgLineIsTyped == ArgSpec => []ArgLineTyped
<1>1. ArgInit => ArgLineTyped
  BY ArgAssumption DEF ArgInit, ArgLineTyped
<1>2. ArgLineTyped /\ [ArgType]_ArgVars => ArgLineTyped'
  BY DEF ArgType, ArgVars, ArgLineTyped
<1> QED  BY <1>1, <1>2, PTL DEF ArgSpec

(* A command line that is run is understood as it was typed: the command is one
   of the table and gets what it takes, every word is used once, and --server
   may come before everything else (args.ts:37-186). *)
THEOREM LineIsUnderstoodHolds == ArgSpec => []LineIsUnderstood
<1>1. ASSUME ArgLineTyped PROVE ArgTypeOK
  <2>1. argv \in Seq(ArgTokens)
    BY <1>1, ArgTokensTyped DEF ArgLineTyped
  <2> QED  BY <2>1, ArgRunTyped DEF ArgTypeOK
<1>2. ASSUME ArgLineTyped PROVE WordsAreUsed
  <2> SUFFICES ASSUME ArgInvocation(argv).kind = "run", ArgPlain, ~ArgRepeats
               PROVE  LET i == ArgInvocation(argv) IN
                      Cardinality(ArgWordsOf(argv)) = Len(i.command) + Len(i.args) + Cardinality(ArgValued(i.options))
    BY DEF WordsAreUsed, ArgValued
  <2>1. ArgPlainLine(argv)
    <3>1. argv \in Seq(ArgTyped)
      BY <1>2 DEF ArgLineTyped
    <3>2. \A k \in DOMAIN argv : argv[k] # ArgOption("--")
      BY DEF ArgPlain
    <3>3. \A j, k \in DOMAIN argv : j # k /\ argv[j].kind = "option" => argv[k] # argv[j]
      BY DEF ArgRepeats
    <3> QED  BY <3>1, <3>2, <3>3, ArgTypedPlain
  <2> QED  BY <2>1, ArgWordsUsed
<1>3. ASSUME ArgLineTyped PROVE ServerMayComeFirst
  <2>1. argv \in Seq(ArgTokens)
    BY <1>3, ArgTokensTyped DEF ArgLineTyped
  <2>2. <<ArgOption("server"), ArgWord("x")>> \o argv = ArgFronted(argv)
    BY DEF ArgFronted, ArgCat, ArgServer
  <2>3. ArgInvocation(argv).kind = "run" =>
          ArgInvocation(ArgFronted(argv))
            = [ArgInvocation(argv) EXCEPT !.options = ArgBoth(ArgInvocation(argv).options, [o \in {"server"} |-> "x"])]
    BY <2>1, ArgServerFirst
  <2> QED  BY <2>2, <2>3 DEF ServerMayComeFirst
<1>4. ArgLineTyped => LineIsUnderstood
  BY <1>1, <1>2, <1>3 DEF LineIsUnderstood
<1> QED  BY <1>4, ArgLineIsTyped, PTL

=============================================================================
