---------------------------- MODULE ServiceDialog ----------------------------
(***************************************************************************)
(* The dialog that creates a service (AddServiceModal.vue) on the overview *)
(* page, where a domain may be picked, and on a domain's page, which fixes *)
(* it.  One submission creates the service and then its route with two     *)
(* requests.  What the server does and the arrival of its answer are steps *)
(* of their own; between them the dialog may be closed, opened and typed   *)
(* into, and other users change services and domains on the server.        *)
(***************************************************************************)
EXTENDS Naturals, Sequences, FiniteSets

CONSTANTS DlgRepos,    \* repositories the text may name
          DlgInferred, \* repository -> service name that is inferred from it
          DlgDefault,  \* repository -> its default branch
          DlgNames,    \* names that are typed
          DlgBranches, \* branches that are typed
          DlgDomains,  \* domains; "localhost" and those of DlgLoopback are loopback hosts
          DlgLoopback,
          DlgMoves,    \* bound: things typed and picked
          DlgAttempts, \* bound: submissions
          DlgOthers    \* bound: changes by others

DlgNone == ""  \* an empty field, and the overview, which fixes no domain

ASSUME DlgAssumption ==
  /\ {DlgMoves, DlgAttempts, DlgOthers} \subseteq Nat
  /\ DlgInferred \in [DlgRepos -> STRING] /\ DlgDefault \in [DlgRepos -> STRING]

VARIABLES dlgPage,     \* domain the page fixes, or none
          dlgForm,     \* what the dialog shows
          dlgAdding,   \* the adding flag
          dlgCalls,    \* submissions under way
          dlgKnown,    \* the App's repositories have arrived
          dlgLoading,  \* requests for them under way
          dlgServices, \* Service rows, oldest first: whether live, name, repository, branch, and the domains
                       \* whose route was stored for it, those that are gone included
          dlgOwner,    \* domain -> service its root path belongs to, 0 if free; gone domains are missing
          dlgCount     \* moves, attempts and changes by others so far

DlgVars == <<dlgPage, dlgForm, dlgAdding, dlgCalls, dlgKnown, dlgLoading, dlgServices, dlgOwner, dlgCount>>

DlgEmpty == [open |-> FALSE, text |-> DlgNone, repo |-> DlgNone, name |-> DlgNone, inferred |-> DlgNone, branch |-> "main",
             domain |-> DlgNone, error |-> FALSE, ownName |-> DlgNone, ownBranch |-> DlgNone]

DlgInit ==
  /\ dlgPage \in {DlgNone} \cup DlgDomains /\ dlgForm = DlgEmpty /\ dlgAdding = FALSE /\ dlgCalls = {}
  /\ dlgKnown = FALSE /\ dlgLoading = 0 /\ dlgServices = <<>>
  /\ \E here \in SUBSET DlgDomains : dlgOwner = [d \in here |-> 0] /\ (dlgPage # DlgNone => dlgPage \in here)
  /\ dlgCount = [moves |-> 0, attempts |-> 0, others |-> 0]

DlgServer == <<dlgServices, dlgOwner>>
DlgMove == dlgCount.moves < DlgMoves /\ dlgCount' = [dlgCount EXCEPT !.moves = @ + 1]

-----------------------------------------------------------------------------
(* Typing *)

DlgInferreds == {DlgInferred[r] : r \in DlgRepos}
DlgDefaults == {DlgDefault[r] : r \in DlgRepos}

(* inferServiceName *)
DlgInfer(f, r) ==
  [f EXCEPT !.name = IF @ \in {DlgNone, f.inferred} THEN DlgInferred[r] ELSE @, !.inferred = DlgInferred[r]]

\* Faulty variant: the repository's default branch always replaces the branch.
DlgParsedDefault(f) ==
  IF f.text \notin DlgRepos THEN f
  ELSE [DlgInfer(f, f.text) EXCEPT !.repo = f.text, !.branch = IF dlgKnown THEN DlgDefault[f.text] ELSE @]

(* parseGithubUrl: a text that names no repository leaves the last one. *)
DlgParsed(f) ==
  IF f.text \notin DlgRepos THEN f
  ELSE [DlgInfer(f, f.text) EXCEPT !.repo = f.text,
          !.branch = IF dlgKnown /\ @ \in {DlgNone, "main"} THEN DlgDefault[f.text] ELSE @]

DlgEdit(f) ==
  /\ dlgForm.open /\ DlgMove /\ dlgForm' = f
  /\ UNCHANGED <<dlgPage, dlgAdding, dlgCalls, dlgKnown, dlgLoading, DlgServer>>

DlgTypes ==
  \/ \E text \in DlgRepos \cup {DlgNone, "junk"} : DlgEdit(DlgParsed([dlgForm EXCEPT !.text = text]))
  \/ DlgEdit(DlgParsed(dlgForm))   \* the field loses the focus
  \/ \E n \in DlgNames : DlgEdit([dlgForm EXCEPT !.name = n, !.ownName = n])
  \/ \E b \in DlgBranches : DlgEdit([dlgForm EXCEPT !.branch = b, !.ownBranch = b])

(* allowDomainSelection *)
DlgPicks ==
  /\ dlgPage = DlgNone
  /\ \E d \in DOMAIN dlgOwner \cup {DlgNone} : DlgEdit([dlgForm EXCEPT !.domain = d])

-----------------------------------------------------------------------------
(* Opening and closing *)

(* The only domain is picked at once; the repositories are asked for.  An
   error that arrived while the dialog was closed is shown. *)
DlgOpen ==
  /\ ~dlgForm.open /\ DlgMove /\ dlgLoading' = dlgLoading + 1
  /\ dlgForm' = [dlgForm EXCEPT !.open = TRUE,
       !.domain = IF dlgPage = DlgNone /\ \E d \in DlgDomains : DOMAIN dlgOwner = {d}
                  THEN CHOOSE d \in DOMAIN dlgOwner : TRUE ELSE @]
  /\ UNCHANGED <<dlgPage, dlgAdding, dlgCalls, dlgKnown, DlgServer>>

\* Faulty variant: closing ends the submission, as the dialog for domains does.
DlgAddingClosedReset == FALSE

DlgAddingClosed == dlgAdding

DlgClose ==
  /\ dlgForm.open /\ dlgForm' = DlgEmpty /\ dlgAdding' = DlgAddingClosed
  /\ UNCHANGED <<dlgPage, dlgCalls, dlgKnown, dlgLoading, DlgServer, dlgCount>>

(* loadRepoSuggestions *)
DlgReposArrive ==
  /\ dlgLoading > 0 /\ dlgLoading' = dlgLoading - 1 /\ dlgKnown' \in BOOLEAN
  /\ UNCHANGED <<dlgPage, dlgForm, dlgAdding, dlgCalls, DlgServer, dlgCount>>

-----------------------------------------------------------------------------
(* addService *)

DlgSubmit ==
  /\ dlgForm.open /\ ~dlgAdding /\ dlgForm.text # DlgNone /\ dlgForm.name # DlgNone
  /\ dlgCount.attempts < DlgAttempts /\ dlgCount' = [dlgCount EXCEPT !.attempts = @ + 1]
  /\ dlgAdding' = TRUE
  /\ LET f == DlgParsed(dlgForm)
     IN /\ dlgForm' = [f EXCEPT !.error = FALSE]
        /\ dlgCalls' = dlgCalls \cup
             {[n |-> dlgCount.attempts, step |-> "create", id |-> 0, domain |-> DlgNone, httpOnly |-> FALSE, form |-> f,
               name |-> f.name, repo |-> f.repo, branch |-> IF f.branch = DlgNone THEN "main" ELSE f.branch]}
  /\ UNCHANGED <<dlgPage, dlgKnown, dlgLoading, DlgServer>>

DlgEnd(c) == dlgCalls' = dlgCalls \ {c} /\ dlgAdding' = FALSE
DlgFails(c) == DlgEnd(c) /\ dlgForm' = [dlgForm EXCEPT !.error = TRUE]
DlgAnnounce(c) == DlgEnd(c) /\ dlgForm' = DlgEmpty

\* The domain is read when the service has been created.
DlgRouteDomain == IF dlgPage # DlgNone THEN dlgPage ELSE dlgForm.domain

\* Faulty variant: the service is announced, and the route left to come.
DlgAfterCreateAtOnce(c) == DlgAnnounce(c)

(* A domain's page gives the dialog no list in which to look for "localhost". *)
DlgAfterCreate(c) ==
  IF DlgRouteDomain = DlgNone THEN DlgAnnounce(c)
  ELSE /\ dlgCalls' = (dlgCalls \ {c}) \cup
            {[c EXCEPT !.step = "route", !.domain = DlgRouteDomain,
                       !.httpOnly = dlgPage = DlgNone /\ DlgRouteDomain = "localhost"]}
       /\ UNCHANGED <<dlgForm, dlgAdding>>

(* The page goes on when the answer arrives; an answer may be lost. *)
DlgAnswer(c) ==
  /\ c.step \in {"created", "routed", "refused"}
  /\ \/ DlgFails(c)
     \/ c.step = "created" /\ DlgAfterCreate(c)
     \/ c.step = "routed" /\ DlgAnnounce(c)
  /\ UNCHANGED <<dlgPage, dlgKnown, dlgLoading, DlgServer, dlgCount>>

-----------------------------------------------------------------------------
(* The server *)

DlgRow(c) == [live |-> TRUE, name |-> c.name, repo |-> c.repo, branch |-> c.branch, routes |-> {}]
DlgNameUsed(name) == \E s \in DOMAIN dlgServices : dlgServices[s].live /\ dlgServices[s].name = name

DlgReplies(c, step, id) ==
  /\ dlgCalls' = (dlgCalls \ {c}) \cup {[c EXCEPT !.step = step, !.id = id]}
  /\ UNCHANGED <<dlgPage, dlgForm, dlgAdding, dlgKnown, dlgLoading, dlgCount>>

(* services.create *)
DlgCreate(c) ==
  /\ c \in dlgCalls /\ c.step = "create" /\ UNCHANGED dlgOwner
  /\ IF DlgNameUsed(c.name) \/ c.repo = DlgNone
     THEN DlgReplies(c, "refused", c.id) /\ UNCHANGED dlgServices
     ELSE dlgServices' = Append(dlgServices, DlgRow(c)) /\ DlgReplies(c, "created", Len(dlgServices) + 1)

(* The service and the domain exist, HTTPS is not asked of a loopback host, and
   the path is free. *)
DlgRouteOk(c) ==
  /\ dlgServices[c.id].live
  /\ c.domain \in DOMAIN dlgOwner /\ (c.domain \in DlgLoopback \cup {"localhost"} => c.httpOnly)
  /\ dlgOwner[c.domain] \in {0, c.id}

(* services.addRoute *)
DlgRoute(c) ==
  /\ c \in dlgCalls /\ c.step = "route"
  /\ IF DlgRouteOk(c)
     THEN /\ dlgOwner' = [dlgOwner EXCEPT ![c.domain] = c.id]
          /\ dlgServices' = [dlgServices EXCEPT ![c.id] = [@ EXCEPT !.routes = dlgServices[c.id].routes \cup {c.domain}]]
          /\ DlgReplies(c, "routed", c.id)
     ELSE DlgReplies(c, "refused", c.id) /\ UNCHANGED DlgServer

(* Another user creates a service of a name and perhaps gives it a domain,
   deletes a domain, or deletes a service with its routes. *)
DlgOther ==
  /\ dlgCount.others < DlgOthers /\ dlgCount' = [dlgCount EXCEPT !.others = @ + 1]
  /\ LET row(name, domains) == [live |-> TRUE, name |-> name, repo |-> "other", branch |-> "main", routes |-> domains]
     IN \/ \E name \in DlgNames \ {DlgNone} :
             /\ ~DlgNameUsed(name)
             /\ \/ dlgServices' = Append(dlgServices, row(name, {})) /\ UNCHANGED dlgOwner
                \/ \E d \in DOMAIN dlgOwner :
                     /\ dlgOwner[d] = 0 /\ dlgOwner' = [dlgOwner EXCEPT ![d] = Len(dlgServices) + 1]
                     /\ dlgServices' = Append(dlgServices, row(name, {d}))
        \/ \E d \in DOMAIN dlgOwner :
             dlgOwner' = [e \in DOMAIN dlgOwner \ {d} |-> dlgOwner[e]] /\ UNCHANGED dlgServices
        \/ \E s \in DOMAIN dlgServices :
             /\ dlgServices[s].live /\ dlgServices' = [dlgServices EXCEPT ![s] = [@ EXCEPT !.live = FALSE]]
             /\ dlgOwner' = [d \in DOMAIN dlgOwner |-> IF dlgOwner[d] = s THEN 0 ELSE dlgOwner[d]]
  /\ UNCHANGED <<dlgPage, dlgForm, dlgAdding, dlgCalls, dlgKnown, dlgLoading>>

DlgNext ==
  \/ DlgTypes \/ DlgPicks \/ DlgOpen \/ DlgClose \/ DlgReposArrive \/ DlgSubmit
  \/ (\E c \in dlgCalls : DlgCreate(c) \/ DlgRoute(c) \/ DlgAnswer(c)) \/ DlgOther

DlgSpec == DlgInit /\ [][DlgNext]_DlgVars
-----------------------------------------------------------------------------
(* Types.  However often the dialog is closed and opened, one submission is
   under way, and the button is free when there is none
   (AddServiceModal.vue:87, 262, 325, 332-339). *)
DlgTypeOK ==
  /\ dlgForm.repo \in DlgRepos \cup {DlgNone} /\ dlgForm.branch \in DlgBranches \cup DlgDefaults \cup {"main"}
  /\ Cardinality(dlgCalls) = IF dlgAdding THEN 1 ELSE 0
  /\ \A c \in dlgCalls : c.step \in {"created", "route", "routed"} => c.id \in DOMAIN dlgServices

(* What is submitted is what was typed: the repository when the text names one,
   a name unless it is one that could have been inferred, and a branch other
   than "main", whatever was typed in between and whenever the App's
   repositories arrive (AddServiceModal.vue:182-221). *)
TypedIsSubmitted ==
  \A c \in dlgCalls :
    /\ c.form.text \in DlgRepos => c.repo = c.form.text
    /\ c.form.ownName \notin {DlgNone} \cup DlgInferreds => c.name = c.form.ownName
    /\ c.form.ownBranch \notin {DlgNone, "main"} => c.branch = c.form.ownBranch

(* The dialog closes by itself and announces the service only when the server
   stored it under the submitted name, with a route on the domain that the page
   fixes or, on the overview, on the one that was picked when the answer of the
   first request arrived.  What others deleted since then is not seen before the
   page loads its data again (AddServiceModal.vue:309-320). *)
AnnouncedIsComplete ==
  [][\A c \in dlgCalls :
       (\A d \in dlgCalls' : d.n # c.n) /\ ~dlgForm'.error
       => /\ c.id \in DOMAIN dlgServices /\ dlgServices[c.id].name = c.name
          /\ {IF c.step = "created" THEN DlgRouteDomain ELSE c.domain, dlgPage} \ {DlgNone} \subseteq dlgServices[c.id].routes]_DlgVars

(* Together: one submission at a time, of what was typed. *)
DialogIsSound == DlgTypeOK /\ TypedIsSubmitted

=============================================================================
