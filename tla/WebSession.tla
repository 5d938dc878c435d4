----------------------------- MODULE WebSession -----------------------------
(***************************************************************************)
(* One browser tab between the router's guard, the auth store, the login   *)
(* and password pages and the auth handlers of the server: router.ts,      *)
(* stores/auth.ts, Login.vue, ChangePassword.vue and routers/auth.ts.      *)
(*                                                                         *)
(* Every await is a step.  Pages are "login", "change" (both public),      *)
(* "home" and "list", which stands for the others.  A page's code may fail *)
(* to load; the tab then loads the address anew.                           *)
(***************************************************************************)
EXTENDS Naturals, FiniteSets

CONSTANTS SessTokens,  \* bound: sessions created
          SessMoves,   \* bound: moves of the user
          SessOthers   \* bound: moves of other administrators and of time

ASSUME SessAssumption == {SessTokens, SessMoves, SessOthers} \subseteq Nat

VARIABLES sessUser,    \* {} or {[must]}: the User row
          sessSetup,   \* SystemConfig has setup_complete
          sessOver,    \* SystemConfig has override_password_hash
          sessRows,    \* Token rows
          sessCount,   \* how many of each bounded kind so far
          sessForm,    \* the request of a form or of the logout button
          sessTab      \* the tab: cookie, store, router, sessionStorage

SessVars == <<sessUser, sessSetup, sessOver, sessRows, sessCount, sessForm, sessTab>>

SessPublic == {"login", "change"}
SessPages == {"home", "list"} \cup SessPublic
SessNoNav == [to |-> "none", step |-> "idle", got |-> "none", redirects |-> 0]
SessNoForm == [kind |-> "none", step |-> "idle", must |-> FALSE, mine |-> TRUE]
SessBlank == [cookie |-> 0, user |-> "none", page |-> "blank", nav |-> SessNoNav, strays |-> {},
              pending |-> {}, key |-> {}, watch |-> FALSE, timer |-> FALSE, changed |-> FALSE,
              hard |-> 0, answers |-> {}, lost |-> FALSE, late |-> FALSE]

SessDb == <<sessUser, sessSetup, sessOver, sessRows>>
SessMove ==
  /\ sessCount.moves < SessMoves /\ sessTab.strays = {}
  /\ sessCount' = [sessCount EXCEPT !.moves = @ + 1]

\* What authenticateToken makes of the cookie.
SessWho(cookie) ==
  IF cookie \notin sessRows THEN "none" ELSE IF \E u \in sessUser : u.must THEN "must" ELSE "settled"

-----------------------------------------------------------------------------
(* The router *)

\* Faulty variant: a signed-in user leaves the login page before the password is changed.
SessGuardHome(to, user) ==
  IF user = "none" /\ to \notin SessPublic THEN "login"
  ELSE IF user # "none" /\ to \in {"login", "change"} THEN "home"
  ELSE IF user = "must" THEN "change" ELSE to

\* Faulty variant: only the start page asks for the change.
SessGuardStart(to, user) ==
  IF user = "none" /\ to \notin SessPublic THEN "login"
  ELSE IF user = "must" /\ to \in {"home", "login"} THEN "change"
  ELSE IF user # "none" /\ to = "login" THEN "home"
  ELSE to

(* beforeEach, once the store knows the user or that there is none. *)
SessGuard(to, user) ==
  IF user = "none" /\ to \notin SessPublic THEN "login"
  ELSE IF user = "must" /\ to # "change" THEN "change"
  ELSE IF user # "none" /\ to = "login" THEN "home"
  ELSE to

SessEnters(tab, to, redirects) ==
  [tab EXCEPT !.pending = {to}, !.late = FALSE,
     !.nav = [to |-> to, step |-> IF tab.user = "none" THEN "ask" ELSE "guard", got |-> "none",
              redirects |-> redirects]]

\* A navigation that another one replaces still ends; so does its whoami.
SessCancelled(tab) ==
  IF tab.nav.step = "idle" THEN tab.strays
  ELSE tab.strays \cup {IF tab.nav.step \in {"ask", "reply"} THEN [step |-> tab.nav.step, got |-> tab.nav.got]
                        ELSE [step |-> "end", got |-> "none"]}

\* A navigation to the page that is shown is none, but gives up another one.
SessStays(tab) == [tab EXCEPT !.nav = SessNoNav, !.pending = {}, !.key = {}]

SessPush(tab, to) ==
  LET rest == [tab EXCEPT !.strays = SessCancelled(tab), !.nav = SessNoNav] IN
  IF tab.page # to THEN SessEnters(rest, to, 0)
  ELSE [SessStays(rest) EXCEPT !.lost = tab.lost \/ tab.nav.step # "idle"]

(* The store's user.  The observer counts redirects from its last change, and
   notes a change that no layout watches and the guard has not seen. *)
SessSetUser(tab, user) ==
  LET news == user = "must" /\ tab.user # "must"
      layout == tab.page \in SessPages \ SessPublic
  IN [tab EXCEPT !.user = user,
        !.watch = tab.watch \/ (news /\ layout),
        !.late = tab.late \/ (news /\ ~layout /\ tab.nav.step = "load"),
        !.nav = [tab.nav EXCEPT !.redirects = IF user = tab.user THEN tab.nav.redirects ELSE 0]]

SessTabOnly == UNCHANGED <<SessDb, sessCount, sessForm>>

(* whoami is answered: by the server as it is now, or not at all. *)
SessAsked ==
  /\ sessTab.nav.step = "ask"
  /\ \E got \in {SessWho(sessTab.cookie), "error"} :
       sessTab' = [sessTab EXCEPT !.nav = [sessTab.nav EXCEPT !.step = "reply", !.got = got],
                           !.answers = @ \cup {got}]
  /\ SessTabOnly

\* fetchUser keeps the user when the request failed.
SessFetched(got) == IF got = "error" THEN sessTab.user ELSE got

SessReplied ==
  /\ sessTab.nav.step = "reply"
  /\ LET tab == SessSetUser(sessTab, SessFetched(sessTab.nav.got)) IN
     sessTab' = [tab EXCEPT !.nav = [tab.nav EXCEPT !.step = "guard", !.got = "none"]]
  /\ SessTabOnly

SessGuarded ==
  /\ sessTab.nav.step = "guard"
  /\ LET to == SessGuard(sessTab.nav.to, sessTab.user) IN
     sessTab' = IF to = sessTab.nav.to THEN [sessTab EXCEPT !.nav = [sessTab.nav EXCEPT !.step = "load"]]
                ELSE IF to = sessTab.page THEN SessStays(sessTab)
                ELSE SessEnters(sessTab, to, sessTab.nav.redirects + 1)
  /\ SessTabOnly

(* afterEach: the page is shown. *)
SessLoaded ==
  /\ sessTab.nav.step = "load"
  /\ sessTab' = [sessTab EXCEPT !.page = sessTab.nav.to, !.nav = SessNoNav, !.pending = {}, !.key = {},
                   !.timer = FALSE, !.hard = 0, !.answers = {}, !.lost = FALSE]
  /\ SessTabOnly

(* afterEach again, for a navigation that was replaced. *)
SessStrayEnds(s) ==
  /\ s \in sessTab.strays
  /\ \/ /\ s.step = "ask"
        /\ \E got \in {SessWho(sessTab.cookie), "error"} :
             sessTab' = [sessTab EXCEPT !.strays = (@ \ {s}) \cup {[step |-> "reply", got |-> got]}]
     \/ /\ s.step = "reply"
        /\ sessTab' = [SessSetUser(sessTab, SessFetched(s.got)) EXCEPT
                         !.strays = (sessTab.strays \ {s}) \cup {[step |-> "end", got |-> "none"]}]
     \/ /\ s.step = "end"
        /\ sessTab' = [sessTab EXCEPT !.strays = @ \ {s}, !.pending = {}, !.key = {}]
  /\ SessTabOnly

\* The tab loads an address: nothing but cookie and sessionStorage survives.
SessOpens(tab, to) ==
  SessEnters([SessBlank EXCEPT !.cookie = tab.cookie, !.key = tab.key, !.hard = tab.hard,
                !.answers = tab.answers], to, 0)

\* Faulty variant: the last recovery is not remembered.
SessRecoversAlways(target) == TRUE

SessRecovers(target) == target \notin sessTab.key

(* recoverFromNavigationError. *)
SessBroken ==
  /\ sessTab.nav.step = "load" /\ sessTab.hard < 3
  /\ \E target \in IF sessTab.pending = {} THEN {sessTab.page} ELSE sessTab.pending :
       IF SessRecovers(target) /\ target # "blank"
       THEN /\ sessTab' = SessOpens([sessTab EXCEPT !.key = {target}, !.hard = @ + 1], target)
            /\ sessForm' = [sessForm EXCEPT !.mine = sessForm = SessNoForm]
       ELSE sessTab' = [sessTab EXCEPT !.nav = SessNoNav, !.lost = TRUE] /\ UNCHANGED sessForm
  /\ UNCHANGED <<SessDb, sessCount>>

(* The watcher in Layout.vue, when a layout is mounted. *)
SessWatch ==
  /\ sessTab.watch
  /\ LET tab == [sessTab EXCEPT !.watch = FALSE] IN
     sessTab' = IF tab.page \in SessPublic \cup {"blank"} THEN tab ELSE SessPush(tab, "change")
  /\ SessTabOnly

-----------------------------------------------------------------------------
(* The user *)

SessOpen(to) ==
  /\ SessMove
  /\ sessTab' = SessOpens([sessTab EXCEPT !.hard = 0, !.answers = {}], to)
  /\ sessForm' = [sessForm EXCEPT !.mine = sessForm = SessNoForm] /\ UNCHANGED SessDb

SessClick(to) ==
  /\ sessTab.page \in SessPages \ SessPublic /\ SessMove
  /\ sessTab' = SessPush([sessTab EXCEPT !.hard = 0, !.answers = {}], to)
  /\ UNCHANGED <<SessDb, sessForm>>

(* A form is sent; what Login.vue sends depends on setupStatus. *)
SessSubmit ==
  /\ sessForm = SessNoForm /\ sessTab.nav.step = "idle"
  /\ SessMove
  /\ LET kind == IF sessTab.page = "change" THEN "change" ELSE IF sessSetup THEN "login" ELSE "setup" IN
     sessForm' = [SessNoForm EXCEPT !.kind = kind, !.step = "sent"]
  /\ sessTab.page \in SessPublic
  /\ sessTab' = [sessTab EXCEPT !.changed = FALSE] /\ UNCHANGED SessDb

(* The logout button does not wait for the answer. *)
SessLogout ==
  /\ sessForm = SessNoForm /\ sessTab.page \in SessPages \ SessPublic
  /\ SessMove
  /\ sessForm' = [SessNoForm EXCEPT !.kind = "logout", !.step = "sent"]
  /\ sessTab' = SessPush([sessTab EXCEPT !.hard = 0, !.answers = {}, !.changed = FALSE], "login")
  /\ UNCHANGED SessDb

(* ChangePassword.vue goes home one second after its success. *)
SessTimer ==
  /\ sessTab.timer
  /\ sessTab' = SessPush([sessTab EXCEPT !.timer = FALSE], "home")
  /\ SessTabOnly

-----------------------------------------------------------------------------
(* The handlers: each step is one access to the database. *)

SessAt(kind, step) == sessForm.kind = kind /\ sessForm.step = step
SessGoes(step) == sessForm' = [sessForm EXCEPT !.step = step]

\* login: the user, the password; then the override password.
SessVerify ==
  /\ SessAt("login", "sent")
  /\ \/ /\ sessUser # {}
        /\ sessForm' = [sessForm EXCEPT !.step = "session", !.must = \E u \in sessUser : u.must]
     \/ SessGoes(IF sessOver THEN "override" ELSE "refused")
  /\ UNCHANGED <<SessDb, sessCount, sessTab>>

SessOverride ==
  /\ SessAt("login", "override")
  /\ \/ sessUser' = {[must |-> FALSE]} /\ SessGoes("burn")
     \/ SessGoes("refused") /\ UNCHANGED sessUser
  /\ UNCHANGED <<sessSetup, sessOver, sessRows, sessCount, sessTab>>

SessBurn ==
  /\ SessAt("login", "burn") /\ sessOver' = FALSE /\ SessGoes("session")
  /\ UNCHANGED <<sessUser, sessSetup, sessRows, sessCount, sessTab>>

\* setupComplete
SessMayCreate ==
  /\ SessAt("setup", "sent") /\ SessGoes(IF sessSetup \/ sessUser # {} THEN "refused" ELSE "user")
  /\ UNCHANGED <<SessDb, sessCount, sessTab>>

SessCreateUser ==
  /\ SessAt("setup", "user") /\ sessUser' = {[must |-> FALSE]} /\ SessGoes("flag")
  /\ UNCHANGED <<sessSetup, sessOver, sessRows, sessCount, sessTab>>

SessSetupDone ==
  /\ SessAt("setup", "flag") /\ sessSetup' = TRUE /\ SessGoes("session")
  /\ UNCHANGED <<sessUser, sessOver, sessRows, sessCount, sessTab>>

\* changePassword
SessCheck ==
  /\ SessAt("change", "sent")
  /\ SessGoes("refused") \/ (SessWho(sessTab.cookie) # "none" /\ SessGoes("update"))
  /\ UNCHANGED <<SessDb, sessCount, sessTab>>

SessUpdate ==
  /\ SessAt("change", "update")
  /\ IF sessUser = {} THEN SessGoes("refused") /\ UNCHANGED sessUser
     ELSE sessUser' = {[must |-> FALSE]} /\ SessGoes("clear")
  /\ UNCHANGED <<sessSetup, sessOver, sessRows, sessCount, sessTab>>

SessClear ==
  /\ SessAt("change", "clear") /\ sessRows' = {} /\ SessGoes("session")
  /\ UNCHANGED <<sessUser, sessSetup, sessOver, sessCount, sessTab>>

\* Faulty variant: the new session is created before the old ones are removed.
SessSessionFirst == IF sessForm.kind = "change" THEN {} ELSE {sessCount.tokens + 1}

\* createSession's row.
SessSession == {sessCount.tokens + 1}

SessCreate ==
  /\ sessForm.step = "session" /\ sessCount.tokens < SessTokens
  /\ IF sessUser = {} THEN SessGoes("refused") /\ UNCHANGED <<sessRows, sessCount>>
     ELSE /\ sessRows' = sessRows \cup SessSession
          /\ sessCount' = [sessCount EXCEPT !.tokens = @ + 1] /\ SessGoes("answer")
  /\ UNCHANGED <<sessUser, sessSetup, sessOver, sessTab>>

\* logout; the token may be gone already, and the answer then is an error.
SessRemove ==
  /\ SessAt("logout", "sent")
  /\ SessGoes(IF sessTab.cookie \in sessRows THEN "answer" ELSE "refused")
  /\ sessRows' = sessRows \ {sessTab.cookie}
  /\ UNCHANGED <<sessUser, sessSetup, sessOver, sessCount, sessTab>>

\* A statement throws, or the process dies.
SessFails ==
  /\ sessForm.step \in {"sent", "override", "burn", "user", "flag", "update", "clear", "session"}
  /\ SessGoes("refused")
  /\ UNCHANGED <<SessDb, sessCount, sessTab>>

-----------------------------------------------------------------------------
(* Answers *)

\* Faulty variant: the cookie is numbered before the row exists.
SessCookieNext ==
  [sessTab EXCEPT !.cookie = IF sessForm.kind = "logout" THEN 0 ELSE sessCount.tokens + 1]

\* The answer sets or clears the cookie; its page may be gone.
SessCookie ==
  [sessTab EXCEPT !.cookie = IF sessForm.step = "refused" THEN @
                             ELSE IF sessForm.kind = "logout" THEN 0 ELSE sessCount.tokens]

SessAnswered ==
  /\ sessForm.step \in {"answer", "refused"}
  /\ LET tab == SessCookie
         told == sessForm.mine /\ (sessForm.kind = "logout" \/ sessForm.step = "answer")
     IN \/ ~told /\ sessTab' = tab /\ sessForm' = SessNoForm
        \/ /\ told /\ sessForm.kind = "logout"
           /\ sessTab' = SessSetUser(tab, "none") /\ sessForm' = SessNoForm
        \/ /\ told /\ sessForm.kind = "login" /\ sessForm' = SessNoForm
           /\ sessTab' = SessPush(SessSetUser(tab, IF sessForm.must THEN "must" ELSE "settled"),
                                  IF sessForm.must THEN "change" ELSE "home")
        \/ told /\ sessForm.kind \in {"setup", "change"} /\ sessTab' = tab /\ SessGoes("who")
  /\ UNCHANGED <<SessDb, sessCount>>

(* fetchUser after a setup or a change. *)
SessFinish ==
  /\ sessForm.step = "who" /\ sessForm' = SessNoForm
  /\ \E got \in {SessWho(sessTab.cookie), "error"} :
       LET tab == SessSetUser(sessTab, SessFetched(got)) IN
       sessTab' = IF ~sessForm.mine THEN sessTab
                  ELSE IF sessForm.kind = "setup" THEN SessPush(tab, "home")
                  ELSE [tab EXCEPT !.timer = TRUE, !.changed = TRUE]
  /\ UNCHANGED <<SessDb, sessCount>>

-----------------------------------------------------------------------------
(* Others: the password is reset, a session expires, the account is deleted or
   created anew; a handler that has read it then fails on its row. *)
SessOther ==
  /\ sessCount.others < SessOthers /\ sessCount' = [sessCount EXCEPT !.others = @ + 1]
  /\ \/ sessUser # {} /\ sessUser' = {[must |-> FALSE]} /\ UNCHANGED sessRows
     \/ sessRows' = {} /\ UNCHANGED sessUser
     \/ sessRows' = {} /\ sessUser' \in {{}, {[must |-> TRUE]}} /\ sessSetup
  /\ IF sessRows' = {} /\ sessUser' # sessUser /\ sessForm.step \in {"update", "clear", "session"}
     THEN SessGoes("refused") ELSE UNCHANGED sessForm
  /\ UNCHANGED <<sessSetup, sessOver, sessTab>>

(* The user signs in in another tab, which shares the cookie. *)
SessOtherTab ==
  /\ sessCount.others < SessOthers /\ sessCount.tokens < SessTokens /\ sessUser # {}
  /\ sessCount' = [sessCount EXCEPT !.others = @ + 1, !.tokens = @ + 1]
  /\ sessRows' = sessRows \cup {sessCount.tokens + 1}
  /\ sessTab' = [sessTab EXCEPT !.cookie = sessCount.tokens + 1]
  /\ UNCHANGED <<sessUser, sessSetup, sessOver, sessForm>>

(* A tab is opened. *)
SessInit ==
  /\ sessSetup \in BOOLEAN /\ sessUser \in {{}} \cup {{[must |-> m]} : m \in BOOLEAN}
  /\ sessSetup <=> sessUser # {}
  /\ sessOver \in BOOLEAN /\ (sessOver => sessSetup)
  /\ sessRows = {} /\ sessForm = SessNoForm
  /\ \E to \in SessPages : sessTab = SessOpens(SessBlank, to)
  /\ sessCount = [tokens |-> 0, moves |-> 0, others |-> 0]

SessNext ==
  \/ SessAsked \/ SessReplied \/ SessGuarded \/ SessLoaded \/ SessBroken \/ SessWatch
  \/ \E s \in sessTab.strays : SessStrayEnds(s)
  \/ \E to \in SessPages : SessOpen(to)
  \/ \E to \in SessPages \ SessPublic : SessClick(to)
  \/ SessSubmit \/ SessLogout \/ SessTimer
  \/ SessVerify \/ SessOverride \/ SessBurn \/ SessMayCreate \/ SessCreateUser \/ SessSetupDone
  \/ SessCheck \/ SessUpdate \/ SessClear \/ SessCreate \/ SessRemove \/ SessFails
  \/ SessAnswered \/ SessFinish \/ SessOther \/ SessOtherTab

SessSpec == SessInit /\ [][SessNext]_SessVars

-----------------------------------------------------------------------------
(* Types: the store holds a user only if somebody signed in here. *)
SessTypeOK ==
  /\ Cardinality(sessUser) <= 1 /\ sessRows \subseteq 1 .. SessTokens
  /\ sessTab.cookie \in 0 .. sessCount.tokens
  /\ sessTab.page \in SessPages \cup {"blank"} /\ Cardinality(sessTab.pending) <= 1
  /\ sessTab.user # "none" => sessCount.tokens > 0
  /\ sessTab.nav.step # "idle" => sessTab.nav.to \in SessPages

(* A navigation is redirected at most once for what the store knows, so the
   guard cannot go round in circles (router.ts:91-111). *)
RedirectsSettle == sessTab.nav.redirects <= 1

(* While whoami keeps its answer, a page that cannot be loaded is loaded anew
   at most twice, for the address and for the page it redirects to; then the
   error stays (router.ts:16-26, "Prevent infinite loops"). *)
RecoveryStops == Cardinality(sessTab.answers) <= 1 => sessTab.hard <= 2

(* After a change of the password the browser is signed in with its new
   session, unless others intervened (auth.ts:224-240; stores/auth.ts:110-124). *)
SignedInAfterChange ==
  sessTab.changed /\ sessCount.others = 0 => sessTab.cookie \in sessRows

(* A page of the application is not left open to a user who must change the
   password: the guard or the watcher of the layout leads to the change, unless
   its page could not be loaded, the user went back to the page that is shown,
   or the store heard of it when a navigation from a page without a layout was
   past its guard (router.ts:102-108; Layout.vue:71-76). *)
ChangeIsAsked ==
  sessTab.user = "must" /\ sessTab.nav.step = "idle" /\ ~sessTab.watch /\ ~sessTab.lost /\ ~sessTab.late
    => sessTab.page \in SessPublic

(* Together: navigation ends, and where it ends fits who is signed in. *)
SessionIsSound ==
  SessTypeOK /\ RedirectsSettle /\ RecoveryStops /\ SignedInAfterChange /\ ChangeIsAsked

=============================================================================
