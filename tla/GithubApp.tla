----------------------------- MODULE GithubApp -----------------------------
(***************************************************************************)
(* The GitHub App's configuration and the cache of its repositories:       *)
(* routers/github.ts, services/github.ts and the page                      *)
(* web/src/pages/Integrations.vue.                                         *)
(*                                                                         *)
(* Every configuration that is stored gets a number, and a repository list *)
(* or an error is the number of the configuration it was fetched with; 0   *)
(* is none.  Credentials live in one row (the older keys of SystemConfig   *)
(* are read along with it), the three cache keys in rows of their own.     *)
(***************************************************************************)
EXTENDS Naturals

CONSTANTS AppConfs,   \* bound: configurations stored
          AppMoves    \* bound: actions of the page's user and other administrators

ASSUME AppAssumption == {AppConfs, AppMoves} \subseteq Nat

VARIABLES
  appConf,     \* GithubIntegration: the configuration, its slug
  appCache,    \* repository cache, checked-at time, last error
  appRefresh,  \* refreshAppRepoCacheInBackground
  appInFlight, \* appRepoRefreshInFlight
  appRecent,   \* a refresh started less than 30 s ago
  appAct,      \* setAppConfig, exchangeManifestCode, clearAppConfig
  appPage,     \* the page's refs and requests
  appCount,    \* configurations stored so far, actions so far
  appMixed     \* observer: a refresh, a page load or a mutation overlapped a
               \* mutation, or a configuration came by the manifest

AppVars == <<appConf, appCache, appRefresh, appInFlight, appRecent, appAct, appPage, appCount,
             appMixed>>

AppAdmins == {"page", "other"}
AppNumbers == 0 .. AppConfs
AppCacheKeys == {"repos", "checked", "error"}
AppNoCache == [k \in AppCacheKeys |-> 0]
AppNoRefresh == [step |-> "none", conf |-> 0, todo |-> {}]
AppNoAct == [op |-> "none", step |-> "idle", conf |-> 0]
AppIdlePage == [conf |-> 0, shown |-> 0, timer |-> FALSE, request |-> "none", answer |-> 0,
                refreshing |-> FALSE]

AppInit ==
  /\ appConf = [conf |-> 0, slug |-> 0]
  /\ appCache = AppNoCache /\ appRefresh = AppNoRefresh
  /\ appInFlight = FALSE /\ appRecent = FALSE /\ appMixed = FALSE
  /\ appAct = [a \in AppAdmins |-> AppNoAct]
  /\ appPage = AppIdlePage
  /\ appCount = [confs |-> 0, moves |-> 0]

AppMove == appCount.moves < AppMoves /\ appCount' = [appCount EXCEPT !.moves = @ + 1]
AppActs(a, step) == appAct[a].step = step
AppGoes(a, step) == appAct' = [appAct EXCEPT ![a].step = step]
AppReturns(a) == appAct' = [appAct EXCEPT ![a] = AppNoAct]
AppBusy == \/ appInFlight \/ appPage.request # "none" \/ appPage.timer
           \/ \E a \in AppAdmins : appAct[a].op # "none"

-----------------------------------------------------------------------------
(* The background refresh *)

(* refreshAppRepoCacheInBackground(force): up to its first await. *)
AppRefresh(force) ==
  IF appInFlight \/ (~force /\ appRecent)
  THEN UNCHANGED <<appRefresh, appInFlight, appRecent>>
  ELSE /\ appInFlight' = TRUE /\ appRecent' = TRUE
       /\ appRefresh' = [AppNoRefresh EXCEPT !.step = "read"]

AppRefreshRest == UNCHANGED <<appConf, appRecent, appAct, appPage, appCount, appMixed>>

(* Faulty variant: the promise is forgotten on the way out of success only. *)
AppRefreshOverIfOk ==
  /\ appRefresh' = AppNoRefresh
  /\ appInFlight' = (appRefresh.step = "failed")

AppRefreshOver == appRefresh' = AppNoRefresh /\ appInFlight' = FALSE

\* Faulty variant: GitHub is asked without credentials.
AppReadConfUnchecked ==
  /\ appRefresh.step = "read"
  /\ appRefresh' = [appRefresh EXCEPT !.step = "fetch", !.conf = appConf.conf]
  /\ UNCHANGED <<appCache, appInFlight>> /\ AppRefreshRest

AppReadConf ==
  /\ appRefresh.step = "read"
  /\ appRefresh' = [appRefresh EXCEPT !.step = IF appConf.conf = 0 THEN "clear" ELSE "fetch",
                                      !.conf = appConf.conf]
  /\ UNCHANGED <<appCache, appInFlight>> /\ AppRefreshRest

(* No configuration: the cache is deleted. *)
AppDropCache ==
  /\ appRefresh.step = "clear"
  /\ appCache' = AppNoCache /\ AppRefreshOver /\ AppRefreshRest

(* GitHub answers: the App, its installations, a token and repositories of
   each; or one of these requests fails. *)
AppFetched ==
  /\ appRefresh.step = "fetch"
  /\ appRefresh' \in {[appRefresh EXCEPT !.step = "store", !.todo = AppCacheKeys],
                      [appRefresh EXCEPT !.step = "failed"]}
  /\ UNCHANGED <<appCache, appInFlight>> /\ AppRefreshRest

(* Promise.all of three setConfig: in any order. *)
AppStore ==
  /\ appRefresh.step = "store"
  /\ \E k \in appRefresh.todo :
       /\ appCache' = [appCache EXCEPT ![k] = IF k = "error" THEN 0 ELSE appRefresh.conf]
       /\ IF appRefresh.todo = {k} THEN AppRefreshOver
          ELSE appRefresh' = [appRefresh EXCEPT !.todo = @ \ {k}] /\ UNCHANGED appInFlight
  /\ AppRefreshRest

AppStoreError ==
  /\ appRefresh.step = "failed"
  /\ appCache' = [appCache EXCEPT !["error"] = appRefresh.conf]
  /\ AppRefreshOver /\ AppRefreshRest

AppThrottleEnds ==
  /\ appRecent /\ appRecent' = FALSE
  /\ UNCHANGED <<appConf, appCache, appRefresh, appInFlight, appAct, appPage, appCount, appMixed>>

-----------------------------------------------------------------------------
(* Mutations *)

AppActRest == UNCHANGED <<appRefresh, appInFlight, appRecent, appPage>>

AppStart(a) ==
  /\ AppActs(a, "idle") /\ AppMove
  /\ a = "page" => appPage.request = "none"
  /\ \E op \in {"set", "exchange", "clear"} :
       /\ a = "page" => op # "exchange"
       /\ appAct' = [appAct EXCEPT ![a] = [op |-> op, conf |-> 0,
                       step |-> IF op = "clear" THEN "delete" ELSE "upsert"]]
  /\ appMixed' = (appMixed \/ AppBusy)
  /\ UNCHANGED <<appConf, appCache>> /\ AppActRest

(* upsertGithubIntegrationConfig: without a slug in setAppConfig. *)
AppUpsert(a) ==
  LET n == appCount.confs + 1 IN
  /\ AppActs(a, "upsert") /\ n <= AppConfs
  /\ appCount' = [appCount EXCEPT !.confs = n]
  /\ appConf' = [conf |-> n, slug |-> IF appAct[a].op = "exchange" THEN n ELSE 0]
  /\ appAct' = [appAct EXCEPT ![a].step = IF appAct[a].op = "exchange" THEN "return" ELSE "clear",
                              ![a].conf = n]
  /\ appMixed' = (appMixed \/ appAct[a].op = "exchange")
  /\ UNCHANGED appCache /\ AppActRest

AppDeleteConf(a) ==
  /\ AppActs(a, "delete")
  /\ appConf' = [conf |-> 0, slug |-> 0]
  /\ AppGoes(a, "clear")
  /\ UNCHANGED <<appCache, appCount, appMixed>> /\ AppActRest

(* Faulty variant: the cache of the previous App is left. *)
AppClearCacheSkipped(a) ==
  /\ AppActs(a, "clear")
  /\ AppGoes(a, IF appAct[a].op = "set" THEN "slug" ELSE "return")
  /\ UNCHANGED <<appConf, appCache, appCount, appMixed>> /\ AppActRest

(* clearCachedAppRepoInfo *)
AppClearCache(a) ==
  /\ AppActs(a, "clear")
  /\ appCache' = AppNoCache
  /\ AppGoes(a, IF appAct[a].op = "set" THEN "slug" ELSE "return")
  /\ UNCHANGED <<appConf, appCount, appMixed>> /\ AppActRest

(* GitHub is asked for the slug; it may fail. *)
AppAskSlug(a) ==
  /\ AppActs(a, "slug")
  /\ AppGoes(a, "storeSlug") \/ AppGoes(a, "refresh")
  /\ UNCHANGED <<appConf, appCache, appCount, appMixed>> /\ AppActRest

(* setGithubIntegrationSlug: an upsert, whatever the row is now. *)
AppStoreSlug(a) ==
  /\ AppActs(a, "storeSlug")
  /\ appConf' = [appConf EXCEPT !.slug = appAct[a].conf]
  /\ AppGoes(a, "refresh")
  /\ UNCHANGED <<appCache, appCount, appMixed>> /\ AppActRest

AppRefreshForced(a) ==
  /\ AppActs(a, "refresh")
  /\ AppRefresh(TRUE)
  /\ AppGoes(a, "return")
  /\ UNCHANGED <<appConf, appCache, appPage, appCount, appMixed>>

(* The page goes on with fetchAppConfig after "set" and forgets its refs after
   "clear"; neither a timer nor a request in flight is cancelled. *)
AppReturned(a) ==
  /\ AppActs(a, "return")
  /\ AppReturns(a)
  /\ appPage' = CASE a = "other" -> appPage
                  [] a = "page" /\ appAct[a].op = "set" -> [appPage EXCEPT !.request = "conf"]
                  [] a = "page" /\ appAct[a].op = "clear" -> [appPage EXCEPT !.conf = 0, !.shown = 0]
  /\ UNCHANGED <<appConf, appCache, appRefresh, appInFlight, appRecent, appCount, appMixed>>

-----------------------------------------------------------------------------
(* The page *)

AppPageRest == UNCHANGED <<appConf, appCache, appAct, appMixed>>
AppNoRefreshStarted == UNCHANGED <<appRefresh, appInFlight, appRecent>>

(* onMounted(fetchAppConfig); leaving the page cancels its timer only. *)
AppOpen ==
  /\ AppMove /\ appAct["page"].op = "none" /\ appPage.request = "none"
  /\ appPage' = [AppIdlePage EXCEPT !.request = "conf"]
  /\ appMixed' = (appMixed \/ \E a \in AppAdmins : appAct[a].op # "none")
  /\ UNCHANGED <<appConf, appCache, appAct>> /\ AppNoRefreshStarted

(* getAppConfig *)
AppGetConf ==
  /\ appPage.request = "conf"
  /\ appPage' = IF appConf.conf = 0
                THEN [appPage EXCEPT !.conf = 0, !.shown = 0, !.request = "none"]
                ELSE [appPage EXCEPT !.conf = appConf.conf, !.request = "list", !.timer = FALSE]
  /\ UNCHANGED appCount /\ AppPageRest /\ AppNoRefreshStarted

(* The timer: fetchRepoInfo(true). *)
AppTimer ==
  /\ appPage.timer /\ appPage.request = "none"
  /\ appPage' = [appPage EXCEPT !.timer = FALSE, !.request = "list"]
  /\ UNCHANGED appCount /\ AppPageRest /\ AppNoRefreshStarted

(* listAppRepos reads the configuration, then the cache. *)
AppListConf ==
  /\ appPage.request = "list"
  /\ appPage' = [appPage EXCEPT !.request = IF appConf.conf = 0 THEN "off" ELSE "cache"]
  /\ UNCHANGED appCount /\ AppPageRest /\ AppNoRefreshStarted

(* Faulty variant: it says whether a refresh ran before this call. *)
AppListCacheBefore ==
  /\ appPage.request = "cache"
  /\ AppRefresh(appCache["repos"] = 0)
  /\ appPage' = [appPage EXCEPT !.request = "answered", !.answer = appCache["repos"],
                                !.refreshing = appInFlight]
  /\ UNCHANGED appCount /\ AppPageRest

(* The cache is answered at once, a refresh started unless one ran recently. *)
AppListCache ==
  /\ appPage.request = "cache"
  /\ AppRefresh(appCache["repos"] = 0)
  /\ appPage' = [appPage EXCEPT !.request = "answered", !.answer = appCache["repos"],
                                !.refreshing = appInFlight']
  /\ UNCHANGED appCount /\ AppPageRest

AppShow ==
  /\ appPage.request \in {"answered", "off"}
  /\ appPage' = IF appPage.request = "off" THEN [appPage EXCEPT !.shown = 0, !.request = "none"]
                ELSE [appPage EXCEPT !.shown = appPage.answer, !.timer = appPage.refreshing,
                                     !.request = "none"]
  /\ UNCHANGED appCount /\ AppPageRest /\ AppNoRefreshStarted

AppNext ==
  \/ AppReadConf \/ AppDropCache \/ AppFetched \/ AppStore \/ AppStoreError \/ AppThrottleEnds
  \/ \E a \in AppAdmins :
       \/ AppStart(a) \/ AppUpsert(a) \/ AppDeleteConf(a) \/ AppClearCache(a)
       \/ AppAskSlug(a) \/ AppStoreSlug(a) \/ AppRefreshForced(a) \/ AppReturned(a)
  \/ AppOpen \/ AppGetConf \/ AppTimer \/ AppListConf \/ AppListCache \/ AppShow

AppSpec == AppInit /\ [][AppNext]_AppVars

-----------------------------------------------------------------------------
(* Types; GitHub is only asked with credentials. *)
AppTypeOK ==
  /\ appConf \in [conf : AppNumbers, slug : AppNumbers]
  /\ appCache \in [AppCacheKeys -> AppNumbers]
  /\ appRefresh \in [step : {"none", "read", "clear", "fetch", "store", "failed"},
                     conf : AppNumbers, todo : SUBSET AppCacheKeys]
  /\ appRefresh.step \in {"fetch", "store", "failed"} => appRefresh.conf # 0
  /\ appAct \in [AppAdmins -> [op : {"none", "set", "exchange", "clear"}, conf : AppNumbers,
       step : {"idle", "upsert", "delete", "clear", "slug", "storeSlug", "refresh", "return"}]]
  /\ {appInFlight, appRecent, appMixed, appPage.timer, appPage.refreshing} \subseteq BOOLEAN
  /\ {appPage.conf, appPage.shown, appPage.answer} \subseteq AppNumbers
  /\ appPage.request \in {"none", "conf", "list", "off", "cache", "answered"}

(* Nobody waits for a refresh that is over: the promise is forgotten exactly
   when the refresh ends, failed or not (github.ts:265-297). *)
InFlightIsRefreshing == appInFlight <=> appRefresh.step # "none"

(* Unless mutations, refreshes and page loads overlapped or a configuration
   came from a manifest (which leaves the cache), the cache and the slug are the
   configured App's when no mutation is under way (github.ts:443-471). *)
CacheIsOfApp ==
  ~appMixed /\ (\A a \in AppAdmins : appAct[a].op = "none")
    => /\ \A k \in AppCacheKeys : appCache[k] \in {0, appConf.conf}
       /\ appConf.slug \in {0, appConf.conf}

(* Under the same condition the page does not stop asking before it shows the
   repositories the cache has got (Integrations.vue:321-347, github.ts:531-560). *)
PageGetsRepos ==
  ~appMixed /\ ~AppBusy /\ appPage.conf = appConf.conf /\ appConf.conf # 0
    /\ appCache["repos"] # 0
    => appPage.shown = appCache["repos"]

(* Together: the cache is the App's, is refreshed and reaches the page. *)
CacheIsSound == AppTypeOK /\ InFlightIsRefreshing /\ CacheIsOfApp /\ PageGetsRepos

=============================================================================
