# Sitey in TLA+

This directory models Sitey, a self-hosted platform that deploys GitHub
repositories to one machine with Docker and Caddy: its server (`server/src`),
the protocols of its web pages (`web/src`) and its command line tools
(`siteyctl/src`, `deploy/siteyctl`). TLC checks the models on small instances;
TLAPS proves the main theorems for every value of the constants.
`PROJECT.json` maps definitions to source lines and lists runs, mutants,
findings, hazards and theorems.

    tlc -workers 2 -config MCProgress.cfg MCProgress.tla
    tlapm DeployQueueProofs.tla

## The system

One Node.js process serves the API, keeps its state in SQLite (Prisma), runs
deployments, talks to Docker and pushes a Caddyfile to Caddy's admin API. There
is one thread, so the code between two `await`s is atomic and every `await` is
a point where other handlers run. The same holds of a browser tab. All the
difficulty is in what may happen there, and in what survives a restart
(database, containers, Caddy's configuration, log files) and what does not
(queue, promises, flags).

| Component | State | Operations | What makes it correct |
|---|---|---|---|
| Deployment queue (`lib/queue.ts`) | array of jobs, set of running services | `enqueue`, `processNext` | one job per service, request order per service, none lost, none waits for another service |
| Deployment lifecycle (`services/deployment.ts`, `routers/deploy.ts`, `routers/services.ts`) | `Service` and `Deployment` rows | `trigger`, `create`, `deactivate`, `activate`, `delete`, `update`; `runDeployment`, `handleFailure` | a recorded outcome is final, rows agree with containers, a handler's effect survives concurrent deployments |
| Docker adapter (`services/docker.ts`) | containers, images | `runOrReplaceContainer`, `stopAndRemoveContainer`, `buildImage`, `pruneServiceImages` | one container per service name; pruning keeps what a rollback needs and little else |
| Caddy reload (`services/caddy.ts`, `caddyAdmin.ts`) | `inFlight`, `reloadQueued`, last pushed configuration and origin | `reloadCaddy` | a resolved reload delivered the caller's change; Caddy never goes back; every caller is answered |
| Caddyfile generation (`services/caddy.ts`) | none | `buildCaddyConfig` | each address is defined once, each route is served on its host and nowhere else |
| Domain TLS status (`services/caddy.ts`, `routers/domains.ts`) | status columns, in-flight set | `scheduleDomainStatusRefresh`, `create`, `update`, `delete` | an older result never replaces a newer one; the plain-HTTP fallback follows the status |
| Routes (`services/routes.ts`, `lib/routeString.ts`, `routers/domains.ts`) | `ServiceRoute`, `Domain` rows, site URL | `addRoute`, `removeRoute`, `create`, cascades of `delete` | one service per effective host and path; no dangling route; the management host stays Sitey's |
| Service edits (`routers/services.ts`, `lib/envFile.ts`, `ServiceDetail.vue`) | `Service.envVars`, static routing columns | `setEnvVar`, `unsetEnvVar`, `update`, the page's editors | an edit keeps the others; the active fragment was checked; an undelivered edit is told |
| Webhooks (`index.ts`) | none | `githubWebhookHandler`, `hookHandler` | every matching service gets its deployment, every row its job |
| Analytics (`services/analytics/`) | `analytics.db`, position in the access log | `init`, `poll`, `flush`, `persistTailState`, `runPrune` | every line is counted, none twice; the position never runs ahead of the counters |
| Self-update (`routers/system.ts`, `deploy/updater`, `Settings.vue`) | `updateState`, log file | `triggerUpdate`, `runUpdate`, `getUpdateStatus`, polling | the flag belongs to a run, "complete" to a finished one, polling ends |
| GitHub App (`routers/github.ts`, `Integrations.vue`) | App settings, repository cache | `setAppConfig`, `listAppRepos`, background refresh | the cache belongs to the configured App and reaches the page |
| Start-up (`bootstrap.ts`, `portPolicy.ts`) | containers, rows, rename records | `bootstrap`, `removeLegacyPortBindings` | no service with a row publishes a port once the server listens; what ran runs; a crash in the middle is repaired |
| Users and sessions (`routers/auth.ts`, `router.ts`, `stores/auth.ts`) | `User`, `Token` rows, store, navigation | `setupComplete`, `login`, `changePassword`, `logout`, the guard | redirects and retries end; a password change signs in anew and is asked for |
| API tokens (`apiTokens.ts`, `cli.ts`, `deploy/siteyctl`, `profiles.ts`) | `Token` rows, token file, lock, profiles | `createApiToken`, `revokeApiToken`, `writeLocalCliToken`, `login` | the file holds the live token; a login keeps other profiles |
| `siteyctl` (`commands.ts`, `verify.ts`, `args.ts`, `spec.ts`) | none | the commands, `waitForLive`, `runChecks`, the parser | it acts on the service it resolved and reports the deployment it queued |
| Static routing (`staticRouting.ts`) | none | lexer, checks, indentation | a fragment stays in its block and keeps its tokens |
| Pages (`AddServiceModal.vue`, `ServiceDetail.vue`) | form, selection, logs, timers | submit, select, poll | what was typed is submitted; the lines shown are the selected deployment's |

How they interact: a handler commits rows, then calls `enqueueDeployment`
(synchronous push to the queue) or `reloadCaddy()` (a shared promise). The queue
calls `run()`, which reads the service again, writes rows, drives git and
Docker, and ends with `reloadCaddy()`. `reloadCaddy()` reads rows and Docker's
list and posts the result. Nothing takes a lock: lifecycle handlers and
deployments of the same service interleave at every `await`. Pages and
`siteyctl` are clients of the API whose requests overlap with each other and
with other users'; between two of their requests everything may change.

## Modules

| Module | Models | Checked by |
|---|---|---|
| `DeployQueue` | `lib/queue.ts` | `MCProgress` |
| `ServiceLanes` | what the queue promises: an independent lane per service | as a property of `DeployQueue` |
| `Deployment` (extends `DeployQueue`) | deployments, lifecycle handlers, containers, restart | `MCDeployment` with four configurations |
| `CaddyReloader` | `class CaddyReloader`, its build, push and callers, and Caddy | `MCCaddyReloader` |
| `ConfigDelivery` | what `reloadCaddy()` promises its callers | as a property of `CaddyReloader` |
| `AnalyticsIngest` | the log-tailing worker and Caddy's rolled log | `MCAnalyticsIngest` with two configurations |
| `Routes` | routes, Domain rows, site URL, bootstrap's root route | `MCDomains`, `MCRoutesReserved.cfg` |
| `RouteOwnership` | what the route table promises: exclusive keys | as a property of `Routes` |
| `ServiceEdits` | environment and static routing edits, the two editors of the page | `MCServer` |
| `TlsStatus` | probes of domains and routes, fallback blocks | `MCDomains` |
| `SelfUpdate` | self-update from the button to the end of polling | `MCProgress`, `MCUpdateStatus.cfg` |
| `Webhooks` | pushes with several services, redelivery | `MCServer` |
| `ImageRetention` | image tags, builds and pruning | `MCServer` |
| `GithubApp` | App configuration, repository cache, Integrations page | `MCServer` |
| `CaddySites` | hosts and site blocks of the Caddyfile | `MCDomains` |
| `Siteyctl` | one command against a busy server: resolve, act, wait | `MCServer` |
| `SiteyctlArgs` | the command table and the parser | `MCServer` |
| `StartUp` | bootstrap and port migration with deaths in between | `MCServer` |
| `WebSession` | a browser tab: guard, store, login, password change | `MCServer` |
| `ApiTokens` | token rows, the VPS's token file and lock, profiles | `MCServer` |
| `StaticFragment` | lexer, checks and placement of static directives | `MCServer` |
| `ServiceDialog` | the dialog that creates a service | `MCServer` |
| `ServicePage` | the page of a service with its log polling | `MCProgress` |
| `DeployQueueProofs`, `DeploymentProofs`, `CaddyReloaderProofs`, `RoutesProofs`, `TlsStatusProofs`, `AnalyticsIngestProofs`, `ServerProofs`, `ClientProofs` | theorems | TLAPS |

`MCServer`, `MCDomains` and `MCProgress` instantiate several modules at once.
Their parts share no state, so a product of them would only multiply
interleavings: a behaviour picks one part at the start, and the others rest in
one initial state. `MCProgress` has the parts with liveness, `MCDomains` those
about domains, `MCServer` the others.

A property whose comment begins with "Together:" is the conjunction of the
invariants above it in the module, each stated and commented on its own: they
are one promise of the component, and the runs check the conjunction.

Operators that begin with "Faulty variant:" in their comment are slips one could
make in the code. They are used by no specification; each is put in the place
of the real definition to see that a property notices it.

### DeployQueue

The state is the array, the running set, the jobs whose `run()` has not settled
(`executing`) and the count of `enqueue` calls, which numbers the jobs. The code
has two atomic stretches: `enqueue()` with the head of `processNext()` up to
`await pending.run()` (`Enqueue`), and the `finally` block with the recursive
`processNext()` (`Settle`). `ProcessNext` is `find` (`Startable`, `IsFirst`),
`filter` (`Drop`) and the start. `run()` that throws is caught, so both outcomes
are `Settle`.

### Deployment

One action per stretch between awaits. A handler is a slot of `req` with the
operation, the step it is at and its service; a deployment is a job of the
queue with a program counter `pc`. `Load` to `JobReloads` are the steps of
`run()` in order, each with its failure: any write to the database may throw (that
of a deleted row always does), Docker refuses a name in use, a container may exit
before the check after three seconds. `Build` stands for the steps that change
nothing the model keeps (network, token, clone, image or static build).
`handleFailure` is `FailDep`, `FailSvc` and the final reload; when one of its own
writes throws, the run ends with what was written so far (`FailThrows`), and where
that was nothing it is "unrecorded". A handler whose write throws answers with an error
(`HandlerThrows`). `PublishFailed` is a run whose outcome "success" is written, and
the row of the service not: the `catch` then writes "failed" over it.

`container` is Docker's container with the service's canonical name, and who
made it. `stopAndRemoveContainer` swallows errors, so `StopAndRemove` may leave
the container; the observer `sticky` remembers where that happened. `caddy` is
what Caddy serves for a service's routes, and `Render` what a build would
produce now: `static`, `proxy`, `pending` or `absent`. A reload may deliver the
rendering, may deliver one that takes all containers as stopped (the list of
containers falls back to empty when Docker cannot be asked) or may fail; the
observer `unsynced` remembers the services Caddy may be stale about (`Stale`: also those a
failed write kept from their reload). The observers are read by properties only, never by an action.

`Restart` loses the queue, all jobs and all handlers and keeps everything else.
The start-up reload is not awaited and runs against the first requests
(`StartupReload`). `SetMode` is an edit of `deployMode`, which writes the row and
does not reload.

### CaddyReloader

The configuration is a version number for every part, a part being what one
database query of the build reads. `db` is what is committed, `built` what the
current build has read, `inbox` the requests Caddy has not processed, `active`
what it runs and `committed` what `afterPush` and `lastPushedCaddyfile` record.
A caller commits a change (`Change`), calls `reload()` (`Call`) and gets the
shared promise's answer. The parts are read in any order while callers commit
(`ReadPart`), the push may be refused or may time out with the request still
alive at Caddy (`PushFails`), and the process may restart.

### AnalyticsIngest

Caddy is another process, so every system call and every transaction of the
worker is a step: `Create`, `RollAway`, `Write` and `Truncate` happen between any
two. A byte is a version of a file and a position in it, a version being one
life of an inode between creation and truncation; inode numbers are used again
once a file is neither at the path nor open. `InitStat` and `InitOpen` are
`init()`, `Tick` to `Save` one `poll()`: `Drain`, `Read`, `Parse`, `Flush`, `Persist`
are `drainOpenFd()`, `Stat` and `Open` the check for a roll and the second drain.
The batch is local to a drain and lost when its transaction throws (`FlushFails`),
which ends the poll with the offset past the chunk: what was not parsed of it stays in
`partial`, and the next polls do not look there before the file has grown. `counted` says how often each
line went into the counters; the four tables are written in one transaction and
are one counter here. `dropped` and `truncated` are observers.

### Routes

A Domain row is a host or a wildcard; a route keeps the row's id and the host it
stands for (a subdomain of a wildcard row names exactly one host). A request
resolves its routes (`AddByHost`, `AddByRow`, `AddDomainless`, `Create`), asks
`assertRouteAllowed` for each (`Allow`) and inserts in one transaction (`Insert`);
others run in between. The comment in `routes.ts:128-136` says that interactive
transactions are serialised in one process, and the model takes that for
granted. Rows found before the transaction may be gone in it (`RowsExist`).
`removeRoute` looks up and deletes in two steps. Deleting a service or a Domain
row cascades. `bootstrap()` inserts the protected service and its root route in
two statements and may die in between (`BootDies`); any other crash only drops
requests that have written nothing yet. `SITEY_DOMAIN` and `SITEY_URL` are taken as
unset, so the management host is the configured URL's, or the panel's on the
oldest wildcard row.

### ServiceEdits

One row with an environment and static routing settings. `setEnvVar` and
`unsetEnvVar` read the text (`EnvEditRead`), edit it and write it back on
condition that it is still the one read (`EnvEditSwap`, `SwapHolds`), a bounded
number of times. `update` reads, checks and writes on condition of the settings
it validated (`UpdateLoad` to `UpdateWrite`, `RoutingUnchanged`) and waits for
the reload, whose failure becomes a warning (`UpdateDeliver`). The page has two
editors that save independently (`SaveEnv`, `SaveForm`) and reload the row
behind them (`PageFetch`, `PageShow`). A value of the environment is the request
that wrote it, a fragment passes the checks or not.

### TlsStatus

A refresh of a domain probes, reads the row, writes and asks for a reload if
the status changed, each an await (`TlsStart` to `TlsEnd`); its promise may
reject. A domain has two job slots so that a second refresh could begin if the
in-flight set let it. `TlsList` and `TlsGetService` are the page loads that
start probes, `TlsExpire` lets a status grow stale. Reloads are the abstract
ones of `ConfigDelivery`: once asked for, a reload delivers the rows as they are
then (`TlsDeliver`) or fails and is logged. `tlsServed` is what Caddy's fallback
blocks are. The number of the probe that wrote a status is an observer.

### SelfUpdate

`triggerUpdate` checks the flag, awaits Docker's list and then sets it
(`UpdTrigger`, `UpdStart`). The script is a process of its own with its log
file (`UpdClear` to `UpdFails`), which goes on when `docker compose up` replaces
the server (`UpdRestart`); `runUpdate` follows its output (`UpdPrints`, `UpdEnded`,
`UpdFinish`) or loses it (`UpdStreamLost`). `UpdStatus` is `getUpdateStatus` with its
fall back to the file. A request is sent, served and answered in three steps, and may
stay unanswered (`UpdUnanswered`). The page confirms (`UpdDialog`, `UpdConfirm`), also
again before the first answer; it asks for the status when it opens (`UpdOpen`,
`UpdMount`, `UpdMounted`) and polls (`UpdPoll`, `UpdServe`, `UpdAnswer`). `timers` counts the
intervals that fire and `handle` says whether the page holds the last one's handle:
`UpdPolls` overwrites it, `UpdAnswer` clears what it holds. `met` is an observer: an
interval was asked for beside another.

### Webhooks

A delivery is verified against the secret, the matching services are read, and
then each gets a row (`HookCreate`, an await) and a job (`HookEnqueue`, in the
same stretch as the step to the next). A statement may throw, which answers with
an error and lets GitHub send again (`HookRedeliver`). Services are edited and
deleted, the secret is rotated in between.

### ImageRetention

The sequence of deployments of one service, with the commit each builds.
`ImgBuild` moves a tag to a new or cached image, `ImgReplace` the container to
it, `ImgReadCount` and `ImgReadPrevious` are `getKeepTags` (`ImgCount` clamps,
`ImgRecent` reads the successes), `ImgPrune` removes what `ImgKept` does not keep,
unless Docker refuses. `imgJob.before` is an observer: the commits a rollback
may go to.

### GithubApp

Configurations are numbered, and cached lists, errors and the slug carry the
number of the one they were fetched with. An administrator's call is a sequence
of statements (`AppStart`, `AppUpsert`, `AppClearCache`, `AppAskSlug`, ...), the
background refresh another (`AppRefresh` to `AppRefreshOver`), the three cache
keys are cleared one by one. The Integrations page asks, shows and sets its
timer. `appMixed` is an observer of overlaps of a refresh with a change of the
configuration: nothing ties an answer to the configuration it was asked for, so what the
cache holds is claimed only where none occurred.

### CaddySites

`SiteFile` is `buildCaddyConfig` from rows, routes, services and panel names to
blocks: `SiteHosts` collects the routes of each host over exact and wildcard rows
(`SiteAdd`, `SiteAddRow`, `SiteAddWild`), `SiteBlocksOf` makes its blocks per scheme and
the probe block, `SiteMerged` merges equal bodies, `SitePanelBlocks` makes the
management host's. The loops of the code are recursive functions over the rows and
over a wildcard row's routes. Actions add and switch rows, routes and services, so every
reachable configuration is rendered. A block's text is the sequence of its
handlers.

### Siteyctl

One run of a command (`CtlRun`): it resolves its argument (`CtlResolve`), asks what
it asks before acting (`CtlPreflight`, `CtlDeleteConfirm`), acts (`CtlMutate`, `CtlCreate`,
`CtlDelete`, `CtlTrigger`), and describes or waits (`CtlDescribe`, `CtlGetDeployment`,
`CtlProbe`, `CtlJudge`). `CtlHard`, `CtlRouteStates` and `CtlFailures` are `runChecks` and
`waitForLive`. Every request may be lost or refused. Other clients create,
rename, delete, route and deploy in between (`CtlOthers`), and deployments move. Ids
count up and are never used again (`ctlNext`), as the table's AUTOINCREMENT gives them.

### SiteyctlArgs

The table of `spec.ts` as records (words of a command, bounds of its arguments,
options with and without a value) and `parseInvocation` (`ArgInvocation`) as an operator
on a sequence of tokens: `ArgWordIndexes` and `ArgFind` find the command, `ArgExpand`
gives optional values, `ArgValues` and `ArgPositionals` are what `parseArgs` of Node
returns, `ArgKnown` what it refuses, and `ArgRun` puts them together. The specification
types one token after the other, so every command line up to `ArgLength` is parsed. A
repeated `--route`, the one option that collects its values, is shortened to the last.

### StartUp

`BootFind` to `BootAddress` are `bootstrap()`, `BootList` to `BootFail` the migration
of one container after the other with its `catch`, `BootServe` the moment the
server listens. A container whose row is gone, or the built-in service's, is not
`plain`: `BootInspect` passes it over. `BootCrash` is a death at any step, after which the start begins
again from what is on disk and in Docker. `bootHurt` is an observer of where a
crash fell.

### WebSession

A tab's navigation awaits `whoami` in the guard and a page's code afterwards
(`SessEnters` to `SessLoaded`); starting another one cancels it, and its late end
still runs the hooks (`SessStrayEnds`). Forms call the handlers of
`routers/auth.ts` statement by statement (`SessVerify`, `SessCheck`, `SessUpdate`,
`SessClear`, `SessSession`, ...), then the store and the page act on the answer.
`SessBroken` is a page that cannot be loaded, with its one retry. Others reset
passwords, delete users and log in in between. `redirects`, `hard`, `answers`, `changed`,
`lost` and `late` of `sessTab` are observers for the properties.

### ApiTokens

Processes run the commands of `cli.ts` and of `siteyctl`: every query,
transaction and file operation is a step, and a process may be killed or the
container replaced. The wrapper on the VPS looks for its file, takes the lock,
looks again and has the token made (`TokLook`, `TokTakeLock`, `TokLookAgain`,
`TokSwap`, `TokWriteFile`). `TokUserDeleted` is another administrator's `deleteUser`
of the first user, whose tokens go with the row while the file stays; a command
that had looked the user up then cannot insert (`TokOrphaned`). `login` asks, verifies, loads the profiles and saves
them in four steps.

### StaticFragment

A text is a sequence of lines of symbols. `FragLexed` is the state of the lexer after
each line, `FragAlong` after each symbol of one, `FragStep` and `FragNewLine` what it
does with a symbol and with a line end; `FragLex` is its result. `FragChecked` has the
open blocks after each token, for the loop over lines of `checkCaddyFragment`, and
`FragError` the line of its first complaint. `FragIndented`, `FragServing` and
`FragRendered` are what is placed into the block, `FragSynthetic` the file Caddy
validates. A text is typed symbol by symbol from a few starts. There are three
kinds of white space: "sp" and "cr", at which `lex` splits, and "wide", the rest of what
`trimStart` and `\s` take for white space and `lex` keeps in a token. `FragLineEnds` is
the first step of `indentFragment`, which drops the "\r" of a line end also between
quotes. `FragTrimsBlanks` names the texts of which no "wide" symbol is trimmed: what
`FragmentIsSound` says of the placed tokens (`StaysInBlock`, `IndentKeepsTokens`) is
claimed for these.

### ServiceDialog

The form's watchers infer repository, branch and name while one types
(`DlgParsed`, `DlgInfer`); `DlgSubmit` takes what is there, `DlgCreate` and `DlgRoute` are what
the server does with the two requests, and `DlgAnswer` is the page's continuation when an
answer arrives (`DlgAfterCreate`, `DlgAnnounce`, `DlgFails`; an answer may be lost). Between the
steps the dialog may be closed, opened and typed into, and others (`DlgOther`) create
services and delete services and domains, so what a row's `routes` says is which routes
were stored for it, not which are still there.

### ServicePage

Loads of the service, log requests and the buttons' calls overlap. `PgAskLogs` has
the guard of `fetchLogs` (`PgLogsMayStart`), `PgPoll` the timer, `PgApply` the list
and the selection that an answer sets, `PgLogsArrive` and `PgLogsFail` the ends of a
log request (`PgLogsFlag` is its `finally`). `pgMissed` is an observer of wishes
that the guard dropped.

## What the runs show

| Run | Instance | Shows |
|---|---|---|
| `progress` | queue: 3 services, 6 jobs; update: 2 runs, 1 restart or lost stream, 2 confirmations at once; page: 2 deployments, 2 moves of the user, 1 failure | the array is independent lanes (`ImplementsLanes`: one job per service, in order, none lost), every job runs. Update: "complete" means ended, the flag has a run, the page holds its one interval (`UpdateIsTold`), polling ends unless a second interval was asked for beside the first. Page: lines are the selected deployment's (`PageIsSound`), polling settles |
| `deployment` | 1 service, 2 jobs, 2 handlers, 1 fault | a running row points at the newest success; no row is "building" without a job, but for a `handleFailure` that cannot write, and outcomes are recorded (`RowsAreSound`), final once the service's row was written; no container name clash; Caddy current when quiet |
| `deployment_live` | 1 service, 2 jobs, 1 handler | every queued deployment ends |
| `deployment_inactive` | 1 service, 2 jobs, 2 handlers | violated: an inactive service can have a running container |
| `deployment_activate` | 1 static service, 1 job, 1 handler | violated: an activated static site is not served |
| `reloader` | 2 parts, 2 callers, 2 changes per part | delivery, order, bookkeeping, refinement, every caller answered |
| `ingest` | 2 inodes, 2 versions, files of 3 and 2 lines, 1 crash, 1 failure, 1 truncation | position never ahead of the counters nor back, rolled files finished, one count per run of the server, every line counted, passed or, after a failure, waiting in `partial` |
| `ingest_recount` | 1 file, 1 crash | violated: a crash between counters and position counts a batch twice |
| `routes` | table: 1 host with exact and wildcard row, 2 services, 2 requests, 5 rows; site blocks and TLS status: see below | one owner per key, no dangling route (`TableIsSound`), removals take only one's own, refinement |
| `routes_reserved` | 1 host, 1 request | violated: the management host's root can be a service's |
| `server` | eleven parts, see below | the safety of every module of the table above that names `MCServer` |
| `update_status` | 1 update | violated: the page shows the previous run's completion |

What `server` and, for the parts sites and tls, `routes` show, part by part:

| Part | Properties | Instance | Shows |
|---|---|---|---|
| edits | `EditsAreSound`, `EditKeepsOthers` | 2 variables, 1 request beside the page's, 2 attempts | variables keep each other, the active fragment was checked, the form writes no routing it did not change, an undelivered edit is told |
| tls | `TlsIsSound`, `NewestProbeKept` | 1 ordinary and 1 loopback domain, 1 HTTPS or HTTP-only route, 2 probes | newest result kept, nobody shut out of refreshes, fallback blocks follow the status, nothing is probed that has no certificate |
| hooks | `PushIsDeployed` | 3 services, 2 branches, 1 delivery sent twice, 2 edits | a created row has a job even after an error; "ok" means all |
| images | `ImagesAreKept` | 3 commits, 3 deployments, count absent, negative or 2 | rollbacks kept, the rest pruned |
| app | `CacheIsSound` | 2 configurations, 2 moves of the page | the cache is the App's, the in-flight mark is a refresh, the page gets the list |
| sites | `SitesAreSound` | 3 row names, 2 rows, 2 routes, panel | one block per address, merging loses nothing, row order is irrelevant, routes served on their host only |
| ctl | `VerdictIsSound`, `ActsOnResolved` | 2 services, 2 names, 2 routes, 5 commands, 3 polls, 2 moves of others | success is proven, failure is one's own and repeated, conflicts create nothing, renames do not redirect |
| args | `LineIsUnderstood` | all command lines of 4 tokens from 11, and 4 more after `service set` | arguments in bounds, each word used once, `--server` may come first |
| boot | `StartIsSound` | 2 services with or without a row, 1 rename, 2 crashes | ports of services closed, services as before, renames logged, one built-in service |
| session | `SessionIsSound` | 2 tokens, 3 moves, 1 intervention | redirects and retries end, password change signs in, forced change is asked for |
| tokens | `TokensAreSound` | 2 processes, 3 tokens, 3 commands, 1 fault (kill, replaced container, change or deletion of the first user) | the file's token is live and first runs accepted, but for the named causes; profiles kept |
| fragment | `FragmentIsSound` | texts of 4 symbols after each of 4 starts, three kinds of white space among the symbols | a fragment stays in its block and keeps its tokens unless white space of other kinds is trimmed, errors have its own lines |
| dialog | `DialogIsSound`, `AnnouncedIsComplete` | 2 repositories, 2 domains, 2 submissions, 3 moves | what was typed is submitted, an announced service was stored with its route |

**Bounds.** `MaxJobs` bounds the `enqueue` calls: three services need six jobs for
two to wait behind a running one while another lane moves; two deployments of
one service are enough for one to run while the other waits, to fail or succeed
in either order, and for the older to be superseded. Services only meet in the
queue (shown by `ImplementsLanes` not to couple them) and in the reload, so the
deployment runs take one service. Two handlers give every race of two lifecycle
calls with a deployment; from a restart, a removal that Docker refuses or a
`handleFailure` that cannot write on they do not overlap, and these faults do not
meet (`FaultsApart`). Any other write may fail at any time. `MaxRestarts` is 1: a second one starts from the
same kind of state. `MaxVersion` bounds changes per part (two, so that there is a
version between old and new) and `MaxBacklog` the requests Caddy still has (two:
one that timed out and one in flight). Handler slots, inodes and requests are
interchangeable; symmetry is used in safety runs only.
In `AnalyticsIngest` a line has two bytes, a batch two lines and a chunk five bytes:
read from the start of the file a chunk splits a line, read from its second byte on it
completes three, so that a flush may fail with a line still to be parsed. Two versions
give one roll or one truncation; the second file holds two lines, and the first one
takes the same inode in every behaviour, as they are alike (`Logs`). In `Routes` one host is enough for a clash of its exact and its
wildcard row, which is what no index prevents; two requests give every race of
an insert with an insert or a removal. `MaxDomain`, `MaxRoute` and `MaxService` count
rows ever created, the built-in service and its route included, `MaxRows` their
sum: five, so that one of the three kinds has one row less. With one path
prefix the properties `OneScheme` and `LoopbackIsHttpOnly` hold trivially there:
they are proved and in no run.

In the other modules the constants named `...Moves`, `...Edits`, `...Tries`,
`...Attempts`, `...Runs`, `...Polls`, `...Commands` bound how often an actor acts, and
`...Faults`, `...Lost`, `...Crashes`, `...Restarts` how often something fails. They are
chosen so that each race the code has to survive occurs: a read-modify-write
meets one foreign write at each of its awaits and is retried once; a crash falls
on every step and a second one on the repair; the page opens, confirms or restarts
while one poll is under way (`UpdAnswers` is 1: polls do not overtake each other in
the run, though the model lets them); `CtlPolls` leaves room for a failure, a success and a failure; three
services let a webhook fail before, in and after the middle. Parts with several
constants are cut where two rare conditions need not meet: `MCTlsApart` keeps
the loopback domain and a route to probe apart and probes a domain once beside
a route, in an update a restart, a lost stream and another administrator's call do not
meet (`UpdSingly`), a second confirmation of the page meets none of them, and while two
overlap no script is between its first step and its end (`UpdDoubly`), the first
service follows `main` before its branch is edited, the dialog has two domains only
on the overview page, `SessMove` waits until a cancelled navigation has ended.
Deadlock checking is off where the bounded system really stops: all jobs or
moves used up.

**Fairness.** Node runs the continuation of a settled promise, so the next step
of a deployment, a handler or the reload loop is weakly fair. That git, Docker,
SQLite and Caddy answer or fail is an assumption; Caddy's pushes have a time-out
in the code. The ingest worker's interval keeps firing and its process is
started again after a crash (`restart: unless-stopped` in
`deploy/docker-compose.yml`), so a step of the worker is weakly fair. In
`SelfUpdate` the page's intervals (`UpdPoll`), the server's answers (`UpdServe`) and the
steps of the script and its output are weakly fair: commands end or fail; the
arrival of answers is strongly fair: not every one is lost. In
`ServicePage` the interval (`PgPoll`) and the end of a log request (`PgLogAnswer`) are.
No request, click, crash or restart is ever obliged to happen, and nothing is
assumed of Caddy.

## Where the code and its words differ

* **Inactive services.** `deactivate` stops the container and writes the row,
  but a deployment queued or in progress goes on and starts the container again
  (`schema.prisma:101` says it is stopped). `delete` has the same race.
* **Activated static sites.** `activate` leaves the status "stopped" and the
  renderer wants "running", so the site is pending until it is deployed again
  (`services.ts:817`).
* **Counting twice.** The counters and the position are written in two
  transactions, so a crash between them repeats a batch (`ingest.ts:200-202`
  says it cannot). What holds is one count per run of the server.
* **The management host.** A root route is refused only when it is added; the site
  URL, the panel switch or a wildcard row may turn its host into the management
  host later (`docs/design/remote-cli.md:212`), and the Caddyfile leaves the
  route out.

* **Status of a new update.** `getUpdateStatus` falls back to the log file while
  the in-memory log is empty, which it also is between `triggerUpdate` and the
  first output; the file is still the previous run's, and the page says "Update
  complete" and stops polling (`system.ts:309` says memory is used while an
  update is in progress).

The models go as the code does, also where a reader may be surprised. These
places contradict no statement of the repository, or only a loose one.

Reload and routes: a push that times out and is applied later leaves the committed
origin on the old configuration (what is proved is that the bookkeeping is never
ahead of Caddy). Ingest: a restart across a roll may open a fresh log at the
offset of another file, because inode numbers are used again and `init` opens
after it stats (`OffsetIsOwn` excludes this from the properties about positions). A
transaction that fails in the middle of a chunk leaves complete lines in `partial`; they
are counted when Caddy writes again or the server restarts, and never when the log is
rolled first (`ingest.ts:236`, `263`). `EveryLineSettles` excepts the waiting lines
(`Stranded`).

Edits: a whole-file save of the environment overwrites a `setEnvVar` made since the
page loaded; `saveEnvVars` then takes the text of after the await for the saved
one; a refused second save removes the warning of the first; "Retry apply" sends
the displayed routing again and may revert another administrator's.

TLS: probes of a route have no in-flight guard, so an older result may be written
last; a failed reload after a change of status is only logged; a status set by
hand and a rejected probe ask for no reload.

Self-update: two triggers at once both pass the check; after a restart in the
middle the flag is clear and a second update is accepted; a lost stream reads as
exit code 0; a late answer may leave the page at "Updating...". Two confirmations
before the first answer, or the late query of `onMounted` beside one, start two
intervals, of which `stopUpdatePolling` clears the one whose handle it has
(`Settings.vue:889-898`): the other polls on. `PollingEnds` excepts exactly that.

Webhooks: after an error half-way, a redelivery deploys the first services again.
Images: the count of rollbacks counts deployments, not different commits; a prune
that fails makes a deployment failed whose container runs.

GitHub App: a refresh begun with the old configuration writes after
`setAppConfig` cleared the cache, and the refresh it forces is dropped because
one is in flight; `exchangeManifestCode` leaves the old cache; overlapping calls
may store the slug of another App or bring a cleared row back; the page ignores
`lastError`, and the branch that should clear stale credentials is never reached.

Sites: an exact domain whose only service is inactive shows the control panel;
one HTTP-only route makes its whole host HTTP-only.

`siteyctl`: a rename between the confirmation of the name and the delete still
deletes; exit code 1 after an answer lost to the time-out says nothing about what
was changed. A global option with a value before the command word is taken apart
wrongly unless it is `--server` ("--timeout 5 status"); `--dockerfile` after `--`
is still expanded; a repeated option keeps its last value.

Start-up: a container that outlived its row keeps its published ports
(`portPolicy.ts:17`); after a crash between the change of restart policy and the removal,
the replacement inherits the policy "no"; after a crash past the stop it is not
started, though the row says running; a crash between removal and the update of
the row leaves a row without a container; a crash inside `bootstrap()` leaves the
built-in service without its root route for ever, or its repository twice.

Session: the logout button navigates before the call is over, so the guard may
send the user back to "/" with an empty store; a cancelled navigation's hooks
clear the recovery key of the newer one; a crash between `upsertUser` and
`setup_complete` leaves a user while the page offers only a setup that is refused;
whoami answers that alternate may make the recovery alternate;
a login in another tab that falls before the deletion of the sessions and is answered late
leaves a cookie without a session, so `SignedInAfterChange` is claimed only where no others intervened.

Tokens: names are unique by a check before the insert only; a revocation that
overlaps the making of the VPS's token, a kill between row and file,
`sitey token local` without the lock, or the deletion of the first user
(`auth.ts:369` with the cascade of `schema.prisma`) leave a dead token in the file; of two logins
between load and save one profile is lost.

Fragments: a root route's lines get four more blanks, also those inside quotes
that span lines, which `indentFragment` (`staticRouting.ts:268`) leaves alone.
`trimStart` and `/\s+$/` (lines 278, 273) take off white space that `lex` (line 119) keeps as part of
a token, such as a no-break space: what is placed may then read as other directives than
those that were checked. "\r\n" between quotes becomes "\n" (line 272).

Dialog: a text that names no repository keeps the last one; the default branch of
a repository named while typing a longer name sticks; "main" typed on purpose and
a name equal to an inferred one are replaced; the domain is read after the answer
to the create; a refused route leaves the service, and trying again is a conflict
of names; a service is announced although its domain, or the service itself, was deleted
while the answer was under way.

Page: choosing a deployment while lines are loading is dropped, and if it has
ended nothing polls, so the lines stay another's; an older load may replace a
newer list; polling never stops by itself; an error of the logs hides the page.

## What is proved

Assumptions: `MaxJobs`, `MaxVersion` and `MaxBacklog` are natural numbers (the last
positive). Services, parts and callers are arbitrary sets. In `Routes` a zone or
`None` is no host, the root is a path prefix, and the bounds are natural numbers;
hosts, zones, requests and path prefixes are arbitrary otherwise.

**Queue** (`DeployQueueProofs`). The inductive invariant `QueueInv` is the four
invariants of the module and "no id is larger than the count of `enqueue` calls". The
properties are not inductive alone: order needs the new id to be the largest,
and "a waiting job has a running job of its service" is what makes starting a
single job per `processNext` enough. `Ready` is the state `processNext` is called
in: every startable job belongs to one service, the one just enqueued or just
freed; `ProcessNextFacts` shows that it re-establishes `QueueInv` from there, once
for both actions. `QueueImplementsLanes` uses the same invariant: an enqueue
starts exactly when its lane is empty, and a settle starts the oldest of the
lane, because the first startable index of an ordered array is the oldest job.

**Reloader** (`CaddyReloaderProofs`). `ReloaderInv` adds to the types and
properties: `Chain` (what Caddy runs is at most as new as each request it has,
these are in order, and none is newer than the database), `BuildIsNewest` (what
the current build has read is at least as new as everything posted),
`PushInFlight` (the push is the last request; a success means Caddy runs it) and
`CallersCovered` (who waits is covered by the loop not begun, by a queued turn,
or by reads made after the call). The last is the argument for joining a reload
in flight. `NeverOlder` and the refinement of `ConfigDelivery` follow.

**Routes** (`RoutesProofs`). `TableInv` adds to the properties: `DomainIds` (a new row
takes an id nobody ever had, so an id kept over an await is of the same row or
of none), `WantsSound` (a resolved route names a host its row covers, if there
still is such a row), `AllowedSound` (what passed `assertRouteAllowed` is HTTP-only
on a loopback host) and `BootSound`. `OneOwner` is the heart: every route on a host
is found by `routesForHost` whichever row it hangs on (`LookupComplete`, from
`RoutesHaveRows`), so what is missing is free (`MissingIsFree`), and `InsertStep` shows
that a transaction adds each missing key once. `RoutesImplementOwnership` follows
from what a step may do to the table (`TableChange`): it takes routes away, or adds
routes of one service on keys without an owner.

An id kept over an await names the same row or none (`IdsAreFresh` in `OwnInv`), which
with what a removal still has to take (`RemovalsSound`) gives `RemovesOnlyOwn`.

**Deployments** (`DeploymentProofs`), on top of `QueueInv` and with `NoService` no
service. `TypeInv` has the types and where handlers are. `JobInv` adds: each row says
what fits the step its `run()` is at, and is gone exactly if the service is
(`RowsSound`); the queue's jobs are the runs that are not over (`JobsSound`); runs of a
service end in the order of their ids (`OverInOrder`, which needs the order of the
queue). From these, at most one run of a service has begun (`OneActive`), so what
a run relies on cannot be undone by another one, only by handlers, crashes and
restarts. `RunsSound` says what it may rely on, per deployment: the name it removed
is free, the container it made is its own or removed, the service waits for it
(`Marked`) and, once it is over and still the newest, tells its outcome. `ServingsSound`
is `RunningIsNewestSuccess` with the container named; that no later deployment has
succeeded when one is published is `OverInOrder` again. `CaddySound` says that where
Caddy differs from the rows, somebody is about to reload (`DueFor`): a handler between
its write and its reload, or a run after its first write of the service's row.

**TLS status** (`TlsStatusProofs`). `TlsInv` says per domain that a refresh runs exactly
while the domain is in flight, that at most one does, that it has the newest
number, and that a loopback domain never has one; and for routes and fallbacks what
the properties say.

**Webhooks** (`ServerProofs`, the names with `Hook`), for finitely many services,
numbered, and any deliveries. `HookInv` says per delivery that the loop has behind it what
it has enqueued and ahead what it has not (`HookLoopsForward`), and that every row has its
job or is the one about to be enqueued (`HookRowsHaveJobs`).

**Ingest** (`AnalyticsIngestProofs`), for any inodes and positive sizes, with `NoFile`
no inode. `TypeInv` says besides the types that no two inodes hold the same version.
`RecountInv`: a line that this run may still take, because it lies ahead of the
position (`Ahead`) or its newline was read and not parsed (`Pending`), was taken by
earlier runs only (`RunSound`); `RecountNeedsCrash` is what is left of it. `PositionInv`:
what lies before the parsed position of the open file was counted, dropped or is in the
batch, the rest that was read is in `partial` (`TailData`), the same without the batch
of the saved row (`SavedSound`), and how far each step of a drain got (`TailProgress`);
all of it as long as the offset is one of the open file (`OffsetIsOwn`).
`BackInv`: the saved file is opened where its row says, and once another file is
open it is never opened again by this run (`OthersAreNew`). The proof of this one
corrected the property: a read that fails ends the drain early, the tail moves on,
and after a restart the inode's next file is taken for the rolled one, so the position
moves back with one failure and one crash. The bounds of the run had hidden it;
`SavedNeverBack` now excepts exactly that.

**Edits** (`ServerProofs`, the names with `Edit`). `EditInv` adds to the properties what
each request may be about to write given the row it read (`EditMayWrite`), that the
form submits what the page showed (`EditFormSound`), and that a stored row which is
not served is about to be delivered or the page says so (`EditTold`). Assumed: a
`siteyctl` client has not the name of a form of the page, and what `EditAssumption` says of the
constants. `EditKeepsOthers` needs that the compare-and-swap compares the whole
environment that was read. Of saves of the whole environment by the page it claims nothing:
they replace what was set since.

**Start-up** (`Boot`). `BootInv` follows a service through its migration: a published
port belongs to a container still to be inspected, being replaced or passed over
(`BootPorts`), what
was inspected runs exactly if it ran before the first start (`BootRunsBefore`,
`BootRunsAgain`), and its restart policy is kept or about to be restored (`BootPolicyKept`).
`BootBuiltInSound` counts the repositories a crash may leave behind. No service has the
number 0, which stands for the built-in one. A service has one container at most,
so legacy names of one number (`sitey-7`, `sitey-project-7`) are taken as one.

**Tokens** (`Tok`), for any number of processes, none numbered 0 (a free lock).
`TokInv`: at most one row is the local token (`TokOneLocal`); who is making it holds the
lock and found no file (`TokMakerSound`); and while a run that nothing disturbed is
under way nobody is about to change the file (`TokRunSound`): the second look at the file
under the lock is what this needs. The deletion of the first user ends the calm of
every run it meets and leaves the file broken; so the theorem says what it does not
survive as well as what it does.

**Images** (`Img`), for any commits and stored counts. `ImgInv`: the deployment in
progress has an image and its container was made of it (`ImgOfJob`), the commits to
keep are at most n besides its own and contain those of a rollback (`ImgKeepSound`), and
an image left after pruning with one tag has one of them (`ImgPruneSound`). The
bound of `ImagesBounded` is then the size of the image of a function on the tags kept.

**Self-update** (`Upd`). `UpdInv`: while no script was started beside another and no
stream lost (`UpdSingle`), at most one is at work or read by the server (`UpdOnlyOne`), the
log file says what it said last (`UpdFileSound`), and memory that says "finished" leaves
none (`UpdMemorySound`). That the flag has a run needs no such condition. `UpdPageSound`
follows the page: as long as it asked for no interval beside another, it waits for one
at most, and only while it holds none.

**GitHub App** (`App`), for any number of configurations. `AppInv`: without an overlap a
mutation is alone until it starts its refresh (`AppAlone`), so a refresh works with the
configuration it read, and everything cached or shown is of the current one, or the
cache is just being cleared (`AppKnown`). The page shows the list, or asks for it, or
has a timer: an answer without a list says that a refresh runs.

**Service page** (`ClientProofs`, the names with `Pg`), for any number of deployments,
moves and failures. `PgInv`: at most one log request is out, exactly while the flag of
`fetchLogs` is set (`PgOneAsk`), and a handler awaits it exactly while its request is out
(`PgAskOfJob`); "Loading..." has a handler that is loading (`PgLoadingSound`); and what is
asked for fits what is selected as what is shown does (`PgAsksFit`): without this the
answer could be another deployment's. The proof sharpened the property: that the page
polls is no excuse for lines of another deployment, because what changes the selection
also asks or records the dropped wish. Assumed: the deploy button is a button, and none
has the name of the load at the start.

**siteyctl** (`Ctl`), for any names, routes and commands, any number of services,
deployments and moves of others, and positive limits of polls and failures. `CtlInv`:
the table keeps names and routes apart and the next id is above all (`CtlTableOK`, which
`CtlTableStores`, `CtlTableEdit` and `CtlTableWithout` keep for a create, an edit and a
delete of the command and of others alike); what a command knows at each of its steps
(`CtlEarlyFits`, `CtlPollFits`); an ended deployment that was seen stays so or goes with its
service (`CtlViewSound`), so routes are probed after the success (`CtlSeenSound`); and
`routeFailures` is the length of the run of failures at the end of the reports
(`CtlCounted`). `VerdictIsSound` follows with how a run has ended (`CtlEnded`).
`ActsOnResolved` is proved step by step: a mutation or a delete touches the resolved id
alone. The empty name stands for an argument that is an id.

**Dialog** (`Dlg`), for any texts, names, branches and domains and any number of moves,
submissions and changes by others. `DlgInv`: the flag of `addService` keeps submissions
apart (`DlgOneCall`), although the dialog resets everything else when it closes; the
fields hold what was typed unless it may have been inferred (`DlgFieldsFit`, kept by
`parseGithubUrl`, `DlgParsedFits`); and a submission whose service was created has its row, asks for
the domain that the page fixes and, once its second answer is under way, has its route
stored (`DlgCallFits`), because rows are added and keep their names and the routes that
were stored (`DlgRowsStay`). `AnnouncedIsComplete` follows: a submission ends without an
error only after its route was stored, or when it asks for none.

**Session** (`Sess`), for any number of sessions, moves and interventions. `SessInv`: what
a redirect leads to is not redirected, since the guard is idempotent for one user
(`SessTabSettles`, `SessGuardTwice`); a tab that was loaded anew heads for the page it
recovers or for what one answer of `whoami` makes of it, so a third time would need
another answer (`SessTabHard`); a navigation past its guard that leaves the change of the
password is watched (`SessTabLoads`, `SessTabShows`); a tab that shows nothing is on its
way or has failed (`SessTabFresh`); and the cookie of a change has its row while nobody
else acts (`SessChangeFits`). The invariant corrected `ChangeIsAsked`: the watcher of
`Layout.vue` is not immediate, so when the store hears of the change while a page without
a layout shows and a navigation is past its guard, nothing asks for it. This needs more
sessions than the run has; `late` now records exactly that.

**Caddyfile** (`CaddyReloaderProofs`, the names with `Site`), for any labels, prefixes and
services, any rows with any routes, and any name of the panel; assumed is that no
label is "*" or ":80". `SiteTypeOK` is inductive: rows have names of their own, and the
routes of a host agree on HTTP-only, whichever rows they hang on. The rest is about the
fold that makes the hosts. The provers have no induction over data, so it is proved
first: `SiteInduct` (what an inductive set leaves out would have a least number), and
the `...Steps` lemmas, which unfold each recursive function. `SiteHostsMade` then says,
row by row (`SiteExactRow`, `SiteWildRow`, and route by route `SiteLabelStep`), that the
hosts are what the *set* of the rows makes them (`SiteHostsAre`): which hosts there
are, the routes of each, whose certificate it has, and whether it is probed. The file
follows: blocks have one address each (`SiteBlocksApart`), a merged group is a class of
one signature (`SiteGroupOf`), and every address has what its host's routes say
(`SiteRoutesServed`, `SiteNothingElse`). The proof corrected `OrderOfRowsIsIrrelevant`: it
compared groups of merged addresses, and which hosts share a group depends on the order
of their handlers, so on the order of the rows; with three rows and four routes TLC shows
it. Now it compares what is served at each address.

**Command line** (`ClientProofs`, the names with `Arg`), for any words, options and
lengths. No step of the specification matters beyond that the line is made of what may
be typed (`ArgLineIsTyped`); the rest is about the parser, by the same induction
(`ArgInduct`): what `filter` keeps are the tokens at its places in their order
(`ArgKeptPlaces`), so as many words as there are places of words (`ArgKeptSize`).
`WordsAreUsed` is then a count. The words of a line are those of the command and of the
rest (`ArgRestSize`); of the rest, those that options with an optional value take and
those that stay (`ArgExpandIs`); of these, the arguments and the values
(`ArgPositionalsSize`). And options and values match one to one (`ArgUsedEquals`,
`ArgUsedOptions`, `ArgValuedSize`), because no option is there twice. For
`ServerMayComeFirst` every operator of the parser is compared with itself two places on
(the `...Shift` lemmas), up to `ArgServerFirst`. Assumed: no word that is typed is the
default of `--dockerfile` or stands for a flag that is set, so that the count can tell a
value that was typed.

**Fragments** (`CaddyReloaderProofs`, the names with `Frag`), for any symbols, starts and
lengths of texts. Of the steps only matters that the text is made of lines of symbols
(`FragInv`); the rest is about the lexer and the check, again by induction over lines,
symbols and tokens. Every state of the lexer is well formed and names lines it has
reached (`FragGood`), so a refusal names a line of the text (`FragErrorIs`).
The lexer then runs through the accepted text and the placed one side by side: its
states are alike (`FragLike`), which a symbol and a line end preserve
(`FragLikeStep`, `FragLikeLine`). It does so in two stages: a text and the one with its
line ends normalised (`FragReturnLine`, `FragLineEndStep`, `FragLineEndsLike`,
`FragLineEndsTokens`), then that one and the placed one; likeness composes
(`FragLikeTwice`). That trimmed white space is white space for the lexer is
`FragTrimsBlanksIs`, from the premise `FragTrimsBlanks` of the properties. The placed lines differ at their start only
(`FragMoved`). Outside of quotes the white space there changes no state
(`FragClean`, `FragAlongLead`); within quotes `indentFragment` adds none, because its
continuation lines are exactly those that begin within quotes (`FragContinuationIs`),
and `appendRouteHandler` does, so texts of tokens may differ that hold a line end
(`FragInside`, `FragLikeInside`). The white space that is trimmed at the end completes a
token at most (`FragIdle`, `FragLexedTail`). That no backslash is pending at the end of a
line is needed on the way (`FragLexedEscapes`). For `StaysInBlock` the braces are
counted: after each token the opening ones exceed the closing ones by the length of
the stack of open blocks (`FragCheckedCounts`), which holds because a brace stands at the
end of a line or alone on it, and quoted ones are refused (`FragFitsBraces`,
`FragInnerToken`). An accepted text ends with an empty stack, and alike tokens hold the
same braces (`FragLikeBalance`); the fallback directive has none (`FragFallbackBalance`).

Only model-checked: the liveness properties (fairness is outside the prover's
fragment). `ImplementsLanes` has its theorem as `QueueImplementsLanes`.

## Plan

What would come next:

1. Two services in one deployment run with a reload that is `ConfigDelivery`
   instead of a single step.
2. Pruning of the analytics tables against the ingest; the domain page's probes.

## Not modelled

The overview, domain, analytics and container log pages load once and show;
templates and styling have no state. Output of `siteyctl`, help texts, export,
install scripts, SQL migrations and end-to-end tests have no protocol of their
own. Of text processing only the two parsers with rules of their own
(`SiteyctlArgs`, `StaticFragment`) are modelled; the layout of the Caddyfile, log
decoding and GitHub's payloads matter through their verdict. Git and image
builds are a choice between success and failure, and so is the outcome of every
probe. Hashing, signatures and cookies are equality of numbers. The
development-only TCP push, which tries several origins, is one push; the
development-only site blocks are left out. In `Deployment` a removal of a
container is one step, though the code inspects, stops and removes in three: the
outcomes are those of the single step taken later.
