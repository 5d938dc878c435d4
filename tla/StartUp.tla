------------------------------ MODULE StartUp -------------------------------
(***************************************************************************)
(* Start-up of the server: main of index.ts runs bootstrap and, before it  *)
(* accepts requests, removeLegacyPortBindings, which replaces containers   *)
(* that publish ports.  Every statement that waits is a step; the process  *)
(* may die, or the host restart, between any two.                          *)
(*                                                                         *)
(* A service has one container at most, and a container may be left whose  *)
(* service is gone.  Requests come after the start and are left to the     *)
(* modules of the handlers.                                                *)
(***************************************************************************)
EXTENDS Naturals, FiniteSets

CONSTANTS BootServices,
          BootRenames,  \* renames that the migration recorded
          BootCrashes   \* bound: crashes

ASSUME BootAssumption == BootCrashes \in Nat /\ 0 \notin BootServices

VARIABLES bootRow,     \* Service rows: [status, active, recorded (containerId), port (hostPort), plain]; not
                       \* plain: there is no row any more, or it is the built-in service's, which is protected
          bootBox,     \* containers: {} or {[public, running, policy]}
          bootWas,     \* observer: the containers before the first start
          bootBuiltIn, \* the rows of the built-in service: [repos, services, routes]
          bootNotes,   \* records of renames not forgotten yet
          bootLogged,  \* renames that were logged
          boot,        \* the process: [step, todo, service, found]
          bootCrashes, bootHurt  \* observer: services struck by a crash in the middle, 0 for the built-in one

BootVars == <<bootRow, bootBox, bootWas, bootBuiltIn, bootNotes, bootLogged, boot, bootCrashes, bootHurt>>

BootDown == [step |-> "down", todo |-> {}, service |-> 0, found |-> {}]
BootBoxes == [public : BOOLEAN, running : BOOLEAN, policy : {"unless-stopped", "no"}]

BootFirstRow(s, active, plain) ==
  [status |-> IF \E b \in bootBox[s] : b.running THEN "running" ELSE "stopped",
   active |-> s \in active, recorded |-> bootBox[s] # {}, port |-> \E b \in bootBox[s] : b.public,
   plain |-> s \in plain]

BootInit ==
  /\ bootBox \in [BootServices -> {{}} \cup {{[public |-> p, running |-> r, policy |-> "unless-stopped"]} : p, r \in BOOLEAN}]
  /\ \E plain \in SUBSET BootServices : \E active \in SUBSET plain :
       bootRow = [s \in BootServices |-> BootFirstRow(s, active, plain)]
  /\ bootWas = bootBox
  /\ bootBuiltIn = [repos |-> 0, services |-> 0, routes |-> 0]
  /\ bootNotes = BootRenames /\ bootLogged = {}
  /\ boot = BootDown /\ bootCrashes = 0 /\ bootHurt = {}

BootAt(step) == boot.step = step
BootGoes(step) == boot' = [boot EXCEPT !.step = step]
BootRest == UNCHANGED <<bootWas, bootCrashes, bootHurt>>
BootRows == <<bootRow, bootBox>>
BootNames == <<bootNotes, bootLogged>>

-----------------------------------------------------------------------------
(* bootstrap *)

(* main; the migrations have run, or the process exits. *)
BootMain ==
  /\ BootAt("down") /\ BootGoes("renames")
  /\ BootRest /\ UNCHANGED <<BootRows, bootBuiltIn, BootNames>>

\* Faulty variant: the records are deleted before they are logged.
BootLogRenamesLate ==
  /\ BootAt("renames") /\ BootGoes("forget") /\ bootNotes' = {}
  /\ BootRest /\ UNCHANGED <<BootRows, bootBuiltIn, bootLogged>>

(* logServiceRenames: the records are logged, then deleted. *)
BootLogRenames ==
  /\ BootAt("renames") /\ BootGoes("forget") /\ bootLogged' = bootLogged \cup bootNotes
  /\ BootRest /\ UNCHANGED <<BootRows, bootBuiltIn, bootNotes>>

BootForgetRenames ==
  /\ BootAt("forget") /\ BootGoes("find") /\ bootNotes' = bootNotes \ bootLogged
  /\ BootRest /\ UNCHANGED <<BootRows, bootBuiltIn, bootLogged>>

\* Faulty variant: the built-in service is known by its route.
BootIsSetUpByRoute == bootBuiltIn.routes > 0

BootIsSetUp == bootBuiltIn.services > 0

BootFind ==
  /\ BootAt("find") /\ BootGoes(IF BootIsSetUp THEN "address" ELSE "repo")
  /\ BootRest /\ UNCHANGED <<BootRows, bootBuiltIn, BootNames>>

BootCreate(step, next, row) ==
  /\ BootAt(step) /\ BootGoes(next) /\ bootBuiltIn' = [bootBuiltIn EXCEPT ![row] = @ + 1]
  /\ BootRest /\ UNCHANGED <<BootRows, BootNames>>

(* The repository, the protected service and its root route: three inserts. *)
BootCreateRepo == BootCreate("repo", "service", "repos")
BootCreateService == BootCreate("service", "route", "services")
BootCreateRoute == BootCreate("route", "address", "routes")

(* The public address is detected and stored; nothing here depends on it. *)
BootAddress ==
  /\ BootAt("address") /\ BootGoes("list")
  /\ BootRest /\ UNCHANGED <<BootRows, bootBuiltIn, BootNames>>

-----------------------------------------------------------------------------
(* removeLegacyPortBindings *)

BootMoves == BootRest /\ UNCHANGED <<bootBuiltIn, BootNames>>

(* docker.listContainers *)
BootList ==
  /\ BootAt("list") /\ boot' = [boot EXCEPT !.step = "next", !.todo = {s \in BootServices : bootBox[s] # {}}]
  /\ BootMoves /\ UNCHANGED BootRows

\* Faulty variant: a stopped container publishes nothing.
BootPublishesRunning(box) == box.public /\ box.running

BootPublishes(box) == box.public

(* The next container of the list: one without a plain row is passed over,
   ports and all; of the others those without ports are. *)
BootInspect(s) ==
  /\ BootAt("next") /\ s \in boot.todo
  /\ boot' = [boot EXCEPT !.todo = @ \ {s}, !.service = s, !.found = bootBox[s],
                !.step = IF bootRow[s].plain /\ \E b \in bootBox[s] : BootPublishes(b) THEN "policy" ELSE "next"]
  /\ BootMoves /\ UNCHANGED BootRows

BootChangesBox(box) == bootBox' = [bootBox EXCEPT ![boot.service] = box]
BootBox == bootBox[boot.service]

(* The container must not come back with the host. *)
BootPolicy ==
  /\ BootAt("policy") /\ BootGoes("stop")
  /\ BootChangesBox({[b EXCEPT !.policy = "no"] : b \in BootBox})
  /\ BootMoves /\ UNCHANGED bootRow

BootStop ==
  /\ BootAt("stop") /\ BootGoes("remove")
  /\ BootChangesBox({[b EXCEPT !.running = FALSE] : b \in BootBox})
  /\ BootMoves /\ UNCHANGED bootRow

BootRemove ==
  /\ BootAt("remove") /\ BootGoes("create") /\ BootChangesBox({})
  /\ BootMoves /\ UNCHANGED bootRow

(* The replacement has the settings that were inspected, without the ports. *)
BootReplacement == {[public |-> FALSE, running |-> FALSE, policy |-> b.policy] : b \in boot.found}

\* Faulty variant: a refused replacement goes unnoticed.
BootReplaceUnnoticed ==
  /\ BootAt("create") /\ BootGoes("start")
  /\ BootChangesBox(BootReplacement) \/ UNCHANGED bootBox
  /\ BootMoves /\ UNCHANGED bootRow

BootReplace ==
  /\ BootAt("create")
  /\ \/ BootGoes("start") /\ BootChangesBox(BootReplacement)
     \/ BootGoes("fail") /\ UNCHANGED bootBox
  /\ BootMoves /\ UNCHANGED bootRow

\* Faulty variant: the service may be inactive.
BootStartsAny(s) == \E b \in boot.found : b.running

BootStarts(s) == bootRow[s].active /\ \E b \in boot.found : b.running

BootStart ==
  /\ BootAt("start")
  /\ IF BootStarts(boot.service)
     THEN \/ /\ BootGoes("record")
             /\ BootChangesBox({[b EXCEPT !.running = TRUE] : b \in BootBox})
          \/ BootGoes("fail") /\ UNCHANGED bootBox
     ELSE BootGoes("record") /\ UNCHANGED bootBox
  /\ BootMoves /\ UNCHANGED bootRow

BootRecord ==
  /\ BootAt("record")
  /\ \/ BootGoes("next") /\ bootRow' = [bootRow EXCEPT ![boot.service] = [@ EXCEPT !.recorded = TRUE, !.port = FALSE]]
     \/ BootGoes("fail") /\ UNCHANGED bootRow
  /\ BootMoves /\ UNCHANGED bootBox

BootFail ==
  /\ BootAt("fail") /\ BootGoes("next")
  /\ bootRow' = [bootRow EXCEPT ![boot.service] = [@ EXCEPT !.recorded = FALSE, !.port = FALSE, !.status = "failed"]]
  /\ BootMoves /\ UNCHANGED bootBox

(* The ports are cleared on every row, and the server listens. *)
BootServe ==
  /\ BootAt("next") /\ boot.todo = {} /\ boot' = [BootDown EXCEPT !.step = "serving"]
  /\ bootRow' = [s \in BootServices |-> [bootRow[s] EXCEPT !.port = FALSE]]
  /\ BootMoves /\ UNCHANGED bootBox

-----------------------------------------------------------------------------
(* Crashes: the process dies, or Docker refuses a step outside the try block
   and main exits; with it the host may restart, and with the host the
   containers whose policy says so. *)

BootHurtNow ==
  (IF boot.step \in {"stop", "remove", "create", "start", "record", "fail"} THEN {boot.service} ELSE {})
    \cup (IF boot.step = "route" THEN {0} ELSE {})

BootCrash ==
  /\ ~BootAt("down") /\ bootCrashes < BootCrashes /\ bootCrashes' = bootCrashes + 1
  /\ boot' = BootDown /\ bootHurt' = bootHurt \cup BootHurtNow
  /\ \E reboot \in BOOLEAN :
       bootBox' = [s \in BootServices |->
         {[b EXCEPT !.running = @ /\ (reboot => b.policy = "unless-stopped")] : b \in bootBox[s]}]
  /\ UNCHANGED <<bootRow, bootWas, bootBuiltIn, BootNames>>

BootNext ==
  \/ BootMain \/ BootLogRenames \/ BootForgetRenames \/ BootFind
  \/ BootCreateRepo \/ BootCreateService \/ BootCreateRoute \/ BootAddress
  \/ BootList \/ BootPolicy \/ BootStop \/ BootRemove \/ BootReplace
  \/ BootStart \/ BootRecord \/ BootFail \/ BootServe \/ BootCrash
  \/ \E s \in BootServices : BootInspect(s)

BootSpec == BootInit /\ [][BootNext]_BootVars

-----------------------------------------------------------------------------
(* Types: no insert is repeated but that of the repository. *)
BootTypeOK ==
  /\ \A s \in BootServices : Cardinality(bootBox[s]) <= 1 /\ bootBox[s] \subseteq BootBoxes
  /\ boot.todo \subseteq BootServices /\ Cardinality(boot.found) <= 1
  /\ bootNotes \subseteq BootRenames /\ bootBuiltIn.repos <= BootCrashes + 1
  /\ boot.step = "record" => bootBox[boot.service] # {}

(* The server listens only when no container of a service publishes a port,
   however often the start was broken off.  A container that has outlived its
   row is passed over and keeps its ports (portPolicy.ts:4-7, 16-29). *)
PortsClosed ==
  boot.step = "serving" => \A s \in BootServices : \A b \in bootBox[s] : b.public => ~bootRow[s].plain

(* Once the server listens, nothing runs that did not run before, nor a
   replacement of an inactive service; what ran runs again unless its service
   is inactive or its row says "failed".  A crash in the middle of its own
   migration may leave a service stopped (portPolicy.ts:27-67). *)
ServesAsBefore ==
  boot.step = "serving" =>
    \A s \in BootServices :
      LET runs == \E b \in bootBox[s] : b.running
          ran == {b \in bootWas[s] : b.running}
          may == bootRow[s].plain => bootRow[s].active
      IN /\ runs => \E b \in ran : b.public => may
         /\ ran # {} /\ s \notin bootHurt => runs \/ ~may \/ (bootRow[s].plain /\ bootRow[s].status = "failed")

(* The record of a rename is deleted only after it was logged (bootstrap.ts:79-96). *)
RenamesLogged == BootRenames \ bootNotes \subseteq bootLogged

(* There is at most one built-in service, and a server that listens has its
   root route unless a crash fell between the two inserts (bootstrap.ts:18-49). *)
OneBuiltIn ==
  /\ bootBuiltIn.services <= 1 /\ bootBuiltIn.routes <= 1
  /\ boot.step = "serving" => bootBuiltIn.services = 1 /\ (bootBuiltIn.routes = 1 \/ 0 \in bootHurt)

(* Together: a start, also one after broken starts, leaves ports, services,
   renames and the built-in service as they should be. *)
StartIsSound == BootTypeOK /\ PortsClosed /\ ServesAsBefore /\ RenamesLogged /\ OneBuiltIn

=============================================================================
