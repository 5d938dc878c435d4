--------------------------- MODULE ImageRetention ---------------------------
(***************************************************************************)
(* The images of one service: deployServer and getKeepTags of              *)
(* services/deployment.ts, buildImage and pruneServiceImages of            *)
(* services/docker.ts.  Deployments of a service never overlap             *)
(* (DeployQueue), so this is the sequence of them.                         *)
(*                                                                         *)
(* A commit gives one tag.  Docker's part: a build gives its tag to a new  *)
(* or, from its cache, to an existing image and takes it from the image    *)
(* that had it; an image that a container uses or that has several tags is *)
(* not removed without force.                                              *)
(***************************************************************************)
EXTENDS Integers, Sequences, FiniteSets

CONSTANTS ImgShas,      \* commits
          ImgConfigs,   \* stored values of cleanup_rollback_count
          ImgDeploys    \* bound: deployments that get to build an image

ASSUME ImgAssumption == /\ ImgDeploys \in Nat
                        /\ ImgConfigs \subseteq [kind : {"none", "text", "number"}, n : Int]

VARIABLES
  imgConfig,    \* the stored rollback count
  imgHistory,   \* commits of the successful deployments, oldest first
  imgTag,       \* image of each commit's tag, 0 if there is none
  imgHere,      \* images Docker has
  imgBuilt,     \* deployments so far
  imgUsed,      \* image of the service's container, 0 if there is none
  imgJob,       \* the deployment in progress
  imgRefused    \* observer: images Docker refused to remove for another reason

ImgVars == <<imgConfig, imgHistory, imgTag, imgHere, imgBuilt, imgUsed, imgJob, imgRefused>>

ImgIdle == [step |-> "idle", sha |-> "none", previous |-> {}, before |-> {}, n |-> 0]
ImgTagsOf(i) == {c \in ImgShas : imgTag[c] = i}

ImgInit ==
  /\ imgConfig \in ImgConfigs
  /\ imgHistory = <<>> /\ imgHere = {} /\ imgBuilt = 0 /\ imgUsed = 0 /\ imgRefused = {}
  /\ imgTag = [c \in ImgShas |-> 0]
  /\ imgJob = ImgIdle

ImgAt(step) == imgJob.step = step

(* Commits come in any order: the branch moves, or an older one is deployed. *)
ImgBuild(c) ==
  /\ ImgAt("idle")
  /\ imgBuilt < ImgDeploys /\ imgBuilt' = imgBuilt + 1
  /\ \E i \in imgHere \cup {imgBuilt'} :
       /\ imgHere' = imgHere \cup {i}
       /\ imgTag' = [imgTag EXCEPT ![c] = i]
  /\ imgJob' = [ImgIdle EXCEPT !.step = "built", !.sha = c]
  /\ UNCHANGED <<imgConfig, imgHistory, imgUsed, imgRefused>>

(* The old container is removed, the new one created and found running; each
   of these may fail. *)
ImgReplace ==
  /\ ImgAt("built")
  /\ \/ imgJob' = [imgJob EXCEPT !.step = "running"] /\ imgUsed' = imgTag[imgJob.sha]
     \/ imgJob' = ImgIdle /\ imgUsed' \in {imgUsed, 0, imgTag[imgJob.sha]}
  /\ UNCHANGED <<imgConfig, imgHistory, imgTag, imgHere, imgBuilt, imgRefused>>

(* Faulty variant: negative counts are taken as they are. *)
ImgCountUnclamped(value) == IF value.kind = "none" THEN 1 ELSE value.n

(* parseRollbackCount *)
ImgCount(value) ==
  CASE value.kind = "none" -> 1
    [] value.kind = "text" -> 0
    [] value.kind = "number" -> IF value.n < 0 THEN 0 ELSE value.n

(* getKeepTags reads the count ... *)
ImgReadCount ==
  /\ ImgAt("running")
  /\ imgJob' = [imgJob EXCEPT !.step = "counted", !.n = ImgCount(imgConfig)]
  /\ UNCHANGED <<imgConfig, imgHistory, imgTag, imgHere, imgBuilt, imgUsed, imgRefused>>

(* Faulty variant: the history has the deployment in progress already. *)
ImgRecentWithCurrent(n) ==
  LET h == Append(imgHistory, imgJob.sha) IN {h[k] : k \in {k \in 1 .. Len(h) : k > Len(h) - n}}

(* ... and the commits of the n latest successful deployments. *)
ImgRecent(n) == {imgHistory[k] : k \in {k \in 1 .. Len(imgHistory) : k > Len(imgHistory) - n}}

ImgReadPrevious ==
  /\ ImgAt("counted")
  /\ imgJob' = [imgJob EXCEPT !.step = "prune", !.previous = ImgRecent(imgJob.n),
                  !.before = {c \in {imgHistory[k] : k \in {k \in DOMAIN imgHistory : k + imgJob.n > Len(imgHistory)}} :
                                imgTag[c] # 0}]
  /\ UNCHANGED <<imgConfig, imgHistory, imgTag, imgHere, imgBuilt, imgUsed, imgRefused>>

(* buildKeepTags, as commits. *)
ImgKeep == IF imgJob.n = 0 THEN {imgJob.sha} ELSE {imgJob.sha} \cup imgJob.previous

(* Faulty variant: an image is kept when all of its tags are. *)
ImgKeptAll(i) == ImgTagsOf(i) \subseteq ImgKeep

ImgKept(i) == ImgTagsOf(i) \cap ImgKeep # {}

(* pruneServiceImages: a refusal is logged and the next image tried. *)
ImgPrune ==
  /\ ImgAt("prune")
  /\ LET removable == {i \in imgHere : /\ ~ImgKept(i) /\ i # imgUsed
                                       /\ Cardinality(ImgTagsOf(i)) <= 1}
     IN \E refused \in SUBSET removable :
          /\ imgRefused' = refused
          /\ imgHere' = imgHere \ (removable \ refused)
          /\ imgTag' = [c \in ImgShas |-> IF imgTag[c] \in imgHere' THEN imgTag[c] ELSE 0]
  /\ imgJob' = [imgJob EXCEPT !.step = "pruned"]
  /\ UNCHANGED <<imgConfig, imgHistory, imgBuilt, imgUsed>>

ImgSucceed ==
  /\ ImgAt("pruned")
  /\ imgHistory' = Append(imgHistory, imgJob.sha)
  /\ imgJob' = ImgIdle
  /\ UNCHANGED <<imgConfig, imgTag, imgHere, imgBuilt, imgUsed, imgRefused>>

(* Any step before the last may throw, also after the container runs; the
   service's container may be removed when it is deactivated. *)
ImgFail ==
  /\ imgJob.step \in {"running", "counted", "prune", "pruned"}
  /\ imgJob' = ImgIdle
  /\ UNCHANGED <<imgConfig, imgHistory, imgTag, imgHere, imgBuilt, imgUsed, imgRefused>>

ImgDeactivate ==
  /\ imgUsed # 0 /\ imgUsed' = 0
  /\ UNCHANGED <<imgConfig, imgHistory, imgTag, imgHere, imgBuilt, imgJob, imgRefused>>

ImgConfigure ==
  /\ \E v \in ImgConfigs : v # imgConfig /\ imgConfig' = v
  /\ UNCHANGED <<imgHistory, imgTag, imgHere, imgBuilt, imgUsed, imgJob, imgRefused>>

ImgNext ==
  \/ \E c \in ImgShas : ImgBuild(c)
  \/ ImgReplace \/ ImgReadCount \/ ImgReadPrevious \/ ImgPrune \/ ImgSucceed
  \/ ImgFail \/ ImgDeactivate \/ ImgConfigure

ImgSpec == ImgInit /\ [][ImgNext]_ImgVars

-----------------------------------------------------------------------------
(* Types; and every tag and the container name an image Docker has. *)
ImgTypeOK ==
  /\ imgConfig \in ImgConfigs
  /\ imgHistory \in Seq(ImgShas)
  /\ imgHere \subseteq 1 .. imgBuilt /\ imgUsed \in imgHere \cup {0}
  /\ imgTag \in [ImgShas -> imgHere \cup {0}]
  /\ imgJob.sha \in ImgShas \cup {"none"} /\ imgJob.n \in Nat
  /\ imgJob.previous \subseteq ImgShas

(* Pruning leaves the image of the new deployment and those of the n successful
   deployments before it, as far as they existed (deployment.ts:177-204: the
   deployment in progress is not yet among the successes). *)
RollbacksKept ==
  ImgAt("pruned") => /\ imgTag[imgJob.sha] # 0
                     /\ \A c \in imgJob.before : imgTag[c] # 0

(* Pruning leaves nothing else, whatever failed or interrupted deployments left
   behind: at most n + 1 images besides those in use, with several tags or that
   Docker refused to remove (docker.ts:144-166). *)
ImagesBounded ==
  ImgAt("pruned") =>
    Cardinality({i \in imgHere \ imgRefused : i # imgUsed /\ Cardinality(ImgTagsOf(i)) <= 1})
      <= imgJob.n + 1

(* Together: pruning keeps what a rollback needs and little else. *)
ImagesAreKept == ImgTypeOK /\ RollbacksKept /\ ImagesBounded

=============================================================================
