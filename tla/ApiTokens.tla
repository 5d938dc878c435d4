----------------------------- MODULE ApiTokens ------------------------------
(***************************************************************************)
(* API tokens and who holds them: the sitey command on the VPS (cli.ts,    *)
(* apiTokens.ts), the VPS's own siteyctl, which makes its token on first   *)
(* use under a lock (deploy/siteyctl), and siteyctl elsewhere with its     *)
(* server profiles (profiles.ts, login).  Commands are processes: each     *)
(* query, transaction and file operation is a step.                        *)
(***************************************************************************)
EXTENDS Naturals, FiniteSets, Functions

CONSTANTS TokProcs,     \* commands that may run at the same time
          TokNames,     \* names given to tokens
          TokServers,   \* names of server profiles
          TokIds,       \* bound: tokens made
          TokCommands,  \* bound: commands run
          TokFaults     \* bound: kills, replacements of the container, changes of the first user

LocalCli == "local-cli"  \* LOCAL_CLI_TOKEN_NAME, reserved

ASSUME TokAssumption == /\ {TokIds, TokCommands, TokFaults} \subseteq Nat
                        /\ LocalCli \in TokNames /\ 0 \notin TokProcs

VARIABLES tokUser,      \* the first user: "none", "must" (change the password) or "settled"
          tokRows,      \* Token rows of type apikey: id -> name
          tokNext,      \* tokens made so far
          tokFile,      \* /run/sitey/local-cli.json: the id of its token, 0 without it
          tokLock,      \* who holds local-cli.lock, 0 if nobody
          tokProfiles,  \* servers.json: profile -> id of its token
          tokProc,      \* the commands
          tokCount,     \* commands and faults so far
          tokBroken     \* history: the file may have been left with a dead token

TokVars == <<tokUser, tokRows, tokNext, tokFile, tokLock, tokProfiles, tokProc, tokCount, tokBroken>>

TokNoProc == [kind |-> "none", step |-> "idle", name |-> "", got |-> 0, data |-> <<>>,
              overlap |-> FALSE, calm |-> TRUE, result |-> "none"]

TokInit ==
  /\ tokUser \in {"none", "settled"} /\ tokRows = <<>> /\ tokNext = 0 /\ tokFile = 0 /\ tokLock = 0
  /\ tokProfiles = <<>> /\ tokProc = [p \in TokProcs |-> TokNoProc]
  /\ tokCount = [commands |-> 0, faults |-> 0] /\ tokBroken = FALSE

TokAt(p, kinds, step) == tokProc[p].kind \in kinds /\ tokProc[p].step = step
TokOthersAt(p, step) == {q \in TokProcs \ {p} : tokProc[q].step = step}
TokGo(p, proc) == tokProc' = [tokProc EXCEPT ![p] = proc]
TokEnded(p, result) == [TokNoProc EXCEPT !.kind = tokProc[p].kind, !.step = "done", !.calm = tokProc[p].calm, !.result = result]
TokEnd(p, result) == TokGo(p, TokEnded(p, result))
TokDb == <<tokUser, tokRows, tokNext>>
TokFiles == <<tokFile, tokProfiles>>

\* A table with one entry added or replaced.
TokPut(table, key, value) == [k \in DOMAIN table \cup {key} |-> IF k = key THEN value ELSE table[k]]

-----------------------------------------------------------------------------
(* The commands *)

TokFirst(kind) ==
  CASE kind = "create" -> "check" [] kind = "local" -> "swap" [] kind = "revoke" -> "delete"
    [] kind = "run" -> "look" [] kind = "login" -> "prompt" [] kind = "remote" -> "select"

\* Which names a command takes: of a token, of a server or none.
TokArguments(kind) ==
  CASE kind = "create" -> TokNames \ {LocalCli} [] kind = "revoke" -> TokNames
    [] kind = "login" -> TokServers [] kind = "remote" -> TokServers \cup {""} [] OTHER -> {""}

TokBegin(p) ==
  /\ tokProc[p].step \in {"idle", "done"} /\ tokCount.commands < TokCommands
  /\ tokCount' = [tokCount EXCEPT !.commands = @ + 1]
  /\ \E kind \in {"create", "local", "revoke", "run", "login", "remote"} : \E name \in TokArguments(kind) :
       TokGo(p, [TokNoProc EXCEPT !.kind = kind, !.name = name, !.step = TokFirst(kind)])
  /\ UNCHANGED <<TokDb, TokFiles, tokLock, tokBroken>>

(* createApiToken: the name is looked up, then the token is stored. *)
TokCheck(p) ==
  /\ TokAt(p, {"create"}, "check")
  /\ IF tokUser = "none" \/ tokProc[p].name \in Range(tokRows) THEN TokEnd(p, "error")
     ELSE TokGo(p, [tokProc[p] EXCEPT !.step = "insert"])
  /\ UNCHANGED <<TokDb, TokFiles, tokLock, tokCount, tokBroken>>

TokWith(rows, name) == TokPut(rows, tokNext + 1, name)

TokInsert(p) ==
  /\ TokAt(p, {"create"}, "insert") /\ tokNext < TokIds
  /\ tokRows' = TokWith(tokRows, tokProc[p].name) /\ tokNext' = tokNext + 1 /\ TokEnd(p, "ok")
  /\ UNCHANGED <<tokUser, TokFiles, tokLock, tokCount, tokBroken>>

TokNamed(name) == {i \in DOMAIN tokRows : tokRows[i] = name}

(* revokeApiToken: every token of the name, then the file of local-cli. *)
TokDelete(p) ==
  /\ TokAt(p, {"revoke"}, "delete")
  /\ tokRows' = Restrict(tokRows, DOMAIN tokRows \ TokNamed(tokProc[p].name))
  /\ LET local == tokProc[p].name = LocalCli IN
     /\ tokBroken' = (tokBroken \/ (local /\ TokOthersAt(p, "file") # {}))
     /\ tokProc' = [q \in TokProcs |->
          IF q # p THEN [tokProc[q] EXCEPT !.calm = @ /\ ~local]
          ELSE IF local THEN [tokProc[p] EXCEPT !.step = "rm"] ELSE TokEnded(p, "ok")]
  /\ UNCHANGED <<tokUser, tokNext, TokFiles, tokLock, tokCount>>

TokRemoveFile(p) ==
  /\ TokAt(p, {"revoke"}, "rm")
  /\ tokFile' = 0 /\ TokEnd(p, "ok")
  /\ tokBroken' = \E q \in TokOthersAt(p, "file") : tokProc[q].got \notin DOMAIN tokRows
  /\ UNCHANGED <<TokDb, tokProfiles, tokLock, tokCount>>

-----------------------------------------------------------------------------
(* The local token *)

\* Faulty variant: the old token is left.
TokSwappedKept == TokWith(tokRows, LocalCli)

(* writeLocalCliToken: one transaction replaces the token. *)
TokSwapped == TokWith(Restrict(tokRows, DOMAIN tokRows \ TokNamed(LocalCli)), LocalCli)

\* Two of them at a time, one of them without the lock.
TokUnlocked(p) == \E q \in TokOthersAt(p, "file") : "local" \in {tokProc[p].kind, tokProc[q].kind}

TokReleased(p) == IF tokLock = p THEN 0 ELSE tokLock

TokSwap(p) ==
  /\ TokAt(p, {"local", "run"}, "swap")
  /\ IF tokUser = "none"
     THEN TokEnd(p, "error") /\ tokLock' = TokReleased(p) /\ UNCHANGED <<tokRows, tokNext, tokBroken>>
     ELSE /\ tokNext < TokIds /\ tokRows' = TokSwapped /\ tokNext' = tokNext + 1
          /\ tokBroken' = (tokBroken \/ TokUnlocked(p)) /\ UNCHANGED tokLock
          /\ tokProc' = [q \in TokProcs |->
               IF q # p THEN [tokProc[q] EXCEPT !.calm = @ /\ tokProc[p].kind = "run"]
               ELSE [tokProc[p] EXCEPT !.step = "file", !.got = tokNext + 1]]
  /\ UNCHANGED <<tokUser, TokFiles, tokCount>>

(* The file appears with one rename; siteyctl gives the lock back. *)
TokWriteFile(p) ==
  /\ TokAt(p, {"local", "run"}, "file")
  /\ tokFile' = tokProc[p].got
  /\ IF tokProc[p].kind = "local" THEN TokEnd(p, "ok") ELSE TokGo(p, [tokProc[p] EXCEPT !.step = "select", !.got = 0])
  /\ tokLock' = TokReleased(p)
  /\ tokBroken' = (\/ tokLock \notin {0, p}
                   \/ (tokBroken /\ (tokProc[p].got \notin DOMAIN tokRows \/ TokOthersAt(p, "file") # {})))
  /\ UNCHANGED <<TokDb, tokProfiles, tokCount>>

-----------------------------------------------------------------------------
(* deploy/siteyctl *)

TokLook(p) ==
  /\ TokAt(p, {"run"}, "look")
  /\ TokGo(p, [tokProc[p] EXCEPT !.step = IF tokFile # 0 THEN "select" ELSE "lock"])
  /\ UNCHANGED <<TokDb, TokFiles, tokLock, tokCount, tokBroken>>

\* Faulty variant: the lock is not waited for.
TokLockFreeAlways == TRUE

TokLockFree == tokLock = 0

TokTakeLock(p) ==
  /\ TokAt(p, {"run"}, "lock") /\ TokLockFree
  /\ tokLock' = p /\ TokGo(p, [tokProc[p] EXCEPT !.step = "again"])
  /\ UNCHANGED <<TokDb, TokFiles, tokCount, tokBroken>>

\* Faulty variant: the file is not looked for again.
TokMadeNever == FALSE

(* "the file is checked again once the lock is held" *)
TokMade == tokFile # 0

TokLookAgain(p) ==
  /\ TokAt(p, {"run"}, "again")
  /\ TokGo(p, [tokProc[p] EXCEPT !.step = IF TokMade THEN "select" ELSE "swap"])
  /\ tokLock' = IF TokMade THEN TokReleased(p) ELSE tokLock
  /\ UNCHANGED <<TokDb, TokFiles, tokCount, tokBroken>>

-----------------------------------------------------------------------------
(* Servers and requests *)

(* selectProfile: the one that is named, or the only one; {} is an error. *)
TokSelected(chosen) ==
  IF chosen # "" THEN {tokProfiles[n] : n \in DOMAIN tokProfiles \cap {chosen}}
  ELSE IF Cardinality(DOMAIN tokProfiles) = 1 THEN Range(tokProfiles) ELSE {}

(* In the container there are no profiles: the file is the server. *)
TokSelect(p) ==
  /\ TokAt(p, {"run", "remote"}, "select")
  /\ LET found == IF tokProc[p].kind = "run" THEN {tokFile} \ {0} ELSE TokSelected(tokProc[p].name)
     IN IF found = {} THEN TokEnd(p, "usage")
        ELSE TokGo(p, [tokProc[p] EXCEPT !.step = "request", !.got = CHOOSE i \in found : TRUE,
                                         !.calm = @ /\ ~tokBroken /\ TokOthersAt(p, "rm") = {}
                                                     /\ ~\E q \in TokOthersAt(p, "file") : tokProc[q].kind = "local"])
  /\ UNCHANGED <<TokDb, TokFiles, tokLock, tokCount, tokBroken>>

(* authenticateToken for a bearer, then settledProcedure. *)
TokAnswer(id) ==
  IF id \notin DOMAIN tokRows THEN "rejected" ELSE IF tokUser = "must" THEN "forbidden" ELSE "ok"

TokRequest(p) ==
  /\ TokAt(p, {"run", "remote"}, "request")
  /\ TokEnd(p, TokAnswer(tokProc[p].got))
  /\ UNCHANGED <<TokDb, TokFiles, tokLock, tokCount, tokBroken>>

\* Faulty variant: the profiles are loaded before the server is asked.
TokLoginNextEarly(step) == CASE step = "prompt" -> "load" [] step = "load" -> "who" [] step = "who" -> "save"

TokLoginNext(step) == CASE step = "prompt" -> "who" [] step = "who" -> "load" [] step = "load" -> "save"

(* login: a token is typed, whoami is asked (which needs no settled password),
   then the profiles are loaded and saved with the new one. *)
TokPrompt(p) ==
  /\ TokAt(p, {"login"}, "prompt")
  /\ \/ \E i \in 1 .. tokNext : TokGo(p, [tokProc[p] EXCEPT !.got = i, !.step = TokLoginNext("prompt")])
     \/ TokEnd(p, "usage")
  /\ UNCHANGED <<TokDb, TokFiles, tokLock, tokCount, tokBroken>>

TokWhoami(p) ==
  /\ TokAt(p, {"login"}, "who")
  /\ \/ TokAnswer(tokProc[p].got) # "rejected" /\ TokGo(p, [tokProc[p] EXCEPT !.step = TokLoginNext("who")])
     \/ TokEnd(p, "error")
  /\ UNCHANGED <<TokDb, TokFiles, tokLock, tokCount, tokBroken>>

TokLoad(p) ==
  /\ TokAt(p, {"login"}, "load")
  /\ TokGo(p, [tokProc[p] EXCEPT !.data = tokProfiles, !.step = TokLoginNext("load")])
  /\ UNCHANGED <<TokDb, TokFiles, tokLock, tokCount, tokBroken>>

TokSave(p) ==
  /\ TokAt(p, {"login"}, "save")
  /\ tokProfiles' = TokPut(tokProc[p].data, tokProc[p].name, tokProc[p].got)
  /\ tokProc' = [q \in TokProcs |->
       IF q = p THEN TokEnded(p, "ok")
       ELSE [tokProc[q] EXCEPT !.overlap = @ \/ TokAt(q, {"login"}, "save")]]
  /\ UNCHANGED <<TokDb, tokFile, tokLock, tokCount, tokBroken>>

-----------------------------------------------------------------------------
(* Faults and the web *)

TokFault == tokCount.faults < TokFaults /\ tokCount' = [tokCount EXCEPT !.faults = @ + 1]

(* A command is killed; the kernel frees its lock. *)
TokKill(p) ==
  /\ TokFault /\ tokProc[p].step \notin {"idle", "done"}
  /\ tokBroken' = (tokBroken \/ tokProc[p].step \in {"file", "rm"})
  /\ tokLock' = TokReleased(p) /\ TokEnd(p, "killed") /\ UNCHANGED <<TokDb, TokFiles>>

(* The container is replaced: its files and processes go. *)
TokReplaced ==
  /\ TokFault /\ tokFile' = 0 /\ tokLock' = 0 /\ tokBroken' = FALSE
  /\ tokProc' = [p \in TokProcs |->
       IF tokProc[p].kind \in {"login", "remote"} \/ tokProc[p].step \in {"idle", "done"} THEN tokProc[p]
       ELSE TokEnded(p, "killed")]
  /\ UNCHANGED <<TokDb, tokProfiles>>

(* Setup, and a password that is reset and changed. *)
TokUserChanges ==
  /\ TokFault
  /\ tokUser' = IF tokUser = "settled" THEN "must" ELSE "settled"
  /\ UNCHANGED <<tokRows, tokNext, TokFiles, tokLock, tokProc, tokBroken>>

(* Another administrator deletes the first user: the local-cli token and the
   others made for that user go with it (onDelete: Cascade), the file stays, and
   the next user is the first.  A command that has looked the user up fails. *)
TokUserDeleted ==
  /\ TokFault /\ tokUser # "none" /\ tokUser' \in {"must", "settled"}
  /\ \E others \in SUBSET (DOMAIN tokRows \ TokNamed(LocalCli)) : tokRows' = Restrict(tokRows, others)
  /\ tokBroken' = (tokBroken \/ tokFile # 0 \/ \E q \in TokProcs : tokProc[q].step = "file")
  /\ \E orphans \in SUBSET {q \in TokProcs : tokProc[q].step \in {"insert", "swap"}} :
       tokProc' = [q \in TokProcs |->
         [tokProc[q] EXCEPT !.calm = FALSE, !.step = IF q \in orphans THEN "orphan" ELSE @]]
  /\ UNCHANGED <<tokNext, TokFiles, tokLock>>

(* insertApiToken for a user who is gone. *)
TokOrphaned(p) ==
  /\ TokAt(p, {"create", "local", "run"}, "orphan")
  /\ TokEnd(p, "error") /\ tokLock' = TokReleased(p) /\ UNCHANGED <<TokDb, TokFiles, tokCount, tokBroken>>

TokNext ==
  \/ \E p \in TokProcs :
       \/ TokBegin(p) \/ TokCheck(p) \/ TokInsert(p) \/ TokDelete(p) \/ TokRemoveFile(p) \/ TokSwap(p)
       \/ TokWriteFile(p) \/ TokLook(p) \/ TokTakeLock(p) \/ TokLookAgain(p) \/ TokSelect(p) \/ TokRequest(p)
       \/ TokPrompt(p) \/ TokWhoami(p) \/ TokLoad(p) \/ TokSave(p) \/ TokKill(p) \/ TokOrphaned(p)
  \/ TokReplaced \/ TokUserChanges \/ TokUserDeleted

TokSpec == TokInit /\ [][TokNext]_TokVars
-----------------------------------------------------------------------------
(* Types.  There is never more than one local-cli token
   (apiTokens.ts:168, "there's never more than one local-cli token"). *)
TokTypeOK ==
  /\ DOMAIN tokRows \subseteq 1 .. tokNext /\ Range(tokRows) \subseteq TokNames
  /\ tokFile \in 0 .. tokNext /\ tokLock \in TokProcs \cup {0} /\ DOMAIN tokProfiles \subseteq TokServers
  /\ \A p \in TokProcs : tokProc[p].result \in {"none", "ok", "error", "usage", "rejected", "forbidden", "killed"}
  /\ Cardinality(TokNamed(LocalCli)) <= 1

(* However many first runs of siteyctl coincide, the file they leave holds the
   live local-cli token.  A dead token is left in it by a command that was killed
   half-way, by a revocation that overlaps the file's making, by a second maker
   without the lock, and by the deletion of the first user, which takes the token
   and leaves the file; removing the file repairs it (deploy/siteyctl:29-39;
   apiTokens.ts:166-172, 216; auth.ts:369). *)
FileIsLive ==
  \/ tokFile \in {0} \cup TokNamed(LocalCli) \/ tokBroken
  \/ \E p \in TokProcs : tokProc[p].step \in {"file", "rm"}

(* A run of siteyctl on the VPS is rejected only if a revocation, a making
   without the lock or the deletion of the first user overlaps it, or the file
   was broken before: first runs do not invalidate each other's token
   (deploy/siteyctl:29-39). *)
RunIsAccepted ==
  \A p \in TokProcs : tokProc[p].kind = "run" /\ tokProc[p].result = "rejected" => ~tokProc[p].calm

(* Logging in keeps the profiles others saved while the token was typed and
   checked: what is about to be written has them; only a login that saves
   between this one's load and save is lost (commands.ts:307-327: loadProfiles
   after whoami). *)
LoginKeepsProfiles ==
  \A p \in TokProcs : TokAt(p, {"login"}, "save") /\ ~tokProc[p].overlap =>
    \A n \in DOMAIN tokProfiles \ {tokProc[p].name} :
      n \in DOMAIN tokProc[p].data /\ tokProc[p].data[n] = tokProfiles[n]

(* Together: tokens in files are live, and files keep what others wrote. *)
TokensAreSound == TokTypeOK /\ FileIsLive /\ RunIsAccepted /\ LoginKeepsProfiles
=============================================================================
