------------------------------ MODULE MCServer ------------------------------
(***************************************************************************)
(* TLC instance of the other parts that share no state: a behaviour is one *)
(* of a single part, chosen at the start, while the others rest in one     *)
(* state.                                                                  *)
(***************************************************************************)
EXTENDS ServiceEdits, Webhooks, ImageRetention, GithubApp, Siteyctl,
        SiteyctlArgs, StartUp, WebSession, ApiTokens, StaticFragment,
        ServiceDialog

VARIABLE part

MCConfigs == {[kind |-> "none", n |-> 0], [kind |-> "number", n |-> -1], [kind |-> "number", n |-> 2]}
MCStarts == {<<>>, <<ArgWord("service"), ArgWord("set")>>}

MCFragStarts ==
  {<< <<>> >>, << <<"header", "sp">> >>, << <<"handle", "sp", "{">>, <<>> >>, << <<"file_server", "sp", "{">>, <<>> >>}
MCDlgInferred == [r \in DlgRepos |-> IF r = "o/a" THEN "a" ELSE "b"]
MCDlgDefault == [r \in DlgRepos |-> IF r = "o/a" THEN "dev" ELSE "main"]

MCParts ==
  {"edits", "hooks", "images", "app", "ctl", "args", "boot", "session", "tokens", "fragment", "dialog"}

MCInit ==
  /\ part \in MCParts
  /\ EditInit /\ (part # "edits" => editRow.cfg = "")
  /\ HookInit
  /\ part = "hooks" => hookSvc[1].branch = "main"  \* the branches are alike
  /\ part # "hooks" => hookSecret = 0 /\ \A s \in HookServices : hookSvc[s].branch = "main"
  /\ ImgInit /\ (part # "images" => imgConfig.kind = "none")
  /\ AppInit
  /\ CtlInit /\ ctlSvc[1] = [name |-> "a", active |-> TRUE, routes |-> {"r"}]
  /\ ArgInit /\ (part # "args" => argv = <<>>)
  /\ BootInit /\ (part = "boot" => bootRow[2].active)
  /\ part # "boot" => \A s \in BootServices : bootBox[s] = {} /\ bootRow[s].active
  /\ SessInit /\ sessTab.nav.to = "home" /\ sessOver = sessSetup /\ [must |-> TRUE] \notin sessUser
  /\ part # "session" => sessUser = {}
  /\ TokInit /\ (part # "tokens" => tokUser = "none")
  /\ FragInit /\ (part # "fragment" => fragText = << <<>> >>)
  /\ DlgInit /\ (Cardinality(DOMAIN dlgOwner) = 2 => dlgPage = "")
  /\ part # "dialog" => dlgPage = "" /\ dlgOwner = <<>>

MCNext ==
  \/ part = "edits" /\ EditNext
     /\ UNCHANGED <<part, HookVars, ImgVars, AppVars, CtlVars,
                    ArgVars, BootVars, SessVars, TokVars, FragVars, DlgVars>>
  \/ part = "hooks" /\ HookNext
     /\ UNCHANGED <<part, EditVars, ImgVars, AppVars, CtlVars,
                    ArgVars, BootVars, SessVars, TokVars, FragVars, DlgVars>>
  \/ part = "images" /\ ImgNext
     /\ UNCHANGED <<part, EditVars, HookVars, AppVars, CtlVars,
                    ArgVars, BootVars, SessVars, TokVars, FragVars, DlgVars>>
  \/ part = "app" /\ AppNext
     /\ UNCHANGED <<part, EditVars, HookVars, ImgVars, CtlVars,
                    ArgVars, BootVars, SessVars, TokVars, FragVars, DlgVars>>
  \/ part = "ctl" /\ CtlNext
     /\ UNCHANGED <<part, EditVars, HookVars, ImgVars, AppVars,
                    ArgVars, BootVars, SessVars, TokVars, FragVars, DlgVars>>
  \/ part = "args" /\ ArgType
     /\ UNCHANGED <<part, EditVars, HookVars, ImgVars, AppVars,
                    CtlVars, BootVars, SessVars, TokVars, FragVars, DlgVars>>
  \/ part = "boot" /\ BootNext
     /\ UNCHANGED <<part, EditVars, HookVars, ImgVars, AppVars,
                    CtlVars, ArgVars, SessVars, TokVars, FragVars, DlgVars>>
  \/ part = "session" /\ SessNext
     /\ UNCHANGED <<part, EditVars, HookVars, ImgVars, AppVars,
                    CtlVars, ArgVars, BootVars, TokVars, FragVars, DlgVars>>
  \/ part = "tokens" /\ TokNext
     /\ UNCHANGED <<part, EditVars, HookVars, ImgVars, AppVars,
                    CtlVars, ArgVars, BootVars, SessVars, FragVars, DlgVars>>
  \/ part = "fragment" /\ FragType
     /\ UNCHANGED <<part, EditVars, HookVars, ImgVars, AppVars,
                    CtlVars, ArgVars, BootVars, SessVars, TokVars, DlgVars>>
  \/ part = "dialog" /\ DlgNext
     /\ UNCHANGED <<part, EditVars, HookVars, ImgVars, AppVars,
                    CtlVars, ArgVars, BootVars, SessVars, TokVars, FragVars>>

MCVars ==
  <<part, EditVars, HookVars, ImgVars, AppVars, CtlVars,
    ArgVars, BootVars, SessVars, TokVars, FragVars, DlgVars>>

MCSpec == MCInit /\ [][MCNext]_MCVars
=============================================================================
