CONSTANTS
    EditNames = {"A", "B"}
    EditCfgs = {"good", "bad"}
    EditValid = {"good"}
    EditClis = {"c1"}
    EditAttempts = 2
    EditMoves = 2
    HookServices = {1, 2, 3}
    HookBranches = {"main", "dev"}
    HookDeliveries = {"x"}
    HookTries = 2
    HookEdits = 2
    ImgShas = {"a", "b", "c"}
    ImgConfigs <- MCConfigs
    ImgDeploys = 3
    AppConfs = 2
    AppMoves = 2
    CtlServices = 2
    CtlNames = {"a", "b"}
    CtlRoutes = {"r", "h"}
    CtlHttpOnly = {"h"}
    CtlCommands = {"deploy wait", "status", "create", "delete", "route add"}
    CtlFailAfter = 2
    CtlPolls = 3
    CtlDeployments = 2
    CtlMoves = 2
    ArgWords = {"service", "set", "status", "a", "help"}
    ArgOptions = {"wait", "timeout", "server", "dockerfile", "help", "--"}
    ArgStarts <- MCStarts
    ArgLength = 4
    BootServices = {1, 2}
    BootRenames = {"n"}
    BootCrashes = 2
    SessTokens = 2
    SessMoves = 3
    SessOthers = 1
    TokProcs = {1, 2}
    TokNames = {"ci", "local-cli"}
    TokServers = {"x", "y"}
    TokIds = 3
    TokCommands = 3
    TokFaults = 1
    FragSymbols = {"sp", "cr", "wide", "dq", "{", "}", "header", "root", "browse", "handle", "file_server"}
    FragTyped = {"sp", "cr", "wide", "dq", "{", "}", "header", "root", "browse"}
    FragStarts <- MCFragStarts
    FragLength = 4
    DlgRepos = {"o/a", "o/b"}
    DlgInferred <- MCDlgInferred
    DlgDefault <- MCDlgDefault
    DlgNames = {"x"}
    DlgBranches = {"old"}
    DlgDomains = {"ex", "localhost"}
    DlgLoopback = {}
    DlgMoves = 3
    DlgAttempts = 2
    DlgOthers = 1
SPECIFICATION MCSpec
INVARIANTS
    EditsAreSound
    PushIsDeployed
    ImagesAreKept
    CacheIsSound
    VerdictIsSound
    LineIsUnderstood
    StartIsSound
    SessionIsSound
    TokensAreSound
    FragmentIsSound
    DialogIsSound
PROPERTIES
    EditKeepsOthers
    ActsOnResolved
    AnnouncedIsComplete
CHECK_DEADLOCK FALSE
