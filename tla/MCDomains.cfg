CONSTANTS
    panel = panel
    zone = zone
    None = None
    Root = Root
    Request = {q1, q2}
    Host = {panel}
    Zone = {zone}
    ZoneOf <- MCZoneOf
    PanelHost <- MCPanelHost
    Loopback = {}
    Path = {Root}
    MaxDomain = 2
    MaxRoute = 2
    MaxService = 2
    MaxWant = 1
    MaxRows = 5
    TlsDomains = {"ex", "lo"}
    TlsRoutes = {"r", "h"}
    TlsOwner <- MCTlsOwner
    TlsLoopback = {"lo"}
    TlsHttpOnly = {"h"}
    TlsProbes = 2
    TlsRouteProbes = 1
    SiteLabels = {"", "shop", "sitey", "sitey-dns-check"}
    SiteRowNames = {"*", "shop", "sitey"}
    SitePanels = {"sitey"}
    SitePrefixes = {"", "/a"}
    SiteServices = {1}
    SiteRows = 2
    SiteRoutes = 2
SPECIFICATION MCSpec
INVARIANTS
    TableIsSound
    SitesAreSound
    TlsIsSound
PROPERTIES
    RemovesOnlyOwn
    ImplementsOwnership
    NewestProbeKept
SYMMETRY RequestSymmetry
