CONSTANTS
    panel = panel
    zone = zone
    None = None
    Root = Root
    Request = {q1}
    Host = {panel}
    Zone = {zone}
    ZoneOf <- MCZoneOf
    PanelHost <- MCPanelHost
    Loopback = {}
    Path = {Root}
    MaxDomain = 1
    MaxRoute = 2
    MaxService = 2
    MaxWant = 1
SPECIFICATION Spec
INVARIANTS
    ManagementRootReserved
