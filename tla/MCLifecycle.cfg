SPECIFICATION FairSpec
CONSTANTS
    low = low
    high = high
    nameless = nameless
    Cores = {low, high, nameless}
    PortOf <- MCPortOf
    Nameless = {nameless}
    InitialCore = low
    Tables <- MCTables
    AbsolutePaths <- MCPaths
    Workspaces <- MCWorkspaces
    PortRetries = 1
    Contested = {1}
    MaxEdits = 2
INVARIANTS
    ReleasedBeforeNext
    StartedMeansUp
    ImportKeepsTable
PROPERTIES
    LastEditApplies
    UnloadReleases
CHECK_DEADLOCK FALSE
