SPECIFICATION Spec
CONSTANTS
    nameless = nameless
    generated = generated
    p1 = p1
    workspace = workspace
    Forms = {nameless, generated}
    Named <- MCNamed
    Peers = {p1}
    Rows = {workspace}
    Workspaces = {workspace}
    Base <- MCBase
    MaxWrites = 2
INVARIANTS
    TurnsLoseNothing
    TableShownIsStored
CHECK_DEADLOCK FALSE
