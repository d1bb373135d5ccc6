SPECIFICATION FairSpec
CONSTANTS
    g1 = g1
    empty = empty
    text = text
    Gates = {g1}
    Projects = {g1}
    Texts = {empty, text}
    Empty = empty
    MaxCalls = 2
    MaxRuns = 2
    MaxAnswers = 2
INVARIANTS
    SentWasMeant
    DecidedOnce
PROPERTIES
    PanelConverges
CHECK_DEADLOCK FALSE
