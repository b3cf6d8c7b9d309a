CONSTANTS
    Text = {t1}
    Blank = Blank
    Key = {k1}
    Trim <- MCTrim
    Target = {e1}
    MaxRows = 1
    MaxInFlight = 2
    MaxCommands = 5
SPECIFICATION Spec
INVARIANT PostSourcesPost
CHECK_DEADLOCK FALSE
