CONSTANTS
    Rules = 2
    Owner = {e1}
    Everyone = Everyone
    Text = {t1}
    Blank = Blank
    MaxInFlight = 2
    MaxCommands = 2
SPECIFICATION Spec
PROPERTY SwitchWorks
CHECK_DEADLOCK FALSE
