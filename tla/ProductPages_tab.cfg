SPECIFICATION Spec
CONSTANTS
    Modes = {"mock", "live"}
    People = {"ann"}
    DemoUser = "demo-dynamic-user"
    Example <- MCExample
    Labels = {"rent"}
    Percentages = {6000}
    Switches = {"largeTransfer"}
    MaxClicks = 3
    MaxEdits = 2
    MaxTurns = 2
    MaxUse = 5
INVARIANTS
    SavedIsValidated
    StoredIdsKnown
PROPERTIES
    BusyEnds
CHECK_DEADLOCK FALSE
