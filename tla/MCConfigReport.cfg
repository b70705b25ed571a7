\* The operator breaks, mends and breaks the environment again, over three
\* days, starting from every kind of value of every variable.
SPECIFICATION FairConfig
CONSTANTS
    None = None
    Addresses = {"squad"}
    Environments <- OneVariableSet
    Edits <- FourEdits
    LastDay = 2
    LastFaultDay = 1
    Faults = {"telegram", "disk"}
INVARIANT AcceptedConfigIsMeant
PROPERTIES AlertNotRepeated InvalidConfigReported
