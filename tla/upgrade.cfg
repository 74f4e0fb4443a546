SPECIFICATION UpgradeSpec
CONSTANTS
    port = port
    new = new
    None = None
    Port = port
    Cases <- MCCases
    vercmp <- Compare
    NewerThan <- NewerVersion
    SameAs <- SameSegments
    ComparableTo <- Comparable
INVARIANT NewestChosen
INVARIANT UpgradesWhenNewer
INVARIANT EndsCurrent
PROPERTY ReplacementReady
CHECK_DEADLOCK FALSE
