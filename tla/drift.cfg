\* Renames, dropped columns and changed identities beside a daemon that halts and restarts.
CONSTANTS
    r1 = r1
    r2 = r2
    orders = orders
    items = items
    other = other
    None = None
    RelId <- MCRelId
    Name <- MCName
    Sources <- MCSources
    InitialName <- MCInitialName
    MaxEvents = 3
    MaxChanges = 2
    MaxProcesses = 2
SPECIFICATION Spec
INVARIANTS
    TypeOK
    RoutedByName
    DriftNeverPassed
PROPERTIES
    NeverFreezesInProcess
CHECK_DEADLOCK FALSE
