\* A source is renamed, and the daemon that halted on it is restarted.
CONSTANTS
    r1 = r1
    r2 = r2
    orders = orders
    items = items
    other = other
    None = None
    RelId <- MCRelId
    Name <- MCName
    Sources <- MCSources
    InitialName <- MCInitialName
    MaxEvents = 3
    MaxChanges = 1
    MaxProcesses = 2
SPECIFICATION Spec
INVARIANTS
    NeverFreezes
CHECK_DEADLOCK FALSE
