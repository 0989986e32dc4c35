\* One source takes over the name of another within one process.
CONSTANTS
    r1 = r1
    r2 = r2
    orders = orders
    items = items
    other = other
    None = None
    RelId <- MCRelId
    Name <- MCName
    Sources <- MCSources
    InitialName <- MCInitialName
    MaxEvents = 3
    MaxChanges = 2
    MaxProcesses = 1
SPECIFICATION Spec
INVARIANTS
    FedByTheirTable
CHECK_DEADLOCK FALSE
