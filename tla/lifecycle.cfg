\* Setups, forced setups and teardowns that die anywhere, the daemon stopped for some or none of them.
CONSTANTS
    None = None
    Disciplines <- AnyDiscipline
    MaxCommits = 3
    MaxCommands = 3
    MaxFaults = 2
SPECIFICATION Spec
INVARIANTS
    TypeOK
    CompleteViews
    InterruptedSetupIsRefused
    NoForgottenSlot
    CompletedSetupServes
PROPERTIES
    Implements
CHECK_DEADLOCK FALSE
