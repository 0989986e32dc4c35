\* A supervisor restarts the daemon while a forced setup runs.
CONSTANTS
    None = None
    Disciplines <- StoppedForTeardown
    MaxCommits = 3
    MaxCommands = 3
    MaxFaults = 2
SPECIFICATION Spec
INVARIANTS
    InterruptedSetupLeavesNoCheckpoint
CHECK_DEADLOCK FALSE
