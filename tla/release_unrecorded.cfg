\* A service and its log: which attempts leave no trace.
SPECIFICATION Spec
CONSTANTS
    cli = cli
    app = app
    Session = {app}
    Cli = {}
    NLogs = 1
    Lossy = {}
    MaxCalls = 1
    BatchSize = 1
INVARIANTS EveryAttemptRecorded
CHECK_DEADLOCK FALSE
