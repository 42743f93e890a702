\* A command and a service share a log; the service has a second one, and a logger.
SPECIFICATION Spec
CONSTANTS
    cli = cli
    app = app
    Session = {cli, app}
    Cli = {cli}
    NLogs = 3
    Lossy = {2}
    MaxCalls = 2
    BatchSize = 2
INVARIANTS ReleaseTypeOK ReleasedIsRecorded LaterLogsNeverAhead OneEventPerCall ViewsAreOnRecord
CHECK_DEADLOCK FALSE
