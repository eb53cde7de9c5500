SPECIFICATION Spec
CONSTANTS
    r = r
    s = s
    Callers = {r}
    Decisions = {"decision"}
    IssueInterval = 2
    CodeTTL = 3
    MaxFailures = 2
    MinDelay = 1
    MaxDelay = 2
    TouchInterval = 1
    IdleTimeout = 3
    Lifetime = 4
    MaxTime = 4
    MaxIds = 3
    MaxFaults = 0
    MaxEvents = 0
PROPERTY OneCodeAMinute
