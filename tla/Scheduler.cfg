CONSTANTS
    digest = digest
    patrol = patrol
    Sched = {digest}
    Agents = {digest}
    Period <- MCPeriod
    Cron <- MCCron
    Grace = 1
    Capacity = 2
    MaxTime = 5
    MaxRuns = 1
SPECIFICATION FairSpec
INVARIANTS TypeOK OneDelivery
PROPERTIES SkipsOnlyStale NoWindowWaitsForEver
CHECK_DEADLOCK FALSE
