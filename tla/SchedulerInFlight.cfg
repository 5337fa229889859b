CONSTANTS
    digest = digest
    patrol = patrol
    Sched = {patrol}
    Agents = {}
    Period <- MCPeriod
    Cron <- MCCron
    Grace = 1
    Capacity = 2
    MaxTime = 4
    MaxRuns = 0
SPECIFICATION Spec
INVARIANTS NeverTwoInFlight
CHECK_DEADLOCK FALSE
