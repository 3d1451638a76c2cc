CONSTANTS
    j1 = j1
    j2 = j2
    j3 = j3
    Jobs = {j1, j2, j3}
    q1 = q1
    q2 = q2
    Queues = {q1, q2}
    w1 = w1
    w2 = w2
    Workers = {w1, w2}
    NoJob = NoJob
SPECIFICATION FairSpecF
INVARIANTS TypeOK IndexMatchesQueues NoLostWakeup RoundRobinForBacklogs
PROPERTIES ImplementsPool EveryJobRuns AddJobReturns StopEndsGoroutines
CHECK_DEADLOCK FALSE
