\* The script alone decides: what exit code 0 says when docker compose config fails.
CONSTANTS
    Checked <- MCChecked
    Faults = 1
    Timeout = 4
    PollInterval = 2
    MaxQuery = 1
    Turns = {t1}
    Probes = {p1}
    PoolSize = 1
    RedisPool = 1
    Starts = 1
    t1 = t1
    p1 = p1
    t2 = t2
SPECIFICATION Spec
INVARIANTS
    AllHealthy
