\* Three services with one fault, a script of four seconds that polls every two
\* with queries of up to one; two turns and a probe share two pools of two.
CONSTANTS
    Checked <- MCChecked
    Faults = 1
    Timeout = 4
    PollInterval = 2
    MaxQuery = 1
    Turns = {t1, t2}
    Probes = {p1}
    PoolSize = 2
    RedisPool = 2
    Starts = 2
    t1 = t1
    p1 = p1
    t2 = t2
SYMMETRY MCSymmetry
SPECIFICATION Spec
INVARIANTS
    TypeOK
    VerdictSound
    ProbeTruthful
