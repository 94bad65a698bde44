\* Two callers of one EEPROM and one cyclic register; three writes, so that
\* a third can follow two that overlapped; a clock that outlives an interval
\* and a time to live.
CONSTANTS
    t1 = t1
    t2 = t2
    system_mode = system_mode
    glt_demand = glt_demand
    Task <- TwoTasks
    Eeprom <- Throttled
    Cyclic <- Refreshed
    Interval = 3
    Ttl = 2
    DeviceTtl = 3
    Timeout = 1
    MaxRetries = 2
    MaxTime = 5
    MaxCalls = 3
    Never = Never
SYMMETRY TaskSymmetry
SPECIFICATION Spec
INVARIANTS
    TypeOK
    SettledWritesAreSpaced
    ThrottleIsEarned
    ActiveIsHeld
