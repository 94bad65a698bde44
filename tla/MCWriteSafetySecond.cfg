\* Two overlapping writes of one EEPROM register.
CONSTANTS
    t1 = t1
    t2 = t2
    system_mode = system_mode
    glt_demand = glt_demand
    Task <- TwoTasks
    Eeprom <- Throttled
    Cyclic <- Nothing
    Interval = 3
    Ttl = 2
    DeviceTtl = 3
    Timeout = 1
    MaxRetries = 2
    MaxTime = 4
    MaxCalls = 2
    Never = Never
SPECIFICATION Spec
INVARIANT SecondWriteRefused
