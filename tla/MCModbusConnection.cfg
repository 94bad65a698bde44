\* Three tasks, so that one can hold the lock while two queue behind it in
\* both orders; three attempts as in the shipped client (MAX_RETRIES).  No
\* symmetry, since liveness is checked.
CONSTANTS
    t1 = t1
    t2 = t2
    t3 = t3
    Task <- Three
    MaxRetries = 3
    NoTask = NoTask
SPECIFICATION FairSpec
INVARIANTS
    LockInv
    RetryOnFreshSession
    HealthyCallsSucceed
PROPERTIES
    LossIsNotForgotten
    EveryCallReturns
    SerialSpec
    ContractSpec
