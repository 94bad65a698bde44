\* A reader next to a task that may close the client at any await; one call is
\* cancelled, and sessions expire as often as they like.
SPECIFICATION Spec
CONSTANTS
    a = a
    b = b
    Task <- MCTask
    Calls <- MCCalls
    Pages <- MCPages
    Forms = 2
    Fields = 1
    Accepts = 2
    ExternalSession = FALSE
    Controllers <- Either
    MaxCancels = 1
    NoTask = NoTask
INVARIANTS
    Inv
    PathsNeedASession
    HealthyReadsSucceed
    WrongPinIsNamed
