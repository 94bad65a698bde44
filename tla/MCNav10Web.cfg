\* Two tasks; one reconnect attempt; a read asks for two sections; one task
\* is cancelled at any await. Names of websockets are used again.
CONSTANTS
    a = a
    b = b
    s1 = s1
    s2 = s2
    s3 = s3
    Task <- MCTask
    Sock <- MCSock
    Calls <- MCCalls
    MaxReconnect = 1
    Sections = 2
    ExternalSession = FALSE
    MaxCancels = 1
    NoTask = NoTask
    NoSock = NoSock
SPECIFICATION FairSpec
INVARIANTS
    Inv
    AnswersBelong
    SaveSentOnce
    NothingLeftOpen
PROPERTIES
    EveryCallReturns
    SerialSpec
