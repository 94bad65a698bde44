\* One poller, one poll at a time; the threshold of the code.
CONSTANTS
    coordinator = coordinator
    diagnostics = diagnostics
    Poller <- OnePoller
    Register <- Block
    Lists <- Polled
    Faulty <- Failing
    Unimplemented <- Missing
    Threshold = 3
SPECIFICATION Spec
INVARIANT GivenUpAfterStreak
