\* Two polls at a time over one group of three registers; a register is
\* given up after its second device error.
CONSTANTS
    coordinator = coordinator
    diagnostics = diagnostics
    Poller <- TwoPollers
    Register <- Block
    Lists <- Polled
    Faulty <- Failing
    Unimplemented <- Missing
    Threshold = 2
SYMMETRY PollerSymmetry
SPECIFICATION Spec
INVARIANTS
    TypeOK
    GivenUpForCause
    EveryRegisterAccounted
    QuarantineKept
    UnimplementedIsLearned
