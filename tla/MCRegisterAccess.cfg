\* A Navigator 2.0, a 10 and a 1.7 detected in any order on the link of a
\* Navigator 2.0; registers of the default number of rooms; whole numbers
\* around the limits and the ends of each type.
SPECIFICATION Spec
CONSTANTS
    Infos <- Families
    Device <- Nav20
    Rooms = 6
    Used <- Addresses
    Customs <- OwnRegisters
    Polled <- PolledAddresses
    Numbers <- Edges
    Stored <- SomeWords
    NoInfo = NoInfo
INVARIANTS
    WritesFitTheModel
    NothingRefused
    RoundTrip
    UnsupportedIsMissing
