\* The full map of each family; limits of one FLOAT, of seven words (cuts
\* within a run) and of the default; a poll ends: no deadlock check.
SPECIFICATION PollSpec
CONSTANTS
    Maps <- EachFamily
    Limits <- AnyLimits
    GivenUp <- MissingOnes
    Suspect <- SuspectOnes
INVARIANTS RequestsAreProper EveryRegisterDecoded MapAsDocumented
PROPERTY GroupsAreFull
CHECK_DEADLOCK FALSE
