\* Three client objects: the one in use and two that were dropped.
SPECIFICATION Spec
CONSTANTS
    Client = {c1, c2, c3}
    NoClient = NoClient
INVARIANTS
    TypeOK
    SessionsAreOwned
PROPERTIES
    LinkSpec
