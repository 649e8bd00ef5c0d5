\* Three connections of one user and one Publish.
SPECIFICATION HubFairSpec
CONSTANTS
    Conn = {c1, c2, c3}
    Pub = {p1}
    Arrays = 3
    Cells = 4
    Buffer = 1
    NoConn = NoConn
INVARIANTS RegistrySound QuietPublishExact
PROPERTIES PublishEnds HungIsForgotten
CHECK_DEADLOCK FALSE
