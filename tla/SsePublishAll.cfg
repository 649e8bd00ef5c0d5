\* Three connections of one user and one Publish.
SPECIFICATION HubSpec
CONSTANTS
    Conn = {c1, c2, c3}
    Pub = {p1}
    Arrays = 3
    Cells = 4
    Buffer = 1
    NoConn = NoConn
INVARIANTS PublishReachesAll
SYMMETRY Interchangeable
CHECK_DEADLOCK FALSE
