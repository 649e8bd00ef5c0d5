\* One purchase in either store, two accounts, two requests in flight.
SPECIFICATION Spec
CONSTANTS
    Account = {a1, a2}
    Purchase = {p1}
    Horizon = 2
    Changes = 2
    Unverified <- Sandbox
    Req = {r1, r2}
    None = None
SYMMETRY Alike
INVARIANTS OwnerIsLinker RowsAsReported ProAccounted
CHECK_DEADLOCK FALSE
