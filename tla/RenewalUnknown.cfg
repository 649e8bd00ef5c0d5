\* A purchase is linked, renewed, and its renewal reported.
SPECIFICATION Spec
CONSTANTS
    Account = {a1, a2}
    Purchase = {p1}
    Horizon = 2
    Changes = 2
    Unverified <- Sandbox
    Req = {r1, r2}
    None = None
SYMMETRY Alike
INVARIANTS LinkedIsKnown
CHECK_DEADLOCK FALSE
