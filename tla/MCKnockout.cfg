\* Two requests in flight at a time, one of which may meet another on its match or die half way.
SPECIFICATION Spec
CONSTANTS
    p1 = p1
    p2 = p2
    p3 = p3
    p4 = p4
    Organizer = org
    None = None
    Req = {r1, r2}
    MaxUpsets = 1
    Fields <- FullOrBye
SYMMETRY Interchangeable
INVARIANTS BracketSound BracketAlive
PROPERTIES SeatsKept ImplementsBracket
CHECK_DEADLOCK FALSE
