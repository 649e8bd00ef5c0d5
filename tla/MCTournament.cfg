\* Three accounts and a tournament for two; the organizer waits for each answer.
SPECIFICATION Spec
CONSTANTS
    User = {u1, u2, u3}
    Seat = {s1, s2, s3, s4}
    Max = 2
    Need = 2
    Draws = 2
    Desk = {d1}
    Req = {r1, r2}
    None = None
SYMMETRY Interchangeable
INVARIANTS RosterBounded FieldKept DeletedIsGone
PROPERTIES StatusFlows HistoryKept
CHECK_DEADLOCK FALSE
