\* One session and every kind of request on it.
SPECIFICATION Spec
CONSTANTS
    c = c
    i1 = i1
    i2 = i2
    User = {c, i1, i2}
    Scorer = {c}
    Live = {l1}
    Hist = {h1, h2}
    Token = {t1}
    Score = {s0, s1}
    NoScore = s0
    Lineup <- Lineups
    Req = {r1, r2}
    None = None
SYMMETRY Slots
INVARIANTS LinkSound DeclineUnanimous HistoryAccounted
PROPERTIES OpponentEndsOnlyPlay ImplementsSession
