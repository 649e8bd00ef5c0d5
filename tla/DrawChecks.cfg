\* Fields of 2 to 12 participants on 1 to 4 courts, nights of three rounds, round
\* robins of up to four; matches of ten points of which nine are kept.
SPECIFICATION AllSpec
CONSTANTS
    MaxField = 12
    MaxCourts = 4
    MaxRound = 3
    MaxLeague = 4
    Scores <- FewScores
    None = None
    MaxPointLog = 9
    NoServer = NoServer
    MaxPoints = 10
    TieBreakTo = 7
INVARIANTS ElimSound RobinSound NightsFair KingSound PointsTold
CHECK_DEADLOCK FALSE
