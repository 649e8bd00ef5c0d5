\* Two courts and two rounds; one request may meet another one or die half way.
SPECIFICATION Spec
CONSTANTS
    Courts = 2
    LastRound = 2
    MaxUpsets = 1
    Req = {r1, r2}
    None = None
SYMMETRY Interchangeable
INVARIANTS RoundsInOrder NightAlive ChampionCounted
CHECK_DEADLOCK FALSE
