\* Five kinds of matches of three players, three rows, two uploads at a time.
SPECIFICATION Spec
CONSTANTS
    Account = {1, 2, 3}
    Pro = {2}
    Sport = {"TENNIS", "PADEL"}
    Card <- Played
    MaxMatch = 3
    FreeLimit = 1
    FormLimit = 2
    RivalsLimit = 1
    Req = {r1, r2}
    None = None
SYMMETRY Alike
INVARIANTS RatedExactly SomebodyGoesOn QuotaBounded ViewsAgree
CHECK_DEADLOCK FALSE
