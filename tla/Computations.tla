---------------------------- MODULE Computations ----------------------------
(***************************************************************************)
(* The pure computations of the service in one specification: the draws    *)
(* and standings of DrawChecks, or the point log that the app records      *)
(* while a match is scored.  The scoreboard of the app is external: it     *)
(* counts games by the rules of tennis and knows nothing of PointLog.      *)
(***************************************************************************)
EXTENDS DrawChecks, PointLog

CONSTANTS
    MaxPoints, \* bound: the points of a match
    TieBreakTo \* the points of a tie-break, seven in tennis

\* A match is something that was started.
ASSUME MatchAssumption == None # "MATCH"

VARIABLES
    log,  \* the points the app uploads, in order
    board \* what its scoreboard shows, and the games it has counted

allVars == <<drawVars, log, board>>

Nought == [s \in Side |-> 0]

\* A new game of the match
Game(server, tieBreak) == [server |-> server, tieBreak |-> tieBreak, raw |-> Nought]

\* The displayed score: after three all, only the lead counts.
Shown(g, s, advantage) ==
    LET x == g.raw[s]
        y == g.raw[Other(s)]
    IN  IF g.tieBreak \/ ~advantage \/ x < 3 \/ y < 3 THEN x ELSE IF x > y THEN 4 ELSE 3

\* A game ends at four points with a lead of two, or without advantage at four;
\* a tie-break at seven with a lead of two.
Over(g, s, advantage) ==
    LET x == g.raw[s]
        y == g.raw[Other(s)]
    IN  IF g.tieBreak THEN x >= TieBreakTo /\ x >= y + 2
        ELSE x >= 4 /\ (~advantage \/ x >= y + 2)

\* The smallest field stands for the match: a start with a scoring mode.
StartMatch(server, advantage, tieBreak) ==
    /\ made = None /\ Len(ordered) = 2 /\ courts = 1
    /\ made' = "MATCH"
    /\ board' = [game |-> Game(server, tieBreak), advantage |-> advantage,
                 kept |-> Nought, lost |-> Nought]
    /\ UNCHANGED <<ordered, courts, before, drawn, points, won, log>>

\* Side s scores: the point is logged with the score before it.
Score(s, nextTieBreak) ==
    LET g == board.game
        after == [g EXCEPT !.raw[s] = g.raw[s] + 1]
        over == Over(after, s, board.advantage)
        counted == over /\ ~g.tieBreak /\ g.server # NoServer
        server == IF g.server = NoServer THEN NoServer ELSE Other(g.server)
    IN  /\ made = "MATCH"
        /\ Len(log) < MaxPoints
        /\ nextTieBreak => over
        /\ log' = Append(log, Point(s, g.server, Shown(g, "A", board.advantage),
                                    Shown(g, "B", board.advantage), g.tieBreak, board.advantage))
        /\ board' = [board EXCEPT
                        !.game = IF over THEN Game(server, nextTieBreak) ELSE after,
                        !.kept[s] = IF counted /\ g.server = s THEN @ + 1 ELSE @,
                        !.lost[Other(s)] = IF counted /\ g.server # s THEN @ + 1 ELSE @]
        /\ UNCHANGED drawVars

AllInit == DrawInit /\ log = <<>> /\ board = None

AllNext ==
    \/ DrawNext /\ UNCHANGED <<log, board>>
    \/ \E server \in Side \cup {NoServer}, advantage, tieBreak \in BOOLEAN :
            StartMatch(server, advantage, tieBreak)
    \/ \E s \in Side, nextTieBreak \in BOOLEAN : Score(s, nextTieBreak)

AllSpec == AllInit /\ [][AllNext]_allVars

-----------------------------------------------------------------------------
Total(f) == f["A"] + f["B"]

\* The figures of a match detail tell what happened: the games that were served,
\* kept and broken are recovered from the points alone, through deuces,
\* advantages, golden points and tie-breaks; every break follows a break point
\* of the side that made it.  A log that was cut counts only what it kept.
PointsTold ==
    made = "MATCH" =>
        LET kept == CapPointLog(log)
            told == Summarize(kept)
        IN  /\ Total(told.points) = IF Len(log) < MaxPointLog THEN Len(log) ELSE MaxPointLog
            /\ \A s \in Side :
                /\ told.serveWon[s] <= board.kept[s]
                /\ told.breakWon[s] <= board.lost[Other(s)]
                /\ told.servePlayed[s] = told.serveWon[s] + told.breakWon[Other(s)]
                /\ told.breakWon[s] <= told.breakFaced[s]
            /\ Len(log) <= MaxPointLog =>
                \A s \in Side :
                    told.serveWon[s] = board.kept[s] /\ told.breakWon[s] = board.lost[Other(s)]

=============================================================================
