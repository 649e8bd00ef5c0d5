------------------------------ MODULE PointLog ------------------------------
(***************************************************************************)
(* The point log of a match and the serve and break figures derived from   *)
(* it (internal/modules/score/pointlog.go): pure functions.  A point is    *)
(* the side that scored it, the serving side (None without serve           *)
(* tracking), the displayed score before it (0 to 3, 4 is the advantage),  *)
(* and how the game was played.                                            *)
(***************************************************************************)
EXTENDS Naturals, Sequences, FiniteSets

CONSTANTS
    MaxPointLog, \* maxPointLog: the points that are kept, 500 in the code
    NoServer     \* an empty server

Side == {"A", "B"}

\* A missing server is neither side.
ASSUME PointLogAssumption == MaxPointLog \in Nat /\ NoServer \notin Side

Other(s) == IF s = "A" THEN "B" ELSE "A"

Point(side, server, a, b, tieBreak, advantage) ==
    [side |-> side, server |-> server, score |-> [s \in Side |-> IF s = "A" THEN a ELSE b],
     tieBreak |-> tieBreak, advantage |-> advantage]

\* capPointLog: points of neither side are dropped, then the first are kept.
CapPointLog(log) ==
    LET out[n \in 0 .. Len(log)] ==
            IF n = 0 THEN <<>>
            ELSE IF log[n].side \in Side /\ Len(out[n - 1]) < MaxPointLog
                 THEN Append(out[n - 1], log[n])
                 ELSE out[n - 1]
    IN  out[Len(log)]

\* isBreakPoint: at three all without advantage the next point decides.
IsBreakPoint(server, return, advantage) ==
    /\ return >= 3
    /\ return > server \/ (~advantage /\ server >= 3)

\* Broken variant of PointWinsGame: the point after an advantage is forgotten.
PointWinsAtForty(server, return, serverWon, advantage) ==
    LET winner == IF serverWon THEN server ELSE return
        loser == IF serverWon THEN return ELSE server
    IN  winner = 3 /\ (loser < 3 \/ (~advantage /\ loser = 3))

\* pointWinsGame
PointWinsGame(server, return, serverWon, advantage) ==
    LET winner == IF serverWon THEN server ELSE return
        loser == IF serverWon THEN return ELSE server
    IN  IF advantage
        THEN winner = 4 \/ (winner = 3 /\ loser < 3)
        ELSE winner >= 3 /\ (loser < 3 \/ loser = winner)

\* Summarize.  breakFaced[s] and breakWon[s] are the break points that s had on
\* the other side's serve, and those it won.
Summarize(log) ==
    LET Served(s) == {i \in DOMAIN log : log[i].server = s /\ ~log[i].tieBreak}
        Held(p) == p.side = p.server
        On(p, Test(_, _)) == Test(p.score[p.server], p.score[Other(p.server)])
        Breaks(s) == {i \in Served(Other(s)) :
                        On(log[i], LAMBDA x, y : IsBreakPoint(x, y, log[i].advantage))}
        Games(s) == {i \in Served(s) :
                        On(log[i], LAMBDA x, y : PointWinsGame(x, y, Held(log[i]), log[i].advantage))}
    IN  [points      |-> [s \in Side |-> Cardinality({i \in DOMAIN log : log[i].side = s})],
         hasServer   |-> Served("A") \cup Served("B") # {},
         servePlayed |-> [s \in Side |-> Cardinality(Games(s))],
         serveWon    |-> [s \in Side |-> Cardinality({i \in Games(s) : Held(log[i])})],
         breakFaced  |-> [s \in Side |-> Cardinality(Breaks(s))],
         breakWon    |-> [s \in Side |-> Cardinality({i \in Breaks(s) : ~Held(log[i])})]]

=============================================================================
