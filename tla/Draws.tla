------------------------------- MODULE Draws -------------------------------
(***************************************************************************)
(* How a draw turns an ordered list of participants into fixtures          *)
(* (internal/modules/tournament/bracket.go and social.go): pure functions. *)
(* A fixture is keyed by its round (from 1) and its position (from 0).     *)
(***************************************************************************)
EXTENDS Sequences, Collections

CONSTANT None \* an empty slot

-----------------------------------------------------------------------------
(* Single elimination                                                      *)

\* nextPow2, as the number of rounds: the least k with 2^k >= n
Rounds(n) == CHOOSE k \in 0 .. n : 2 ^ k >= n /\ \A j \in 0 .. k - 1 : 2 ^ j < n

Size(n) == 2 ^ Rounds(n)

Nodes(n) == UNION {{<<r, p>> : p \in 0 .. (Size(n) \div 2 ^ r) - 1} : r \in 1 .. Rounds(n)}

\* The match the winner advances to, None after the final
NextOf(n, m) == IF m[1] < Rounds(n) THEN <<m[1] + 1, m[2] \div 2>> ELSE None

Node(a, b, winner, status) == [a |-> a, b |-> b, winner |-> winner, status |-> status]

\* Broken variant of Opening: as many matches of two as there are byes.
OpeningMiscounted(ordered, p) ==
    LET real == Size(Len(ordered)) - Len(ordered) IN
    IF p < real
    THEN Node(ordered[2 * p + 1], ordered[2 * p + 2], None, "READY")
    ELSE Node(ordered[real + p + 1], None, ordered[real + p + 1], "BYE")

\* Round 1: two-player matches first, then one BYE per missing participant.
Opening(ordered, p) ==
    LET real == Len(ordered) - Size(Len(ordered)) \div 2 IN
    IF p < real
    THEN Node(ordered[2 * p + 1], ordered[2 * p + 2], None, "READY")
    ELSE Node(ordered[real + p + 1], None, ordered[real + p + 1], "BYE")

\* Round 2: BYE winners are already there.
Second(ordered, p) ==
    LET a == Opening(ordered, 2 * p).winner
        b == Opening(ordered, 2 * p + 1).winner
    IN  Node(a, b, None, IF a # None /\ b # None THEN "READY" ELSE "PENDING")

BuildSingleElim(ordered) ==
    [m \in Nodes(Len(ordered)) |->
        CASE m[1] = 1 -> Opening(ordered, m[2])
          [] m[1] = 2 -> Second(ordered, m[2])
          [] OTHER    -> Node(None, None, None, "PENDING")]

-----------------------------------------------------------------------------
(* Round robin: the circle method                                          *)

\* Broken variant of Rotate: the whole circle turns, the first place included.
RotateAll(circle) == <<circle[Len(circle)]>> \o SubSeq(circle, 1, Len(circle) - 1)

\* The first place stays, the last one moves to second place.
Rotate(circle) ==
    <<circle[1], circle[Len(circle)]>> \o SubSeq(circle, 2, Len(circle) - 1)

\* An odd field gets a dummy.
Circle(ordered) == IF Len(ordered) % 2 = 1 THEN Append(ordered, None) ELSE ordered

BuildRoundRobin(ordered) ==
    LET size == Len(Circle(ordered))
        circle[r \in 1 .. size - 1] ==
            IF r = 1 THEN Circle(ordered) ELSE Rotate(circle[r - 1])
        Meeting(r, i) == [round |-> r, players |-> {circle[r][i], circle[r][size + 1 - i]}]
    IN  {x \in {Meeting(r, i) : r \in 1 .. size - 1, i \in 1 .. size \div 2} :
            None \notin x.players}

\* A played meeting.  The winner is reported beside the score, not taken from it.
Met(m, winner, games) == [players |-> m.players, winner |-> winner, games |-> games]

\* Broken variant of LeagueRow: the games lost are not taken off.
LeagueRowUp(results, x) ==
    LET own == {m \in results : x \in m.players}
        won == {m \in own : m.winner = x}
    IN  [participant |-> x, won |-> Cardinality(won), lost |-> Cardinality(own \ won),
         played |-> Cardinality(own), diff |-> SumOf([m \in own |-> m.games[x]], own)]

\* computeStandings, the row of x
LeagueRow(results, x) ==
    LET own == {m \in results : x \in m.players}
        won == {m \in own : m.winner = x}
        diff == [m \in own |-> m.games[x] - m.games[CHOOSE y \in m.players : y # x]]
    IN  [participant |-> x, won |-> Cardinality(won), lost |-> Cardinality(own \ won),
         played |-> Cardinality(own), diff |-> SumOf(diff, own)]

\* Wins, then the difference; the sort is stable.
ComputeStandings(players, results) ==
    LET row == [i \in DOMAIN players |-> LeagueRow(results, players[i])]
        Above(i, j) ==
            \/ row[i].won > row[j].won
            \/ row[i].won = row[j].won /\ row[i].diff > row[j].diff
            \/ row[i].won = row[j].won /\ row[i].diff = row[j].diff /\ i < j
        order == Listed(DOMAIN row, [j \in DOMAIN row |-> {i \in DOMAIN row : Above(i, j)}])
    IN  [i \in DOMAIN row |-> row[order[i]]]

-----------------------------------------------------------------------------
(* Social nights: courts of two against two                                *)

SocialRoundCount(n) == IF n < 4 THEN 0 ELSE IF n % 2 = 1 THEN n ELSE n - 1

\* usableCourts, for a requested number that is at least 1
UsableCourts(n, requested) ==
    LET most == n \div 4 IN
    IF most < 1 THEN 1 ELSE IF requested > most THEN most ELSE requested

Court(round, position, teams) == [round |-> round, position |-> position, teams |-> teams]

\* Broken variant of Window: every round starts at the head of the list.
WindowStill(players, r, i) == players[(i % Len(players)) + 1]

\* The player in seat i (from 0) of the window of round r (from 0)
Window(players, r, i) == players[((r + i) % Len(players)) + 1]

\* Four seats of a court: 0 and 1 play 2 and 3.
BuildAmericano(players, requested) ==
    LET n == Len(players)
        courts == UsableCourts(n, requested)
        Seat(r, c, k) == Window(players, r, 4 * c + k)
    IN  IF 4 * courts > n
        THEN {}
        ELSE {Court(r + 1, c, {{Seat(r, c, 0), Seat(r, c, 1)}, {Seat(r, c, 2), Seat(r, c, 3)}}) :
                r \in 0 .. SocialRoundCount(n) - 1, c \in 0 .. courts - 1}

\* Broken variant of PairCourt: the two strongest play together.
PairInOrder(four) == {{four[1], four[2]}, {four[3], four[4]}}

\* The first and the fourth of a court play the second and the third.
PairCourt(four) == {{four[1], four[4]}, {four[2], four[3]}}

\* Courts of four from the top of the ranking; the rest sit the round out.
BuildSocialRound(ranked, requested, round) ==
    LET courts == UsableCourts(Len(ranked), requested) IN
    {Court(round, c, PairCourt(SubSeq(ranked, 4 * c + 1, 4 * c + 4))) :
        c \in {k \in 0 .. courts - 1 : 4 * k + 4 <= Len(ranked)}}

-----------------------------------------------------------------------------
(* Standings of a night, and king of the court.  A played court is its      *)
(* position and the points of its two teams.                                *)

PlayedCourt(position, points) == [position |-> position, points |-> points]

Tied(m) == \A s, t \in DOMAIN m.points : m.points[s] = m.points[t]

Wins(m, team) == ~Tied(m) /\ \A s \in DOMAIN m.points : m.points[s] <= m.points[team]

TeamOf(m, x) == CHOOSE t \in DOMAIN m.points : x \in t

On(m) == UNION DOMAIN m.points

\* Points first, then rounds won, then the name: a participant is its name here.
RanksBefore(points, won, x, y) ==
    \/ points[x] > points[y]
    \/ points[x] = points[y] /\ won[x] > won[y]
    \/ points[x] = points[y] /\ won[x] = won[y] /\ x < y

PointStandings(players, points, won) ==
    LET P == {players[i] : i \in DOMAIN players} IN
    Listed(P, [x \in P |-> {y \in P : RanksBefore(points, won, y, x)}])

\* The courts of a round are renumbered: one that was dropped leaves no gap.
PlaceOf(round, m) == Cardinality({k \in round : k.position < m.position})

\* Broken variant of GoesTo: the losers of the last court go one further down.
GoesTooFar(round, m, x) ==
    LET i == PlaceOf(round, m) IN
    IF Tied(m) THEN i ELSE IF Wins(m, TeamOf(m, x)) THEN IF i > 0 THEN i - 1 ELSE i ELSE i + 1

\* Winners move up a court and losers down; a tied court stays.
GoesTo(round, m, x) ==
    LET i == PlaceOf(round, m) IN
    CASE Tied(m)              -> i
      [] Wins(m, TeamOf(m, x)) -> IF i > 0 THEN i - 1 ELSE i
      [] OTHER                -> IF i < Cardinality(round) - 1 THEN i + 1 ELSE i

Arrive(round, c) == UNION {{x \in On(m) : GoesTo(round, m, x) = c} : m \in round}

\* Those of S, in the order of ranked
Among(ranked, S) ==
    LET at == {i \in DOMAIN ranked : ranked[i] \in S}
        order == Listed(at, [i \in at |-> {j \in at : j < i}])
    IN  [k \in DOMAIN order |-> ranked[order[k]]]

\* As many sitters as fit replace the lowest-ranked of the bottom court.
RotateSitters(bottom, sitting, ranked) ==
    LET swaps == IF Len(sitting) < Cardinality(bottom) THEN Len(sitting) ELSE Cardinality(bottom)
        order == Among(ranked, bottom)
    IN  {order[i] : i \in 1 .. Len(order) - swaps} \cup {sitting[i] : i \in 1 .. swaps}

\* The next round after the courts in round: a court with less than four is
\* dropped, one with more keeps its four highest-ranked.
BuildKingRound(round, ranked, requested, number) ==
    LET bottom == Cardinality(round) - 1
        sitting == Among(ranked, {ranked[i] : i \in DOMAIN ranked} \ UNION {On(m) : m \in round})
        next == [c \in 0 .. bottom |->
                    IF c = bottom THEN RotateSitters(Arrive(round, c), sitting, ranked)
                                  ELSE Arrive(round, c)]
        used == {c \in 0 .. bottom : Cardinality(next[c]) >= 4}
        kept == {c \in used : Cardinality({k \in used : k < c}) < requested}
    IN  {Court(number, c, PairCourt(SubSeq(Among(ranked, next[c]), 1, 4))) : c \in kept}

=============================================================================
