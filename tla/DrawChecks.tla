----------------------------- MODULE DrawChecks -----------------------------
(***************************************************************************)
(* The draws of module Draws, made for every size of field and number of   *)
(* courts up to a bound; nights of Mexicano and king of the court played   *)
(* from them round by round, and small round robins played match by match. *)
(* The properties are stated of what was drawn and played: they do not     *)
(* follow the code's way to build it.                                      *)
(***************************************************************************)
EXTENDS Draws

CONSTANTS
    MaxField,  \* bound: the largest field drawn
    MaxCourts, \* court_count is 1..8
    MaxRound,  \* bound: the last round of a night that is drawn
    MaxLeague, \* bound: the largest round robin that is played
    Scores     \* bound: the points of two teams, as <<a, b>>

Night == {"MEXICANO", "KING_OF_THE_COURT"}

Format == {"SINGLE_ELIM", "ROUND_ROBIN", "AMERICANO"} \cup Night

\* court_count is at least 1 and points are not negative (social.go:251); an
\* empty slot is neither a participant, a match nor a format.
ASSUME DrawsAssumption ==
    /\ MaxField \in Nat
    /\ MaxCourts \in Nat
    /\ Scores \subseteq Nat \X Nat
    /\ None \notin Nat
    /\ None \notin Nat \X Nat
    /\ None \notin Format

VARIABLES
    ordered, \* the participants in the order of the draw
    courts,  \* court_count
    made,    \* the format that was drawn, None before
    before,  \* the courts of a night's last finished round, as played; the
             \* results of a round robin so far
    drawn,   \* the courts of the round in play; the meetings of a round robin
    points,  \* what each participant scored on the night
    won      \* the rounds each participant won

drawVars == <<ordered, courts, made, before, drawn, points, won>>

Players == {ordered[i] : i \in 1 .. Len(ordered)}

\* Participants are interchangeable to a draw, and compared by name in standings.
DrawInit ==
    /\ \E n \in 2 .. MaxField : ordered = [i \in 1 .. n |-> i]
    /\ courts \in 1 .. MaxCourts
    /\ made = None
    /\ before = {}
    /\ drawn = {}
    /\ points = [x \in Players |-> 0]
    /\ won = [x \in Players |-> 0]

\* Lock and Draw: social formats need four participants.
Draw(f) ==
    /\ made = None
    /\ f \in Night \cup {"AMERICANO"} => Len(ordered) >= 4
    /\ made' = f
    /\ drawn' = CASE f \in Night        -> BuildSocialRound(ordered, courts, 1)
                  [] f = "ROUND_ROBIN" -> BuildRoundRobin(ordered)
                  [] OTHER             -> {}
    /\ UNCHANGED <<ordered, courts, before, points, won>>

\* Every court's teams with points from Scores
Results(round) ==
    LET Of(m) == {PlayedCourt(m.position, f) :
                    f \in {g \in [m.teams -> UNION {{s[1], s[2]} : s \in Scores}] :
                            \E t, u \in m.teams, s \in Scores :
                                t # u /\ g[t] = s[1] /\ g[u] = s[2]}}
    IN  {{h[m] : m \in round} :
            h \in {g \in [round -> UNION {Of(m) : m \in round}] : \A m \in round : g[m] \in Of(m)}}

OnCourt(round, x) == CHOOSE m \in round : x \in On(m)

\* The last result of a round: standings, and the next round from them.
PlayRound(round) ==
    LET PlaysIn == UNION {On(m) : m \in round}
        number == 1 + (CHOOSE m \in drawn : TRUE).round
        Gain(x) == IF x \in PlaysIn THEN OnCourt(round, x).points[TeamOf(OnCourt(round, x), x)] ELSE 0
        Win(x) == IF x \in PlaysIn /\ Wins(OnCourt(round, x), TeamOf(OnCourt(round, x), x)) THEN 1 ELSE 0
        ranked == PointStandings(ordered, points', won')
    IN  /\ number <= MaxRound
        /\ number <= SocialRoundCount(Len(ordered))
        /\ points' = [x \in Players |-> points[x] + Gain(x)]
        /\ won' = [x \in Players |-> won[x] + Win(x)]
        /\ before' = round
        /\ drawn' = IF made = "MEXICANO"
                    THEN BuildSocialRound(ranked, courts, number)
                    ELSE BuildKingRound(round, ranked, courts, number)
        /\ UNCHANGED <<ordered, courts, made>>

\* A result of a round robin: matches are played in any order.
PlayMeeting(m, x, s) ==
    /\ made = "ROUND_ROBIN"
    /\ Len(ordered) <= MaxLeague /\ courts = 1
    /\ \A k \in before : k.players # m.players
    /\ before' = before \cup {Met(m, x, [y \in m.players |-> IF y = x THEN s[1] ELSE s[2]])}
    /\ UNCHANGED <<ordered, courts, made, drawn, points, won>>

DrawNext ==
    \/ \E f \in Format : Draw(f)
    \/ made = "ROUND_ROBIN" /\ \E m \in drawn, s \in Scores : \E x \in m.players : PlayMeeting(m, x, s)
    \/ made \in Night /\ drawn # {} /\ \E round \in Results(drawn) : PlayRound(round)

DrawSpec == DrawInit /\ [][DrawNext]_drawVars

-----------------------------------------------------------------------------
(* Single elimination                                                      *)

\* The bracket of a knockout: every participant starts in exactly one match of
\* the first round; no match of two empty slots ever waits for players that do
\* not exist; a bye is never lost: whoever has one sits in the next match, unless
\* that is his own final; n - 1 matches of two players decide the bracket; and
\* following the links from any match ends in the one final.
ElimSound ==
    made = "SINGLE_ELIM" =>
        LET n == Len(ordered)
            plan == BuildSingleElim(ordered)
            SlotsOf(m) == {plan[m].a, plan[m].b} \ {None}
            Played == {m \in DOMAIN plan : plan[m].status # "BYE"}
            Feeders(m) == {k \in Nodes(n) : NextOf(n, k) = m}
        IN  /\ \A x \in Players :
                Cardinality({m \in DOMAIN plan : m[1] = 1 /\ x \in SlotsOf(m)}) = 1
            /\ \A m \in DOMAIN plan : m[1] = 1 => SlotsOf(m) # {}
            /\ \A m \in DOMAIN plan :
                plan[m].status = "BYE" => plan[m].winner \in SlotsOf(NextOf(n, m))
            /\ \A m \in Played : plan[m].status = "READY" <=> Cardinality(SlotsOf(m)) = 2
            /\ Cardinality(Played) = n - 1
            /\ \A m \in Nodes(n) : NextOf(n, m) \in Nodes(n) \cup {None}
            /\ \A m \in Nodes(n) : Cardinality(Feeders(m)) = IF m[1] = 1 THEN 0 ELSE 2
            /\ Cardinality({m \in Nodes(n) : NextOf(n, m) = None}) = 1

-----------------------------------------------------------------------------
(* Round robin and social nights                                           *)

\* The meetings of a round robin: any two participants meet exactly once, and
\* nobody plays twice in a round.
RobinComplete ==
    /\ \A x, y \in Players :
        x # y => Cardinality({m \in drawn : m.players = {x, y}}) = 1
    /\ \A m, k \in drawn : m # k /\ m.round = k.round => m.players \cap k.players = {}

\* A round robin is complete, and its table, after the results of any matches, is
\* fair: every game won by one is lost by another; who has won all his matches is
\* first, and after the last match the champion has won at least half of his.
RobinSound ==
    made = "ROUND_ROBIN" =>
        LET n == Len(ordered)
            table == ComputeStandings(ordered, before)
            Sum(column) == SumOf([i \in 1 .. n |-> table[i][column]], 1 .. n)
        IN  /\ RobinComplete
            /\ {table[i].participant : i \in 1 .. n} = Players
            /\ Sum("won") = Cardinality(before)
            /\ Sum("lost") = Cardinality(before)
            /\ Sum("diff") = 0
            /\ \A i \in 1 .. n : table[i].won = n - 1 => i = 1
            /\ before # {} => table[1].won > 0
            /\ Cardinality(before) = Cardinality(drawn) => 2 * table[1].won >= n - 1

Seated(plan) == UNION UNION {m.teams : m \in plan}

Disjoint(plan) == \A m, k \in plan : m # k => (UNION m.teams) \cap (UNION k.teams) = {}

\* An Americano night: nobody plays twice in a round or with the partner of the
\* round before, all usable courts are in use, and two players' numbers of rounds
\* differ by one at most.
AmericanoFair ==
    made = "AMERICANO" =>
        LET plan == BuildAmericano(ordered, courts)
            rounds == 1 .. SocialRoundCount(Len(ordered))
            Of(r) == {m \in plan : m.round = r}
            Teams(r) == UNION {m.teams : m \in Of(r)}
            Turns(x) == Cardinality({r \in rounds : x \in Seated(Of(r))})
        IN  /\ \A r \in rounds :
                /\ Disjoint(Of(r))
                /\ Teams(r) \cap Teams(r + 1) = {}
                /\ Cardinality(Seated(Of(r))) = 4 * UsableCourts(Len(ordered), courts)
            /\ \A x, y \in Players : Turns(x) <= Turns(y) + 1

\* A Mexicano night: a round fills all usable courts with the strongest, each
\* court with neighbours in the standings, and the two teams of a court add up
\* to the same rank.
MexicanoBalanced ==
    made = "MEXICANO" =>
        LET ranked == PointStandings(ordered, points, won)
            Rank(x) == CHOOSE i \in DOMAIN ranked : ranked[i] = x
            Ranks(t) == {Rank(x) : x \in t}
        IN  /\ Ranks(Seated(drawn)) = 1 .. 4 * UsableCourts(Len(ordered), courts)
            /\ Disjoint(drawn)
            /\ \A m \in drawn :
                /\ Cardinality(UNION m.teams) = 4
                /\ \A x, y \in UNION m.teams : Rank(x) <= Rank(y) + 3
                /\ \A s, t \in m.teams : SumSet(Ranks(s)) = SumSet(Ranks(t))

\* A night is fair to its players: the Americano in who plays how often with whom,
\* the Mexicano in how strong the two teams of a court are.
NightsFair == AmericanoFair /\ MexicanoBalanced

Decisive == \A m \in before : ~Tied(m)

\* A king of the court night always goes on with courts of four on which nobody
\* sits twice, and it loses a court only to a tie.  Without a tie, nobody sits out
\* two rounds in a row as long as those who sit fit on one court.
KingSound ==
    made = "KING_OF_THE_COURT" =>
        LET sat == Players \ UNION {On(m) : m \in before} IN
        /\ drawn # {}
        /\ Disjoint(drawn)
        /\ \A m \in drawn : Cardinality(UNION m.teams) = 4
        /\ before # {} /\ Decisive =>
            /\ Cardinality(drawn) = Cardinality(before)
            /\ Cardinality(sat) <= 4 => sat \subseteq Seated(drawn)

=============================================================================
