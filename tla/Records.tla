------------------------------- MODULE Records -------------------------------
(***************************************************************************)
(* What the program reads off the table of finished matches: statistics    *)
(* and head-to-head of internal/modules/score, and the ladder of a group   *)
(* of internal/modules/social.  Pure functions.                            *)
(*                                                                         *)
(* A match has two registered players or guests (None) on either side, a2  *)
(* and b2 in doubles, the sets of both sides and the winning side.  A      *)
(* table maps numbers to matches, the larger played later, or to None.     *)
(* Accounts are numbers, compared as the program compares their ids.       *)
(***************************************************************************)
EXTENDS Sequences, Collections

CONSTANTS
    Sport,       \* the sports
    FormLimit,   \* results in a form: 5 in the code
    RivalsLimit, \* rivals in the statistics: 5 in the code
    None         \* a guest, no match, no filter

SideA(m) == {m.a, m.a2} \ {None}

SideB(m) == {m.b, m.b2} \ {None}

Players(m) == SideA(m) \cup SideB(m)

\* sideOf: "" is None
SideOf(m, u) == IF u \in SideA(m) THEN "A" ELSE IF u \in SideB(m) THEN "B" ELSE None

\* participantOutcome
Outcome(m, u) == IF m.winner = SideOf(m, u) THEN "W" ELSE "L"

\* Broken variant of OpponentsOf: everybody else on the court.
OpponentsAndPartner(m, u) == Players(m) \ {u}

\* opponentsOf
OpponentsOf(m, u) == IF SideOf(m, u) = "A" THEN SideB(m) ELSE SideA(m)

\* setsForAgainst, as the difference
SetsDiff(m, u) == IF SideOf(m, u) = "A" THEN m.setsA - m.setsB ELSE m.setsB - m.setsA

Finished(table) == {i \in DOMAIN table : table[i] # None}

InSport(table, S, sport) == {i \in S : sport = None \/ table[i].sport = sport}

\* countFinishedMatches: partners do not count
CountFinished(table, u) ==
    Cardinality({i \in Finished(table) : u \in {table[i].by, table[i].a, table[i].b}})

\* listParticipantMatches
ListParticipant(table, u) == {i \in Finished(table) : u \in Players(table[i])}

\* listH2HMatches: on opposite sides
ListH2H(table, u, v) ==
    {i \in Finished(table) : \/ u \in SideA(table[i]) /\ v \in SideB(table[i])
                             \/ v \in SideA(table[i]) /\ u \in SideB(table[i])}

Won(table, S, u) == {i \in S : Outcome(table[i], u) = "W"}

Least(x, y) == IF x < y THEN x ELSE y

\* The newest results first
Form(table, S, u) ==
    LET order == Listed(S, [i \in S |-> {j \in S : j > i}]) IN
    [k \in 1 .. Least(Len(order), FormLimit) |-> Outcome(table[order[k]], u)]

Summary(table, S, u) ==
    [matches |-> Cardinality(S),
     wins    |-> Cardinality(Won(table, S, u)),
     losses  |-> Cardinality(S \ Won(table, S, u)),
     setDiff |-> SumOf([i \in S |-> SetsDiff(table[i], u)], S),
     form    |-> Form(table, S, u)]

\* aggregateHeadToHead
HeadToHead(table, viewer, opponent, sport) ==
    Summary(table, InSport(table, ListH2H(table, viewer, opponent), sport), viewer)

Rival(table, S, u, v) ==
    LET T == {i \in S : v \in OpponentsOf(table[i], u)} IN
    [user |-> v, matches |-> Cardinality(T), wins |-> Cardinality(Won(table, T, u)),
     losses |-> Cardinality(T \ Won(table, T, u))]

RivalBefore(r, s) ==
    \/ r.matches > s.matches
    \/ r.matches = s.matches /\ r.wins > s.wins
    \/ r.matches = s.matches /\ r.wins = s.wins /\ r.user < s.user

\* Matches desc, wins desc, then the id
Rivals(table, S, u) ==
    LET all == {Rival(table, S, u, v) : v \in UNION {OpponentsOf(table[i], u) : i \in S}}
        order == Listed(all, [r \in all |-> {s \in all : RivalBefore(s, r)}])
    IN  [k \in 1 .. Least(Len(order), RivalsLimit) |-> order[k]]

\* aggregateUserStats: the filter is for the totals, form and rivals, not for the
\* lines by sport.
UserStats(table, u, sport) ==
    LET all == ListParticipant(table, u)
        S == InSport(table, all, sport)
    IN  [totals  |-> Summary(table, S, u),
         rivals  |-> Rivals(table, S, u),
         bySport |-> [s \in {table[i].sport : i \in all} |->
                        Summary(table, InSport(table, all, s), u)]]

\* A match counts for the ladder if each side has a registered player and all of
\* them are members.
Counts(m, members) == SideA(m) # {} /\ SideB(m) # {} /\ Players(m) \subseteq members

StandingLess(r, s) ==
    \/ r.wins > s.wins
    \/ r.wins = s.wins /\ r.setDiff > s.setDiff
    \/ r.wins = s.wins /\ r.setDiff = s.setDiff /\ r.user < s.user

\* buildStandings with applySide, of the matches of a week
Ladder(table, members, sport) ==
    LET S == {i \in InSport(table, Finished(table), sport) : Counts(table[i], members)}
        Row(u) == LET T == {i \in S : u \in Players(table[i])} IN
                  [user |-> u, matches |-> Cardinality(T),
                   wins |-> Cardinality(Won(table, T, u)),
                   losses |-> Cardinality(T \ Won(table, T, u)),
                   setDiff |-> SumOf([i \in T |-> SetsDiff(table[i], u)], T)]
        rows == {Row(u) : u \in members}
    IN  Listed(rows, [r \in rows |-> {q \in rows : StandingLess(q, r)}])

-----------------------------------------------------------------------------
(* How the views must agree.  Each takes the table and the accounts.        *)

Mirrored(x) == IF x = "W" THEN "L" ELSE "W"

\* Two players see the same matches between them from either side, and the
\* statistics of each list the other with the same balance.
H2HAgrees(table, U) ==
    \A u, v \in U, s \in Sport \cup {None} : u # v =>
        LET mine == HeadToHead(table, u, v, s)
            theirs == HeadToHead(table, v, u, s)
        IN  /\ mine.wins = theirs.losses /\ mine.losses = theirs.wins
            /\ mine.setDiff = -theirs.setDiff
            /\ mine.form = [k \in DOMAIN theirs.form |-> Mirrored(theirs.form[k])]
            /\ \A k \in DOMAIN UserStats(table, u, s).rivals :
                  LET r == UserStats(table, u, s).rivals[k] IN
                  r.user = v => r.matches = mine.matches /\ r.wins = mine.wins

\* The lines by sport add up to the totals, whatever the filter.
SportsAddUp(table, U) ==
    \A u \in U :
        LET all == UserStats(table, u, None)
            lines == DOMAIN all.bySport
        IN  /\ \A field \in {"matches", "wins", "setDiff"} :
                  all.totals[field] = SumOf([s \in lines |-> all.bySport[s][field]], lines)
            /\ \A s \in DOMAIN all.bySport : UserStats(table, u, s).totals = all.bySport[s]

\* In a ladder of all accounts everybody has the matches that they played against
\* a registered opponent, and a group that somebody leaves loses their matches only.
LadderAgrees(table, U) ==
    \A s \in Sport :
        LET ladder == Ladder(table, U, s)
            Against(u) == UNION {ListH2H(table, u, v) : v \in U}
        IN  /\ \A k \in DOMAIN ladder :
                  LET S == InSport(table, Against(ladder[k].user), s) IN
                  /\ ladder[k].matches = Cardinality(S)
                  /\ ladder[k].wins = Cardinality(Won(table, S, ladder[k].user))
            /\ \A v \in U : \A k \in DOMAIN Ladder(table, U \ {v}, s) :
                  LET row == Ladder(table, U \ {v}, s)[k]
                      S == InSport(table, Against(row.user), s)
                  IN  row.matches = Cardinality({i \in S : v \notin Players(table[i])})

=============================================================================
