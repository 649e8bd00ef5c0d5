---------------------------- MODULE SocialNight -----------------------------
(***************************************************************************)
(* Results of a drawn ROUND_ROBIN, AMERICANO, MEXICANO or                  *)
(* KING_OF_THE_COURT: SubmitResult, ConfirmResult, advance and             *)
(* advanceSocial of internal/modules/tournament, from the draw to the      *)
(* champion.                                                               *)
(*                                                                         *)
(* The formats differ in what follows a completed match.  A round robin    *)
(* counts what remains and then reads the matches for the standings.  A    *)
(* social night reads the matches first; from that one reading it decides  *)
(* whether the round is settled, plans the next round, and, after counting *)
(* what remains, names the champion.  The next round is inserted match by  *)
(* match, outside a transaction.                                           *)
(*                                                                         *)
(* Who plays with whom is in Draws; who may report and confirm is in       *)
(* Knockout.  A court is its position here, and a result is decided or     *)
(* tied, which is what the size of the next king of the court round        *)
(* depends on.                                                             *)
(***************************************************************************)
EXTENDS Naturals, FiniteSets, Sequences

CONSTANTS
    Courts,    \* matches of a full round
    LastRound, \* bound: the number of rounds; socialRoundCount says n or n - 1
    Req,       \* bound: requests in flight at a time
    MaxUpsets, \* bound: requests that meet another one, and that die, together
    None

\* A night has at least one court, and a field has a round to play.
ASSUME NightAssumption ==
    /\ Courts \in Nat \ {0}
    /\ LastRound \in Nat \ {0}
    /\ None \notin {"decided", "tied"}

VARIABLES
    format,  \* tournaments.format
    fixture, \* tournament_matches, by round and position
    status,  \* tournaments.status
    counted, \* the results champion_id was computed from, None before
    req,     \* the requests in flight
    upsets,  \* how many met or died
    calm     \* history: no request met another one, or died between
             \* completing a match and the end of advance

rows == <<format, fixture, status, counted>>
vars == <<format, fixture, status, counted, req, upsets, calm>>

Drawn == {"MEXICANO", "KING_OF_THE_COURT"} \* a round at a time
Social == Drawn \cup {"AMERICANO"}
Match == (1 .. LastRound) \X (0 .. Courts - 1)
Results == IF format \in Social THEN {"decided", "tied"} ELSE {"decided"}

Rows == DOMAIN fixture
InRound(round) == {m \in Rows : m[1] = round}

\* The results of the completed matches
ResultsNow ==
    [m \in {k \in Rows : fixture[k].status = "COMPLETED"} |-> fixture[m].result]

\* Broken variant of Standing: only the finished round counts.
StandingOfRound(round) ==
    [m \in {k \in InRound(round) : fixture[k].status = "COMPLETED"} |-> fixture[m].result]

\* The results a champion is computed from after a match of the round
Standing(round) == ResultsNow

-----------------------------------------------------------------------------
(* Rows                                                                    *)

Ready == [status |-> "READY", result |-> None]

\* reportMatch
Reported(x, res) == [x EXCEPT !.status = "PENDING_CONFIRMATION", !.result = res]

\* clearReport
Cleared(x) == Ready

\* completeMatch
Completed(x, res) == [x EXCEPT !.status = "COMPLETED", !.result = res]

Write(m, x) == fixture' = [fixture EXCEPT ![m] = x]

\* Broken variant of RoundSettled: one completed match settles its round.
SettledByOne(round) == \E m \in InRound(round) : fixture[m].status = "COMPLETED"

\* Broken variant of RoundSettled: a round has a match for every court.
SettledFull(round) ==
    /\ Cardinality(InRound(round)) = Courts
    /\ \A m \in InRound(round) : fixture[m].status = "COMPLETED"

\* Every match of the round that exists is completed.
RoundSettled(round) ==
    /\ InRound(round) # {}
    /\ \A m \in InRound(round) : fixture[m].status = "COMPLETED"

\* remainingMatches
Remaining == {m \in Rows : fixture[m].status \notin {"COMPLETED", "BYE"}}

-----------------------------------------------------------------------------
(* The next round                                                          *)

\* buildKingRound: how many players court c of the finished round's courts
\* gets.  Winners move up and losers down, unless the court was tied.
Arrivals(tied, c) ==
    LET last == Cardinality(DOMAIN tied) - 1
        Stay == IF tied[c] THEN 4 ELSE (IF c = 0 THEN 2 ELSE 0) + (IF c = last THEN 2 ELSE 0)
        Up == IF c < last /\ ~tied[c + 1] THEN 2 ELSE 0
        Down == IF c > 0 /\ ~tied[c - 1] THEN 2 ELSE 0
    IN  Stay + Up + Down

\* The courts of a round in order, and whether they were tied
TiedCourts(round) ==
    LET Before(m) == Cardinality({k \in InRound(round) : k[2] < m[2]})
        At(i) == CHOOSE m \in InRound(round) : Before(m) = i
    IN  [i \in 0 .. Cardinality(InRound(round)) - 1 |-> fixture[At(i)].result = "tied"]

\* The positions of the next round: all courts, or those that got four players.
NextCourts(round) ==
    IF format = "MEXICANO"
    THEN 0 .. Courts - 1
    ELSE LET tied == TiedCourts(round) IN {c \in DOMAIN tied : Arrivals(tied, c) >= 4}

InOrder(S) == [i \in 1 .. Cardinality(S) |-> CHOOSE c \in S : Cardinality({k \in S : k < c}) = i - 1]

\* A next round is due, and none of it is there yet.
Appends(round) == format \in Drawn /\ round < LastRound /\ InRound(round + 1) = {}

-----------------------------------------------------------------------------
(* Requests                                                                *)

Idle == [pc |-> "idle", match |-> None, result |-> None, todo |-> <<>>, seen |-> None]

Asked(pc, m, res) == [pc |-> pc, match |-> m, result |-> res, todo |-> <<>>, seen |-> None]

\* A request that would meet one on m: on the same match, or, but for a round
\* robin, on a match of another round.
Meets(m) ==
    \E q \in Req :
        /\ req[q] # Idle
        /\ req[q].match = m \/ (format \in Social /\ req[q].match[1] # m[1])

\* A request on m starts at pc with what it read.
Begin(r, pc, m, res) ==
    /\ req[r] = Idle
    /\ req' = [req EXCEPT ![r] = Asked(pc, m, res)]
    /\ IF Meets(m)
       THEN upsets < MaxUpsets /\ upsets' = upsets + 1 /\ calm' = FALSE
       ELSE UNCHANGED <<upsets, calm>>
    /\ UNCHANGED rows

Go(r, pc) == req' = [req EXCEPT ![r].pc = pc]
Finish(r) == req' = [req EXCEPT ![r] = Idle]

\* SubmitResult: the organizer completes the match, a player reports it.
Submit(r, m, res, pc) ==
    /\ status = "ONGOING"
    /\ fixture[m].status = "READY"
    /\ pc \in {"complete", "report"}
    /\ Begin(r, pc, m, res)

\* ConfirmResult: approved or rejected.  The tournament is not asked.
Confirm(r, m, pc) ==
    /\ fixture[m].status = "PENDING_CONFIRMATION"
    /\ pc \in {"reread", "clear"}
    /\ Begin(r, pc, m, None)

ReportMatch(r) ==
    LET q == req[r] IN
    /\ q.pc = "report"
    /\ Write(q.match, Reported(fixture[q.match], q.result))
    /\ Finish(r)
    /\ UNCHANGED <<format, status, counted, upsets, calm>>

ClearReport(r) ==
    LET q == req[r] IN
    /\ q.pc = "clear"
    /\ Write(q.match, Cleared(fixture[q.match]))
    /\ Finish(r)
    /\ UNCHANGED <<format, status, counted, upsets, calm>>

\* getMatch: an approval takes the score the row has by now.
Reread(r) ==
    LET q == req[r] IN
    /\ q.pc = "reread"
    /\ fixture[q.match].result # None
    /\ req' = [req EXCEPT ![r].pc = "complete", ![r].result = fixture[q.match].result]
    /\ UNCHANGED <<rows, upsets, calm>>

\* No winner, or no score to derive it from
RereadRefused(r) ==
    /\ req[r].pc = "reread"
    /\ fixture[req[r].match].result = None
    /\ Finish(r)
    /\ UNCHANGED <<rows, upsets, calm>>

CompleteMatch(r) ==
    LET q == req[r] IN
    /\ q.pc = "complete"
    /\ Write(q.match, Completed(fixture[q.match], q.result))
    /\ Go(r, IF format \in Social THEN "read" ELSE "count")
    /\ UNCHANGED <<format, status, counted, upsets, calm>>

\* advanceSocial: bracketMatches, and what is decided from it
ReadNight(r) ==
    LET round == req[r].match[1] IN
    /\ req[r].pc = "read"
    /\ format \in Social
    /\ RoundSettled(round)
    /\ LET plan == IF Appends(round) THEN InOrder(NextCourts(round)) ELSE <<>> IN
       req' = [req EXCEPT ![r].pc = IF plan = <<>> THEN "count" ELSE "append",
                          ![r].todo = plan, ![r].seen = Standing(round)]
    /\ UNCHANGED <<rows, upsets, calm>>

ReadUnsettled(r) ==
    /\ req[r].pc = "read"
    /\ format \in Social
    /\ ~RoundSettled(req[r].match[1])
    /\ Finish(r)
    /\ UNCHANGED <<rows, upsets, calm>>

NextRow(q) == <<q.match[1] + 1, Head(q.todo)>>

\* appendFixtures, one INSERT
AppendFixture(r) ==
    LET q == req[r] IN
    /\ q.pc = "append"
    /\ NextRow(q) \notin Rows
    /\ fixture' = [m \in Rows \cup {NextRow(q)} |-> IF m \in Rows THEN fixture[m] ELSE Ready]
    /\ req' = [req EXCEPT ![r].todo = Tail(q.todo),
                          ![r].pc = IF Len(q.todo) = 1 THEN "count" ELSE "append"]
    /\ UNCHANGED <<format, status, counted, upsets, calm>>

\* UNIQUE (tournament_id, round, position_in_round): the request fails here.
AppendRefused(r) ==
    /\ req[r].pc = "append"
    /\ NextRow(req[r]) \in Rows
    /\ Finish(r)
    /\ UNCHANGED <<rows, upsets, calm>>

\* remainingMatches is zero: a social night has its standings, a round robin
\* reads for them.
CountNone(r) ==
    /\ req[r].pc = "count"
    /\ Remaining = {}
    /\ Go(r, IF format \in Social THEN "crown" ELSE "read")
    /\ UNCHANGED <<rows, upsets, calm>>

CountSome(r) ==
    /\ req[r].pc = "count"
    /\ Remaining # {}
    /\ Finish(r)
    /\ UNCHANGED <<rows, upsets, calm>>

\* advance of a round robin: bracketMatches
ReadRobin(r) ==
    /\ req[r].pc = "read"
    /\ format \notin Social
    /\ req' = [req EXCEPT ![r].pc = "crown", ![r].seen = Standing(req[r].match[1])]
    /\ UNCHANGED <<rows, upsets, calm>>

SetChampion(r) ==
    /\ req[r].pc = "crown"
    /\ counted' = req[r].seen
    /\ status' = "COMPLETED"
    /\ Finish(r)
    /\ UNCHANGED <<format, fixture, upsets, calm>>

\* The client leaves or the database fails: the rest is not done.
Die(r) ==
    /\ req[r] # Idle
    /\ upsets < MaxUpsets
    /\ upsets' = upsets + 1
    /\ calm' = (calm /\ req[r].pc \notin {"read", "append", "count", "crown"})
    /\ Finish(r)
    /\ UNCHANGED rows

-----------------------------------------------------------------------------
\* replaceFixtures wrote the first round, or all of them.
Init ==
    /\ format \in Social \cup {"ROUND_ROBIN"}
    /\ fixture = [m \in (IF format \in Drawn THEN {k \in Match : k[1] = 1} ELSE Match) |-> Ready]
    /\ status = "ONGOING"
    /\ counted = None
    /\ req = [r \in Req |-> Idle]
    /\ upsets = 0
    /\ calm = TRUE

Next ==
    \E r \in Req :
        \/ \E m \in Rows, res \in Results, pc \in {"complete", "report"} : Submit(r, m, res, pc)
        \/ \E m \in Rows, pc \in {"reread", "clear"} : Confirm(r, m, pc)
        \/ ReportMatch(r)
        \/ ClearReport(r)
        \/ Reread(r)
        \/ RereadRefused(r)
        \/ CompleteMatch(r)
        \/ ReadNight(r)
        \/ ReadUnsettled(r)
        \/ AppendFixture(r)
        \/ AppendRefused(r)
        \/ CountNone(r)
        \/ CountSome(r)
        \/ ReadRobin(r)
        \/ SetChampion(r)
        \/ Die(r)

Spec == Init /\ [][Next]_vars

-----------------------------------------------------------------------------
(* Properties                                                              *)

Fixture == [status : {"READY", "PENDING_CONFIRMATION", "COMPLETED"},
            result : {"decided", "tied", None}]

Counts(f) == DOMAIN f \subseteq Match /\ \A m \in DOMAIN f : f[m] \in Results

\* Every row and every request holds values of its columns; a match has a result
\* exactly while it is reported or completed.
TypeOK ==
    /\ Rows \subseteq Match
    /\ \A m \in Rows :
        /\ fixture[m] \in Fixture
        /\ fixture[m].status = "READY" <=> fixture[m].result = None
    /\ status \in {"ONGOING", "COMPLETED"}
    /\ status = "COMPLETED" => Counts(counted)
    /\ \A r \in Req :
        /\ req[r].pc \in {"idle", "complete", "report", "reread", "clear", "read",
                           "append", "count", "crown"}
        /\ req[r] # Idle => req[r].match \in Rows
        /\ req[r].pc \in {"append", "crown"} => Counts(req[r].seen)
        /\ req[r].pc = "append" <=> req[r].todo # <<>>

\* However the results of a round come in: a round that is drawn from results is
\* there only once every match of the round before is completed, and a tournament
\* is COMPLETED only after its last round, with every match played.
RoundsInOrder ==
    /\ TypeOK
    /\ calm /\ format \in Drawn =>
        \A m \in Rows : m[1] > 1 =>
            \A k \in InRound(m[1] - 1) : fixture[k].status = "COMPLETED"
    /\ calm /\ status = "COMPLETED" =>
        /\ \A m \in Rows : fixture[m].status = "COMPLETED"
        /\ InRound(LastRound) # {}

\* The night never gets stuck: until the tournament is COMPLETED, some match can
\* be played or waits for its confirmation, or a request is on its way.
NightAlive ==
    calm /\ status = "ONGOING" =>
        \/ \E m \in Rows : fixture[m].status \in {"READY", "PENDING_CONFIRMATION"}
        \/ \E r \in Req : req[r] # Idle

\* The champion is computed from the results of all matches, although the last
\* results come in together and every one of them is followed by a reading.
ChampionCounted == calm /\ status = "COMPLETED" => counted = ResultsNow

=============================================================================
