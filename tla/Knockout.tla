------------------------------ MODULE Knockout ------------------------------
(***************************************************************************)
(* Results of a drawn SINGLE_ELIM tournament: SubmitResult, ConfirmResult  *)
(* and advance of internal/modules/tournament/service.go, from the draw to *)
(* the champion.                                                           *)
(*                                                                         *)
(* A request reads the match once (matchDetail), judges what it read, and  *)
(* then issues statements that do not look again: requests on the same     *)
(* match can pass the judgement together, and a request that dies between  *)
(* two statements (a lost client cancels its context) leaves the first     *)
(* one done.  A participant stands for its user; scores and confirmed_by,  *)
(* which nothing reads, are left out.                                      *)
(***************************************************************************)
EXTENDS Draws, TLC

CONSTANTS
    Fields,    \* the orders a draw may have put its participants in
    Organizer, \* may be one of the participants
    Req,       \* bound: requests in flight at a time
    MaxUpsets  \* bound: requests that meet another one on their match, and
               \* requests that die half way, together

\* A draw needs two participants (bracket.go:33); None is neither one of them
\* nor a match.
ASSUME FieldsAssumption ==
    /\ \A f \in Fields :
        /\ f \in Seq({f[i] : i \in DOMAIN f})
        /\ Len(f) >= 2
        /\ None \notin {f[i] : i \in DOMAIN f}
    /\ None \notin Nat \X Nat
    /\ MaxUpsets \in Nat

VARIABLES
    field,    \* the order of the draw
    fixture,  \* tournament_matches, by round and position
    status,   \* tournaments.status
    champion, \* tournaments.champion_id
    req,      \* the requests in flight
    upsets,   \* how many met or died
    calm      \* history: no two requests met on one match, and none died
              \* between completing a match and the end of advance

rows == <<field, fixture, status, champion>>
vars == <<field, fixture, status, champion, req, upsets, calm>>

Match == Nodes(Len(field))
Player == {field[i] : i \in 1 .. Len(field)}
Caller == Player \cup {Organizer}

NextMatch(m) == NextOf(Len(field), m)

SlotsOf(x) == {x.a, x.b} \ {None}

-----------------------------------------------------------------------------
(* Rows                                                                    *)

\* replaceFixtures writes what the draw planned; nothing is reported yet.
Stored(plan) ==
    [a |-> plan.a, b |-> plan.b, winner |-> plan.winner, status |-> plan.status,
     reportedBy |-> None]

\* completeMatch
Completed(x, w) == [x EXCEPT !.status = "COMPLETED", !.winner = w]

\* reportMatch
Reported(x, w, u) ==
    [x EXCEPT !.status = "PENDING_CONFIRMATION", !.winner = w, !.reportedBy = u]

\* clearReport
Cleared(x) ==
    [x EXCEPT !.status = "READY", !.winner = None, !.reportedBy = None]

\* Broken variant of Placed: the second winner takes the slot of the first.
PlacedFirst(x, w) == [x EXCEPT !.a = w]

\* Broken variant of Placed: only the first slot is looked at.
PlacedOnlyFirst(x, w) == IF x.a = None THEN [x EXCEPT !.a = w] ELSE x

\* placeIntoNext, first statement: the first empty slot
Placed(x, w) == IF x.a = None THEN [x EXCEPT !.a = w]
                ELSE IF x.b = None THEN [x EXCEPT !.b = w]
                ELSE x

\* Broken variant of Opened: one player is enough.
OpenedHalf(x) == IF x.status = "PENDING" /\ (x.a # None \/ x.b # None)
                 THEN [x EXCEPT !.status = "READY"]
                 ELSE x

\* Broken variant of Opened: without the test of the status.
OpenedAgain(x) == IF x.a # None /\ x.b # None THEN [x EXCEPT !.status = "READY"] ELSE x

\* placeIntoNext, second statement: WHERE status='PENDING' and both slots filled
Opened(x) == IF x.status = "PENDING" /\ x.a # None /\ x.b # None
             THEN [x EXCEPT !.status = "READY"]
             ELSE x

Write(m, x) == fixture' = [fixture EXCEPT ![m] = x]

-----------------------------------------------------------------------------
(* Requests                                                                *)

Idle == [pc |-> "idle", match |-> None, by |-> None, winner |-> None]

Asked(pc, m, u, w) == [pc |-> pc, match |-> m, by |-> u, winner |-> w]

Open(m) == {q \in Req : req[q].match = m}

\* A request on m starts at pc with what it read.
Begin(r, pc, m, u, w) ==
    /\ req[r] = Idle
    /\ req' = [req EXCEPT ![r] = Asked(pc, m, u, w)]
    /\ IF Open(m) = {}
       THEN UNCHANGED <<upsets, calm>>
       ELSE upsets < MaxUpsets /\ upsets' = upsets + 1 /\ calm' = FALSE
    /\ UNCHANGED rows

Go(r, pc) == req' = [req EXCEPT ![r].pc = pc]
Finish(r) == req' = [req EXCEPT ![r] = Idle]

\* The conditions of SubmitResult
MaySubmit(x, w) == status = "ONGOING" /\ x.status = "READY" /\ w \in SlotsOf(x)

\* The organizer completes the match, a player reports it.
SubmitByOrganizer(r, m, w) ==
    /\ MaySubmit(fixture[m], w)
    /\ Begin(r, "complete", m, Organizer, w)

SubmitByPlayer(r, u, m, w) ==
    /\ u # Organizer
    /\ u \in SlotsOf(fixture[m])
    /\ MaySubmit(fixture[m], w)
    /\ Begin(r, "report", m, u, w)

ReportMatch(r) ==
    LET q == req[r] IN
    /\ q.pc = "report"
    /\ Write(q.match, Reported(fixture[q.match], q.winner, q.by))
    /\ Finish(r)
    /\ UNCHANGED <<field, status, champion, upsets, calm>>

\* The conditions of ConfirmResult: not the reporter, unless the organizer
MayConfirm(x, u) ==
    /\ x.status = "PENDING_CONFIRMATION"
    /\ u = Organizer \/ (u \in SlotsOf(x) /\ x.reportedBy # u)

Approve(r, u, m) == MayConfirm(fixture[m], u) /\ Begin(r, "reread", m, u, None)

Reject(r, u, m) == MayConfirm(fixture[m], u) /\ Begin(r, "clear", m, u, None)

\* getMatch: an approval takes the winner the row has by now.
Reread(r) ==
    /\ req[r].pc = "reread"
    /\ fixture[req[r].match].winner # None
    /\ req' = [req EXCEPT ![r].pc = "complete", ![r].winner = fixture[req[r].match].winner]
    /\ UNCHANGED <<rows, upsets, calm>>

\* "reported match has no winner"
RereadRefused(r) ==
    /\ req[r].pc = "reread"
    /\ fixture[req[r].match].winner = None
    /\ Finish(r)
    /\ UNCHANGED <<rows, upsets, calm>>

ClearReport(r) ==
    LET q == req[r] IN
    /\ q.pc = "clear"
    /\ Write(q.match, Cleared(fixture[q.match]))
    /\ Finish(r)
    /\ UNCHANGED <<field, status, champion, upsets, calm>>

\* advance goes on to the next match, or to the champion after the final.
AfterComplete(m) == IF NextMatch(m) = None THEN "crown" ELSE "place"

CompleteMatch(r) ==
    LET q == req[r] IN
    /\ q.pc = "complete"
    /\ Write(q.match, Completed(fixture[q.match], q.winner))
    /\ Go(r, AfterComplete(q.match))
    /\ UNCHANGED <<field, status, champion, upsets, calm>>

PlaceIntoNext(r) ==
    LET q == req[r] IN
    /\ q.pc = "place"
    /\ Write(NextMatch(q.match), Placed(fixture[NextMatch(q.match)], q.winner))
    /\ Go(r, "ready")
    /\ UNCHANGED <<field, status, champion, upsets, calm>>

ReadyNext(r) ==
    LET q == req[r] IN
    /\ q.pc = "ready"
    /\ Write(NextMatch(q.match), Opened(fixture[NextMatch(q.match)]))
    /\ Finish(r)
    /\ UNCHANGED <<field, status, champion, upsets, calm>>

SetChampion(r) ==
    /\ req[r].pc = "crown"
    /\ champion' = req[r].winner
    /\ status' = "COMPLETED"
    /\ Finish(r)
    /\ UNCHANGED <<field, fixture, upsets, calm>>

\* The client leaves or the database fails: the rest is not done.
Die(r) ==
    /\ req[r] # Idle
    /\ upsets < MaxUpsets
    /\ upsets' = upsets + 1
    /\ calm' = (calm /\ req[r].pc \notin {"place", "ready", "crown"})
    /\ Finish(r)
    /\ UNCHANGED rows

-----------------------------------------------------------------------------
Init ==
    /\ field \in Fields
    /\ fixture = [m \in Nodes(Len(field)) |-> Stored(BuildSingleElim(field)[m])]
    /\ status = "ONGOING"
    /\ champion = None
    /\ req = [r \in Req |-> Idle]
    /\ upsets = 0
    /\ calm = TRUE

Next ==
    \E r \in Req :
        \/ \E m \in Match, w \in Player : SubmitByOrganizer(r, m, w)
        \/ \E m \in Match, u, w \in Player : SubmitByPlayer(r, u, m, w)
        \/ \E m \in Match, u \in Caller : Approve(r, u, m) \/ Reject(r, u, m)
        \/ ReportMatch(r)
        \/ Reread(r)
        \/ RereadRefused(r)
        \/ ClearReport(r)
        \/ CompleteMatch(r)
        \/ PlaceIntoNext(r)
        \/ ReadyNext(r)
        \/ SetChampion(r)
        \/ Die(r)

Spec == Init /\ [][Next]_vars

-----------------------------------------------------------------------------
(* Properties                                                              *)

Fixture == [a : Player \cup {None}, b : Player \cup {None}, winner : Player \cup {None},
            status : {"PENDING", "READY", "PENDING_CONFIRMATION", "COMPLETED", "BYE"},
            reportedBy : Player \cup {None}]

Request == [pc : {"idle", "complete", "report", "reread", "clear", "place", "ready", "crown"},
            match : Match \cup {None}, by : Caller \cup {None}, winner : Player \cup {None}]

\* Every row and every request holds values of its columns.
TypeOK ==
    /\ field \in Fields
    /\ fixture \in [Match -> Fixture]
    /\ status \in {"ONGOING", "COMPLETED"}
    /\ champion \in Player \cup {None}
    /\ req \in [Req -> Request]
    /\ upsets \in 0 .. MaxUpsets
    /\ calm \in BOOLEAN

Feeders(m) == {k \in Match : NextMatch(k) = m}

\* Whatever requests meet and die: the winner of a match is one of its players
\* and is known exactly while the match is decided or reported; only a match
\* with two players is open; whoever sits in a later match sat in one of the
\* two that feed it; and the champion sat in the final.
BracketSound ==
    /\ TypeOK
    /\ \A m \in Match :
        LET x == fixture[m] IN
        /\ x.winner # None => x.winner \in SlotsOf(x)
        /\ x.winner # None <=> x.status \in {"PENDING_CONFIRMATION", "COMPLETED", "BYE"}
        /\ x.status \notin {"PENDING", "BYE"} => x.a # None /\ x.b # None
        /\ m[1] > 1 => SlotsOf(x) \subseteq UNION {SlotsOf(fixture[k]) : k \in Feeders(m)}
    /\ champion # None =>
        \E m \in Match : NextMatch(m) = None /\ champion \in SlotsOf(fixture[m])

\* Whatever requests meet and die: a player who took a slot keeps it.
SeatsKept ==
    [][\A m \in Match :
        /\ fixture[m].a # None => fixture'[m].a = fixture[m].a
        /\ fixture[m].b # None => fixture'[m].b = fixture[m].b]_vars

\* The bracket never gets stuck: until the tournament is COMPLETED, some match
\* can be played or waits for its confirmation, or a request is on its way.
BracketAlive ==
    calm /\ status = "ONGOING" =>
        \/ \E m \in Match : fixture[m].status \in {"READY", "PENDING_CONFIRMATION"}
        \/ \E r \in Req : req[r] # Idle

\* The decided matches of the bracket this implements
Decided(x) == IF x.status \in {"COMPLETED", "BYE"} THEN x.winner ELSE None

B == INSTANCE Bracket WITH won <- [m \in Match |-> Decided(fixture[m])]

\* As long as the run is calm, every step is a step of the abstract bracket:
\* each match is decided once, by the winners of the two that feed it, and the
\* winner of the final is crowned.  Requests on different matches interleave.
ImplementsBracket == B!Init /\ [][calm' => B!Next \/ UNCHANGED B!bvars]_vars

=============================================================================
