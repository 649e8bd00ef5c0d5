----------------------------- MODULE Tournament -----------------------------
(***************************************************************************)
(* One tournament from registration to its champion: the tournaments row,  *)
(* its participants and its fixtures, under concurrent handlers            *)
(* (internal/modules/tournament/service.go).                               *)
(*                                                                         *)
(* As in LiveMatch, a handler reads, decides on what it read, and writes   *)
(* later; the writes of setStatus, setChampion and delete carry no         *)
(* condition on the status.  What keeps tables consistent between calls    *)
(* are the constraints of 005_tournaments.sql: UNIQUE(tournament, user),   *)
(* and foreign keys from a fixture to its players and from a player to the *)
(* tournament.                                                             *)
(*                                                                         *)
(* Abstracted: a draw is the set of rows it was made from and what came of *)
(* it; Knockout models its matches.  Seeds only order lists and are left   *)
(* out, as are join codes and limits by subscription (a failed check is a  *)
(* refused request).                                                       *)
(***************************************************************************)
EXTENDS Naturals, FiniteSets

CONSTANTS
    User,  \* accounts that may join
    Seat,  \* bound: identities of tournament_participants rows
    Max,   \* max_participants
    Need,  \* participants a draw needs: 2, for social formats 4
    Draws, \* bound: how many times fixtures are drawn
    Desk,  \* bound: requests of the organizer in flight at once
    Req,   \* bound: requests of players in flight at once
    None

ASSUME TournamentAssumption ==
    /\ Max \in Nat \ {0}
    /\ Need \in Nat \ {0}
    /\ Draws \in Nat
    /\ None \notin User
    /\ IsFiniteSet(Seat)
    /\ IsFiniteSet(Req)
    /\ Desk \cap Req = {}

VARIABLES
    status,  \* tournaments.status; DELETED: the row is gone
    roster,  \* the participant rows that exist
    owner,   \* owner[s]: the account of row s, None while s was never inserted
    draw,    \* the fixtures
    req      \* req[r]: the handler running in slot r

vars == <<status, roster, owner, draw, req>>

-----------------------------------------------------------------------------

Status == {"REGISTRATION", "LOCKED", "ONGOING", "COMPLETED", "DELETED"}

\* The fixtures of draw number no were made for field; {}: there are none.
\* reported: some match awaits confirmation.  played: some match has been completed.
Fixtures == [no : 0 .. Draws, field : SUBSET Seat, reported : BOOLEAN, played : BOOLEAN]

OfPlayer == {"joinProbe", "joinCount", "joinInsert", "leaveDelete"}

OfDesk == {"lockCount", "lockWrite", "drawRead", "drawReplace", "drawOpen", "deleteWrite"}

OfResult == {"reportWrite", "clearWrite", "completeWrite", "crownWrite"}

Step == {"idle"} \cup OfPlayer \cup OfDesk \cup OfResult

Locals == [pc    : Step,
           user  : User \cup {None},
           found : SUBSET Seat,
           no    : 0 .. Draws,
           last  : BOOLEAN]

Idle == [pc |-> "idle", user |-> None, found |-> {}, no |-> 0, last |-> FALSE]

\* A handler of user's request, and one that works on a match of draw no.
Asked(pc, user) == [Idle EXCEPT !.pc = pc, !.user = user]

Judging(pc, no, last) == [Idle EXCEPT !.pc = pc, !.no = no, !.last = last]

Slot == Desk \cup Req

TypeOK ==
    /\ status \in Status
    /\ roster \in SUBSET Seat
    /\ owner \in [Seat -> User \cup {None}]
    /\ draw \in Fixtures
    /\ req \in [Slot -> Locals]

Exists == status # "DELETED"

Members == {owner[s] : s \in roster}

\* ON DELETE CASCADE and the foreign keys: a fixture holds its players' rows.
Referenced(s) == s \in draw.field

-----------------------------------------------------------------------------
(* Steps shared by the handlers.                                           *)

Serve(r, q) ==
    /\ req[r].pc = "idle"
    /\ req' = [req EXCEPT ![r] = q]
    /\ UNCHANGED <<status, roster, owner, draw>>

Running(r, pc) == req[r].pc = pc

At(q, pc) == [q EXCEPT !.pc = pc]

Goto(r, pc) == req' = [req EXCEPT ![r] = At(@, pc)]

Reply(r) == req' = [req EXCEPT ![r] = Idle]

\* The handler only looked: it goes on when ok, and refuses otherwise.
Check(r, ok, pc) ==
    /\ IF ok THEN Goto(r, pc) ELSE Reply(r)
    /\ UNCHANGED <<status, roster, owner, draw>>

-----------------------------------------------------------------------------
(* JoinTournament                                                          *)

JoinBegin(r, u) ==
    /\ status = "REGISTRATION"
    /\ Serve(r, Asked("joinProbe", u))

JoinProbe(r) ==
    /\ Running(r, "joinProbe")
    /\ Check(r, req[r].user \notin Members, "joinCount")

\* Broken variant of HasRoom: off by one.
HasRoomForOneMore(n) == n <= Max

HasRoom(n) == n < Max

JoinCount(r) ==
    /\ Running(r, "joinCount")
    /\ Check(r, HasRoom(Cardinality(roster)), "joinInsert")

\* Broken variant of Insertable: no foreign key to the tournament.
InsertableAnyway(u) == u \notin Members

\* What the constraints of tournament_participants let an INSERT add; the
\* status is not looked at again.
Insertable(u) == Exists /\ u \notin Members

JoinInsert(r) ==
    LET u == req[r].user IN
    /\ Running(r, "joinInsert")
    /\ IF Insertable(u)
       THEN \E s \in Seat :
                /\ owner[s] = None
                /\ owner' = [owner EXCEPT ![s] = u]
                /\ roster' = roster \cup {s}
       ELSE UNCHANGED <<owner, roster>>
    /\ Reply(r)
    /\ UNCHANGED <<status, draw>>

-----------------------------------------------------------------------------
(* Leave                                                                   *)

LeaveBegin(r, u) ==
    /\ status = "REGISTRATION"
    /\ Serve(r, Asked("leaveDelete", u))

\* Broken variant of Removable: no foreign key from the fixtures.
RemovableAnyway(s) == TRUE

Removable(s) == ~Referenced(s)

\* The DELETE finds the account's row, and fails when a fixture refers to it.
LeaveDelete(r) ==
    /\ Running(r, "leaveDelete")
    /\ roster' = roster \ {s \in roster : owner[s] = req[r].user /\ Removable(s)}
    /\ Reply(r)
    /\ UNCHANGED <<status, owner, draw>>

-----------------------------------------------------------------------------
(* Lock and Draw.  setStatus is unconditional.                             *)

SetStatus(to) == status' = IF Exists THEN to ELSE status

\* Broken variant of MayLock: whatever is not over can be locked.
MayLockAgain == status \notin {"COMPLETED", "DELETED"}

MayLock == status = "REGISTRATION"

LockBegin(d) ==
    /\ MayLock
    /\ Serve(d, Asked("lockCount", None))

LockCount(d) ==
    /\ Running(d, "lockCount")
    /\ Check(d, Cardinality(roster) >= Need, "lockWrite")

LockWrite(d) ==
    /\ Running(d, "lockWrite")
    /\ SetStatus("LOCKED")
    /\ Reply(d)
    /\ UNCHANGED <<roster, owner, draw>>

\* Broken variant of MayDraw: the organizer may draw again.
MayDrawAgain == status \in {"LOCKED", "ONGOING"}

MayDraw == status = "LOCKED"

DrawBegin(d) ==
    /\ MayDraw
    /\ Serve(d, Asked("drawRead", None))

Placing(q, field) == [q EXCEPT !.pc = "drawReplace", !.found = field]

\* confirmedParticipants; a manual order must list exactly these.
DrawRead(d) ==
    /\ Running(d, "drawRead")
    /\ IF Cardinality(roster) >= Need
       THEN req' = [req EXCEPT ![d] = Placing(@, roster)]
       ELSE Reply(d)
    /\ UNCHANGED <<status, roster, owner, draw>>

Drawn(no, field) == [no |-> no, field |-> field, reported |-> FALSE, played |-> FALSE]

\* replaceFixtures: one transaction that the foreign keys make fail when a
\* player it places has left or the tournament is gone.
DrawReplace(d) ==
    LET field == req[d].found IN
    /\ Running(d, "drawReplace")
    /\ IF Exists /\ field \subseteq roster
       THEN /\ draw.no < Draws
            /\ draw' = Drawn(draw.no + 1, field)
            /\ Goto(d, "drawOpen")
       ELSE Reply(d) /\ UNCHANGED draw
    /\ UNCHANGED <<status, roster, owner>>

DrawOpen(d) ==
    /\ Running(d, "drawOpen")
    /\ SetStatus("ONGOING")
    /\ Reply(d)
    /\ UNCHANGED <<roster, owner, draw>>

-----------------------------------------------------------------------------
(* Delete                                                                  *)

DeleteBegin(d) ==
    /\ status \in {"REGISTRATION", "LOCKED"}
    /\ Serve(d, Asked("deleteWrite", None))

\* Participants and fixtures go with the tournament.
DeleteWrite(d) ==
    /\ Running(d, "deleteWrite")
    /\ status' = "DELETED"
    /\ roster' = {}
    /\ draw' = Drawn(draw.no, {})
    /\ Reply(d)
    /\ UNCHANGED owner

-----------------------------------------------------------------------------
(* SubmitResult and ConfirmResult, as far as the tournament goes.  The     *)
(* organizer completes a match, a player reports it, and another player or *)
(* the organizer approves or rejects the report.  Which match decides the  *)
(* tournament is the bracket's business.                                   *)

SubmitBegin(r) ==
    /\ status = "ONGOING"
    /\ draw.field # {}
    /\ \E pc \in {"reportWrite", "completeWrite"}, last \in BOOLEAN :
        Serve(r, Judging(pc, draw.no, last))

\* Confirming looks at the match only, not at the tournament.
ConfirmBegin(r) ==
    /\ draw.reported
    /\ \E pc \in {"clearWrite", "completeWrite"}, last \in BOOLEAN :
        Serve(r, Judging(pc, draw.no, last))

\* The UPDATE of a match finds nothing when its draw was replaced or deleted.
SetDraw(no, d) == draw' = IF draw.no = no /\ draw.field # {} THEN d ELSE draw

Noted(d, reported, played) == [d EXCEPT !.reported = reported, !.played = played]

ReportWrite(r) ==
    /\ Running(r, "reportWrite")
    /\ SetDraw(req[r].no, Noted(draw, TRUE, draw.played))
    /\ Reply(r)
    /\ UNCHANGED <<status, roster, owner>>

\* Another match may still await its confirmation.
ClearWrite(r) ==
    /\ Running(r, "clearWrite")
    /\ \E more \in {FALSE, draw.reported} :
        SetDraw(req[r].no, Noted(draw, more, draw.played))
    /\ Reply(r)
    /\ UNCHANGED <<status, roster, owner>>

CompleteWrite(r) ==
    /\ Running(r, "completeWrite")
    /\ \E more \in {FALSE, draw.reported} :
        SetDraw(req[r].no, Noted(draw, more, TRUE))
    /\ IF req[r].last THEN Goto(r, "crownWrite") ELSE Reply(r)
    /\ UNCHANGED <<status, roster, owner>>

\* setChampion
CrownWrite(r) ==
    /\ Running(r, "crownWrite")
    /\ SetStatus("COMPLETED")
    /\ Reply(r)
    /\ UNCHANGED <<roster, owner, draw>>

-----------------------------------------------------------------------------

\* The client disconnects or the database refuses a call.
Die(r) ==
    /\ req[r].pc # "idle"
    /\ Reply(r)
    /\ UNCHANGED <<status, roster, owner, draw>>

Init ==
    /\ status = "REGISTRATION"
    /\ roster = {}
    /\ owner = [s \in Seat |-> None]
    /\ draw = Drawn(0, {})
    /\ req = [r \in Slot |-> Idle]

Player(r) ==
    \/ \E u \in User : JoinBegin(r, u) \/ LeaveBegin(r, u)
    \/ JoinProbe(r)
    \/ JoinCount(r)
    \/ JoinInsert(r)
    \/ LeaveDelete(r)

Organizer(d) ==
    \/ LockBegin(d)
    \/ LockCount(d)
    \/ LockWrite(d)
    \/ DrawBegin(d)
    \/ DrawRead(d)
    \/ DrawReplace(d)
    \/ DrawOpen(d)
    \/ DeleteBegin(d)
    \/ DeleteWrite(d)

Result(r) ==
    \/ SubmitBegin(r)
    \/ ConfirmBegin(r)
    \/ ReportWrite(r)
    \/ ClearWrite(r)
    \/ CompleteWrite(r)
    \/ CrownWrite(r)

Next ==
    \/ \E r \in Req : Player(r)
    \/ \E d \in Desk : Organizer(d)
    \/ \E r \in Slot : Result(r) \/ Die(r)

Spec == Init /\ [][Next]_vars

-----------------------------------------------------------------------------
(* Properties that hold however requests interleave.                       *)

\* The joins that have counted and will insert
Admitted == {r \in Req : req[r].pc = "joinInsert"}

\* A tournament can be overfull, because the count and the INSERT of a join are
\* two calls, but never by more than the joins that were in flight at once, and
\* those that are still on their way count already.
RosterBounded == Cardinality(roster) + Cardinality(Admitted) < Max + Cardinality(Req)

\* Whatever is in the fixtures is a player who is still in the tournament,
\* though a leave that began during registration may run after the draw.
FieldKept == draw.field \subseteq roster

\* Nothing of a deleted tournament comes back: not by a join, a draw, a result
\* or a status that was on its way.
DeletedIsGone == status = "DELETED" => roster = {} /\ draw.field = {}

-----------------------------------------------------------------------------
(* Properties of an organizer who waits for each answer (Desk = {d}).      *)

Flow == {<<"REGISTRATION", "LOCKED">>, <<"LOCKED", "ONGOING">>, <<"ONGOING", "COMPLETED">>,
         <<"REGISTRATION", "DELETED">>, <<"LOCKED", "DELETED">>}

\* REGISTRATION, LOCKED, ONGOING, COMPLETED: in this order, one at a time, and
\* deletion only before the draw, whatever the players do meanwhile.
StatusFlows == [][status' # status => <<status, status'>> \in Flow]_status

\* A tournament with a completed match keeps its fixtures.
HistoryKept == [][draw.played => draw'.played /\ draw'.no = draw.no]_draw

-----------------------------------------------------------------------------
(* The inductive invariants behind them.                                   *)

Kept ==
    /\ TypeOK
    /\ FieldKept
    /\ DeletedIsGone
    /\ RosterBounded

OneDesk == \A d, e \in Desk : d = e

\* With one request of the organizer at a time, what it read still holds when
\* it writes.
DeskSound ==
    \A d \in Desk :
        /\ req[d].pc \in {"lockCount", "lockWrite"} => status = "REGISTRATION"
        /\ req[d].pc \in {"drawRead", "drawReplace", "drawOpen"} => status = "LOCKED"
        /\ req[d].pc = "deleteWrite" => status \in {"REGISTRATION", "LOCKED"}

Started == status \in {"ONGOING", "COMPLETED"}

ResultSound ==
    /\ draw.played \/ draw.reported => Started
    /\ \A r \in Slot : req[r].pc \in OfResult => Started

Orderly ==
    /\ TypeOK
    /\ DeskSound
    /\ ResultSound

=============================================================================
