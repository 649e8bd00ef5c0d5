----------------------------- MODULE LiveMatch -----------------------------
(***************************************************************************)
(* Live score sessions: the live_matches table and the history rows that   *)
(* ending a session writes, driven by HTTP handlers that run concurrently. *)
(*                                                                         *)
(* Each handler of internal/modules/score/service.go is a sequence of      *)
(* database calls.  One call is one SQL statement and is atomic; anything  *)
(* may happen between two calls of one handler.  A request slot in req     *)
(* holds what a handler keeps in local variables between its calls: the    *)
(* Begin action of an operation makes the read and the checks on what was  *)
(* read, the later actions make the writes, each with the WHERE clause     *)
(* that guards it.  A handler that is refused changes no state and is not  *)
(* an action.                                                              *)
(*                                                                         *)
(* Abstracted: set scores and point logs are members of Score; slots are   *)
(* the set of registered players (guests have no account and never act);   *)
(* friendship and Pro checks are choices of the environment (a failed one  *)
(* is a refused request); events are published after each write and change *)
(* nothing here.                                                           *)
(***************************************************************************)
EXTENDS FiniteSets

CONSTANTS
    User,     \* registered accounts
    Scorer,   \* bound: the accounts that start sessions
    Live,     \* bound: identities of live_matches rows
    Hist,     \* bound: identities of matches rows written by EndLiveMatch
    Token,    \* bound: share tokens that can be drawn
    Score,    \* abstract score snapshots
    NoScore,  \* the score a session starts with
    Lineup,   \* who may be put in the slots of a new session
    Req,      \* bound: requests in flight at once
    None

ASSUME ConstantsAssumption ==
    /\ Scorer \subseteq User
    /\ NoScore \in Score
    /\ Lineup \subseteq [players : SUBSET User, singles : BOOLEAN]
    /\ None \notin User \cup Live \cup Hist \cup Token \cup Score

VARIABLES
    row,      \* row[l]: the live_matches row l
    history,  \* history[h]: the matches row h
    req,      \* req[r]: the handler running in slot r
    refused,  \* observed: refused[l] is who was told that the decline succeeded
    closing,  \* observed: closing[l] is which call ended l, and whose it was
    lost      \* observed: the history rows whose handler died before it could link them

vars == <<row, history, req, refused, closing, lost>>

-----------------------------------------------------------------------------
(* Rows and requests.                                                      *)

\* age abstracts updated_at: a row is stale once it is older than liveStaleTTL,
\* and old when the next moment may make it stale.
Row == [status   : {"ABSENT", "PENDING", "IN_PROGRESS", "ENDED"},
        by       : User \cup {None},
        players  : SUBSET User,
        singles  : BOOLEAN,
        declined : SUBSET User,
        score    : Score,
        archive  : Hist \cup {None},
        token    : Token \cup {None},
        age      : {"fresh", "old", "stale"}]

NoRow == [status |-> "ABSENT", by |-> None, players |-> {}, singles |-> FALSE,
          declined |-> {}, score |-> NoScore, archive |-> None, token |-> None,
          age |-> "fresh"]

\* A history row knows the session it was written for (None: not written yet)
\* and whether its result was applied to the ratings.
HistRow == [live : Live \cup {None}, score : Score, rated : BOOLEAN]

NoHist == [live |-> None, score |-> NoScore, rated |-> FALSE]

Step == {"idle", "startExpire", "startProbe", "startInsert", "updateWrite",
         "endArchive", "endRate", "endFinish", "cancelWrite", "acceptWrite",
         "declineSet", "declineClose", "shareWrite"}

\* The local variables of a handler.  ids is the list a handler computed: the
\* slots of the session to insert, or the declined list to write back.
Locals  == [pc      : Step,
            user    : User \cup {None},
            live    : Live \cup {None},
            ids     : SUBSET User,
            todo    : SUBSET User,
            singles : BOOLEAN,
            score   : Score,
            hist    : Hist \cup {None},
            token   : Token \cup {None}]

\* A running handler serves an account.
Request == {q \in Locals : q.pc # "idle" => q.user \in User}

Idle == [pc |-> "idle", user |-> None, live |-> None, ids |-> {}, todo |-> {},
         singles |-> FALSE, score |-> NoScore, hist |-> None, token |-> None]

Closing == [how : {"none", "end", "cancel", "decline", "expire"},
            by  : User \cup {None}]

TypeOK ==
    /\ row \in [Live -> Row]
    /\ history \in [Hist -> HistRow]
    /\ req \in [Req -> Request]
    /\ refused \in [Live -> SUBSET User]
    /\ closing \in [Live -> Closing]
    /\ lost \subseteq Hist

-----------------------------------------------------------------------------
(* What the handlers compute from a row.                                   *)

\* openLiveStatuses
Open(m) == m.status \in {"PENDING", "IN_PROGRESS"}

\* liveInvitees: every registered player except the creator
Invitees(m) == m.players \ {m.by}

\* isRegisteredOpponent
Opponent(u, m) == u # m.by /\ u \in m.players

\* hasOpenLiveBetween: only sessions the creator started, any slot
OpenBetween(u, opp) ==
    \E l \in Live : row[l].by = u /\ Open(row[l]) /\ opp \in row[l].players

\* singlesEloPair: two registered accounts and no partner on either side
Rateable(m) == m.singles /\ Cardinality(m.players) = 2

Stale(l) == Open(row[l]) /\ row[l].age = "stale"

-----------------------------------------------------------------------------
(* The SET clauses; each also touches updated_at.                          *)

Scored(m, s) == [m EXCEPT !.score = s, !.age = "fresh"]

Ended(m, s, h) ==
    [m EXCEPT !.status = "ENDED", !.score = s, !.archive = h, !.age = "fresh"]

\* cancelLive and expireStaleLive
Closed(m) == [m EXCEPT !.status = "ENDED", !.age = "fresh"]

Accepted(m) == [m EXCEPT !.status = "IN_PROGRESS", !.age = "fresh"]

Declined(m, ids) == [m EXCEPT !.declined = ids, !.age = "fresh"]

Shared(m, t) == [m EXCEPT !.token = t, !.age = "fresh"]

-----------------------------------------------------------------------------
(* Steps shared by the handlers.                                           *)

At(q, pc) == [q EXCEPT !.pc = pc]

Holding(q, h, pc) == [q EXCEPT !.hist = h, !.pc = pc]

Probed(q, left) ==
    [q EXCEPT !.todo = left, !.pc = IF left = {} THEN "startInsert" ELSE @]

\* Slot r starts handling a request, with the locals of q.
Serve(r, q) ==
    /\ req[r].pc = "idle"
    /\ req' = [req EXCEPT ![r] = q]
    /\ UNCHANGED <<row, history, refused, closing, lost>>

\* The handler in slot r goes on with its next call.
Goto(r, pc) == req' = [req EXCEPT ![r] = At(@, pc)]

\* The handler in slot r answers.
Reply(r) == req' = [req EXCEPT ![r] = Idle]

\* expireStaleLive: one UPDATE ends every open session nobody touched for a day.
ExpireStale ==
    /\ row' = [l \in Live |-> IF Stale(l) THEN Closed(row[l]) ELSE row[l]]
    /\ closing' = [l \in Live |-> IF Stale(l) THEN [how |-> "expire", by |-> None]
                                  ELSE closing[l]]

-----------------------------------------------------------------------------
(* StartLiveMatch                                                          *)

StartBegin(r, u) ==
    \E p \in Lineup :
        Serve(r, [Idle EXCEPT !.pc = "startExpire", !.user = u, !.ids = p.players,
                              !.todo = p.players \ {u}, !.singles = p.singles])

\* Expiry is best effort: when its UPDATE fails the start goes on.
StartExpire(r) ==
    /\ req[r].pc = "startExpire"
    /\ Goto(r, IF req[r].todo = {} THEN "startInsert" ELSE "startProbe")
    /\ \/ ExpireStale
       \/ UNCHANGED <<row, closing>>
    /\ UNCHANGED <<history, refused, lost>>

\* One query per invitee; a session already open with one of them is a conflict.
StartProbe(r) ==
    /\ req[r].pc = "startProbe"
    /\ \E opp \in req[r].todo :
        IF OpenBetween(req[r].user, opp)
        THEN Reply(r)
        ELSE req' = [req EXCEPT ![r] = Probed(@, @.todo \ {opp})]
    /\ UNCHANGED <<row, history, refused, closing, lost>>

NewRow(q) ==
    [NoRow EXCEPT !.status = IF q.ids \ {q.user} = {} THEN "IN_PROGRESS" ELSE "PENDING",
                  !.by = q.user, !.players = q.ids, !.singles = q.singles]

StartInsert(r) ==
    /\ req[r].pc = "startInsert"
    /\ \E l \in Live :
        /\ row[l].status = "ABSENT"
        /\ row' = [row EXCEPT ![l] = NewRow(req[r])]
    /\ Reply(r)
    /\ UNCHANGED <<history, refused, closing, lost>>

-----------------------------------------------------------------------------
(* UpdateLiveMatch: the score read and merged in memory is written back to *)
(* a session that is still open.                                           *)

UpdateBegin(r, u, l) ==
    /\ row[l].by = u
    /\ Open(row[l])
    /\ \E s \in Score :
        Serve(r, [Idle EXCEPT !.pc = "updateWrite", !.user = u, !.live = l, !.score = s])

\* Broken variant of UpdateWhere: trusts the status that was read before.
UpdateAnyStatus(m) == TRUE

\* The WHERE clause of updateLiveScore
UpdateWhere(m) == Open(m)

UpdateWrite(r) ==
    /\ req[r].pc = "updateWrite"
    /\ row' = [row EXCEPT ![req[r].live] =
                IF UpdateWhere(@) THEN Scored(@, req[r].score) ELSE @]
    /\ Reply(r)
    /\ UNCHANGED <<history, refused, closing, lost>>

-----------------------------------------------------------------------------
(* EndLiveMatch: the creator's final score.  Whether the account may keep  *)
(* history is the billing gate's answer; without it the session just ends. *)

EndBegin(r, u, l) ==
    /\ row[l].by = u
    /\ \E s \in Score, pc \in {"endArchive", "endFinish"} :
        Serve(r, [Idle EXCEPT !.pc = pc, !.user = u, !.live = l, !.score = s])

\* The history row is inserted before the session is ended.
EndArchive(r) ==
    /\ req[r].pc = "endArchive"
    /\ \E h \in Hist :
        /\ history[h].live = None
        /\ history' = [history EXCEPT ![h] = [live |-> req[r].live, score |-> req[r].score,
                                              rated |-> FALSE]]
        /\ req' = [req EXCEPT ![r] =
                    Holding(@, h, IF Rateable(row[@.live]) THEN "endRate" ELSE "endFinish")]
    /\ UNCHANGED <<row, refused, closing, lost>>

EndRate(r) ==
    /\ req[r].pc = "endRate"
    /\ history' = [history EXCEPT ![req[r].hist].rated = TRUE]
    /\ Goto(r, "endFinish")
    /\ UNCHANGED <<row, refused, closing, lost>>

\* Broken variants of EndWhere: a retry ends the session once more; only a
\* running session can be ended.
EndAnyStatus(m) == TRUE
EndOnlyRunning(m) == m.status = "IN_PROGRESS"

\* The WHERE clause of endLive
EndWhere(m) == Open(m)

EndFinish(r) ==
    LET q == req[r] IN
    /\ q.pc = "endFinish"
    /\ IF EndWhere(row[q.live])
       THEN /\ row' = [row EXCEPT ![q.live] = Ended(@, q.score, q.hist)]
            /\ closing' = [closing EXCEPT ![q.live] = [how |-> "end", by |-> q.user]]
       ELSE UNCHANGED <<row, closing>>
    /\ Reply(r)
    /\ UNCHANGED <<history, refused, lost>>

-----------------------------------------------------------------------------
(* CancelLiveMatch: the creator any open session, a registered opponent    *)
(* only a running one.                                                     *)

\* Broken variant of MayCancel: opponents cancel whatever is open.
MayCancelOpen(u, m) == (m.by = u \/ Opponent(u, m)) /\ Open(m)

MayCancel(u, m) ==
    \/ m.by = u /\ Open(m)
    \/ Opponent(u, m) /\ m.status = "IN_PROGRESS"

CancelBegin(r, u, l) ==
    /\ MayCancel(u, row[l])
    /\ Serve(r, [Idle EXCEPT !.pc = "cancelWrite", !.user = u, !.live = l])

\* cancelLive: the UPDATE behind a cancel and behind a last decline
CancelLive(l, how, u) ==
    IF Open(row[l])
    THEN /\ row' = [row EXCEPT ![l] = Closed(@)]
         /\ closing' = [closing EXCEPT ![l] = [how |-> how, by |-> u]]
    ELSE UNCHANGED <<row, closing>>

CancelWrite(r) ==
    /\ req[r].pc = "cancelWrite"
    /\ CancelLive(req[r].live, "cancel", req[r].user)
    /\ Reply(r)
    /\ UNCHANGED <<history, refused, lost>>

-----------------------------------------------------------------------------
(* AcceptLiveMatch and DeclineLiveMatch: an invitee who has not declined   *)
(* answers a pending invitation.                                           *)

MayAnswer(u, m) == Opponent(u, m) /\ m.status = "PENDING" /\ u \notin m.declined

AcceptBegin(r, u, l) ==
    /\ MayAnswer(u, row[l])
    /\ Serve(r, [Idle EXCEPT !.pc = "acceptWrite", !.user = u, !.live = l])

AcceptWrite(r) ==
    /\ req[r].pc = "acceptWrite"
    /\ row' = [row EXCEPT ![req[r].live] =
                IF @.status = "PENDING" THEN Accepted(@) ELSE @]
    /\ Reply(r)
    /\ UNCHANGED <<history, refused, closing, lost>>

\* Broken variant of NobodyRemains: the first decline ends a doubles invitation.
FirstDeclineEnds(m, declined) == declined # {}

\* remainingAfter is empty
NobodyRemains(m, declined) == Invitees(m) \subseteq declined

\* The list to write back is computed from the row that was read; when nobody
\* would remain, the handler ends the session instead.
DeclineBegin(r, u, l) ==
    LET next == row[l].declined \cup {u} IN
    /\ MayAnswer(u, row[l])
    /\ Serve(r, [Idle EXCEPT !.user = u, !.live = l, !.ids = next,
                             !.pc = IF NobodyRemains(row[l], next) THEN "declineClose"
                                    ELSE "declineSet"])

\* setDeclined replaces the whole list of a pending session.
DeclineSet(r) ==
    LET q == req[r] IN
    /\ q.pc = "declineSet"
    /\ IF row[q.live].status = "PENDING"
       THEN /\ row' = [row EXCEPT ![q.live] = Declined(@, q.ids)]
            /\ refused' = [refused EXCEPT ![q.live] = @ \cup {q.user}]
       ELSE UNCHANGED <<row, refused>>
    /\ Reply(r)
    /\ UNCHANGED <<history, closing, lost>>

DeclineClose(r) ==
    LET q == req[r] IN
    /\ q.pc = "declineClose"
    /\ CancelLive(q.live, "decline", q.user)
    /\ refused' = [refused EXCEPT ![q.live] = IF Open(row[q.live]) THEN @ \cup {q.user} ELSE @]
    /\ Reply(r)
    /\ UNCHANGED <<history, lost>>

-----------------------------------------------------------------------------
(* ShareLiveMatch: a session without a token gets one that was drawn at    *)
(* random; the write has no condition on the status or on the token.       *)

ShareBegin(r, u, l) ==
    /\ row[l].by = u
    /\ row[l].token = None
    /\ \E t \in Token :
        /\ \A k \in Live : row[k].token # t
        /\ \A s \in Req : req[s].token # t
        /\ Serve(r, [Idle EXCEPT !.pc = "shareWrite", !.user = u, !.live = l, !.token = t])

ShareWrite(r) ==
    /\ req[r].pc = "shareWrite"
    /\ row' = [row EXCEPT ![req[r].live] = Shared(@, req[r].token)]
    /\ Reply(r)
    /\ UNCHANGED <<history, refused, closing, lost>>

-----------------------------------------------------------------------------
(* Reads, time and failures.                                               *)

\* GetLiveMatch and ListMyOpenLiveMatches close stale sessions before they read.
Browse ==
    /\ \E l \in Live : Stale(l)
    /\ ExpireStale
    /\ UNCHANGED <<history, req, refused, lost>>

Aged(m, a) == [m EXCEPT !.age = a]

\* Nearly a day goes by without a touch of l.  No handler runs that long.
DayPasses(l) ==
    /\ Open(row[l]) /\ row[l].age = "fresh"
    /\ \A r \in Req : req[r].pc = "idle"
    /\ row' = [row EXCEPT ![l] = Aged(@, "old")]
    /\ UNCHANGED <<history, req, refused, closing, lost>>

\* The last moment of the day may fall between two calls of a handler.
TurnStale(l) ==
    /\ Open(row[l]) /\ row[l].age = "old"
    /\ row' = [row EXCEPT ![l] = Aged(@, "stale")]
    /\ UNCHANGED <<history, req, refused, closing, lost>>

\* The client disconnects, the database refuses a call, or the process stops:
\* the handler ends there and what it wrote stays written.
Die(r) ==
    /\ req[r].pc # "idle"
    /\ lost' = lost \cup ({req[r].hist} \ {None})
    /\ Reply(r)
    /\ UNCHANGED <<row, history, refused, closing>>

-----------------------------------------------------------------------------

Init ==
    /\ row = [l \in Live |-> NoRow]
    /\ history = [h \in Hist |-> NoHist]
    /\ req = [r \in Req |-> Idle]
    /\ refused = [l \in Live |-> {}]
    /\ closing = [l \in Live |-> [how |-> "none", by |-> None]]
    /\ lost = {}

\* A request on session l reaches a free slot.
Begin(r, u, l) ==
    \/ UpdateBegin(r, u, l)
    \/ EndBegin(r, u, l)
    \/ CancelBegin(r, u, l)
    \/ AcceptBegin(r, u, l)
    \/ DeclineBegin(r, u, l)
    \/ ShareBegin(r, u, l)

\* The handler in slot r makes its next database call.
Call(r) ==
    \/ StartExpire(r)
    \/ StartProbe(r)
    \/ StartInsert(r)
    \/ UpdateWrite(r)
    \/ EndArchive(r)
    \/ EndRate(r)
    \/ EndFinish(r)
    \/ CancelWrite(r)
    \/ AcceptWrite(r)
    \/ DeclineSet(r)
    \/ DeclineClose(r)
    \/ ShareWrite(r)

Next ==
    \/ \E r \in Req, u \in Scorer : StartBegin(r, u)
    \/ \E r \in Req, u \in User, l \in Live : Begin(r, u, l)
    \/ \E r \in Req : Call(r) \/ Die(r)
    \/ Browse
    \/ \E l \in Live : DayPasses(l) \/ TurnStale(l)

Spec == Init /\ [][Next]_vars

-----------------------------------------------------------------------------
(* Properties.                                                             *)

\* A session that points to a history row has ended, the row was written for
\* this very session, and both show the same final score: EndLiveMatch may run
\* twice at once, and neither run may link the other's row.
LinkSound ==
    \A l \in Live :
        LET h == row[l].archive IN
        h # None => /\ row[l].status = "ENDED"
                    /\ history[h].live = l
                    /\ history[h].score = row[l].score

\* An invitation is ended by a decline only when every invitee was told that
\* his decline succeeded, although declines work on lists read earlier and
\* overwrite one another.
DeclineUnanimous ==
    \A l \in Live :
        closing[l].how = "decline" => Invitees(row[l]) \subseteq refused[l]

\* A registered opponent ends only sessions that are running, never an
\* invitation: CancelLiveMatch checks the status when it reads the row and the
\* UPDATE accepts a pending one too.
OpponentEndsOnlyPlay ==
    [][\A l \in Live :
        (/\ closing'[l] # closing[l]
         /\ closing'[l].how = "cancel"
         /\ closing'[l].by # row[l].by) => row[l].status = "IN_PROGRESS"]_vars

\* Unless its handler died half way, a history row that the session does not
\* point to is still held by its handler, or the session ended another way.
HistoryAccounted ==
    \A h \in Hist \ lost :
        LET l == history[h].live IN
        l # None => \/ row[l].archive = h
                    \/ row[l].status = "ENDED"
                    \/ \E r \in Req : req[r].hist = h

PhaseOf(m) ==
    CASE m.status = "ABSENT" -> "none"
      [] m.status = "PENDING" -> "invited"
      [] m.status = "IN_PROGRESS" -> "playing"
      [] m.status = "ENDED" -> "over"

Session == INSTANCE LiveSession WITH
    phase  <- [l \in Live |-> PhaseOf(row[l])],
    score  <- [l \in Live |-> row[l].score],
    record <- [l \in Live |-> row[l].archive]

\* Every session keeps the promise of LiveSession whatever requests race on it:
\* it is over once, and then its score and its history row stay as they are.
ImplementsSession == Session!Spec

-----------------------------------------------------------------------------
(* The inductive invariant behind these properties.                        *)

\* A row that was never inserted is empty, and nothing is known of it.
AbsentIsEmpty ==
    \A l \in Live :
        row[l].status = "ABSENT" => row[l] = NoRow /\ refused[l] = {}

\* A session has a closing exactly when it has ended.
ClosedIsEnded ==
    \A l \in Live : closing[l].how # "none" <=> row[l].status = "ENDED"

\* The declined list names nobody who was not told that his decline succeeded.
DeclinedIsTrue == \A l \in Live : row[l].declined \subseteq refused[l]

OnSession == Step \ {"idle", "startExpire", "startProbe", "startInsert"}

\* What a handler still knows when it makes its write: the session exists, the
\* history row it holds is its own, the opponent who cancels saw it running,
\* and the list of a decline adds only the caller to declines that succeeded.
LocalSound(q) ==
    LET m == row[q.live] IN
    /\ q.pc \in OnSession => q.live \in Live /\ m.status # "ABSENT"
    /\ q.hist # None => /\ q.pc \in {"endRate", "endFinish"}
                        /\ history[q.hist].live = q.live
                        /\ history[q.hist].score = q.score
    /\ q.pc = "endRate" => q.hist # None
    /\ q.pc = "cancelWrite" /\ q.user # m.by => m.status # "PENDING"
    /\ q.pc \in {"declineSet", "declineClose"} => q.ids \subseteq refused[q.live] \cup {q.user}
    /\ q.pc = "declineClose" => Invitees(m) \subseteq q.ids

LocalsSound == \A r \in Req : LocalSound(req[r])

IInv ==
    /\ TypeOK
    /\ AbsentIsEmpty
    /\ ClosedIsEnded
    /\ DeclinedIsTrue
    /\ LocalsSound
    /\ LinkSound
    /\ DeclineUnanimous
    /\ HistoryAccounted

=============================================================================
