-------------------------- MODULE LiveScore_proofs --------------------------
(***************************************************************************)
(* Proofs about a live score: the sessions of LiveMatch, for every number  *)
(* of users, sessions, history rows and requests in flight; then the hub   *)
(* that streams their events, SseHub.  The two share no state.             *)
(***************************************************************************)
EXTENDS LiveMatch, SseHub, TLAPS

USE ConstantsAssumption

-----------------------------------------------------------------------------
(* Rows and requests are well formed, and so is what the code makes of     *)
(* them.                                                                   *)

LEMMA IdleTyped == Idle \in Request /\ Idle \in Locals
BY DEF Idle, Request, Locals, Step

LEMMA NoRowTyped == NoRow \in Row
BY DEF NoRow, Row

LEMMA NewRowTyped == \A q \in Request : NewRow(q) \in Row
BY DEF NewRow, NoRow, Row, Request, Locals

LEMMA LocalsUpdates ==
    ASSUME NEW q \in Request, q.pc # "idle"
    PROVE  /\ \A pc \in Step : At(q, pc) \in Request
           /\ \A pc \in Step, h \in Hist : Holding(q, h, pc) \in Request
           /\ \A D \in SUBSET User : Probed(q, D) \in Request
<1>1. q \in Locals /\ q.user \in User
  BY DEF Request
<1>2. ASSUME NEW pc \in Step
      PROVE  At(q, pc) \in Locals /\ At(q, pc).user = q.user
  BY <1>1 DEF At, Locals
<1>3. ASSUME NEW pc \in Step, NEW h \in Hist
      PROVE  Holding(q, h, pc) \in Locals /\ Holding(q, h, pc).user = q.user
  BY <1>1 DEF Holding, Locals
<1>4. ASSUME NEW D \in SUBSET User
      PROVE  Probed(q, D) \in Locals /\ Probed(q, D).user = q.user
  BY <1>1 DEF Probed, Locals, Step
<1> QED BY <1>1, <1>2, <1>3, <1>4 DEF Request

-----------------------------------------------------------------------------
(* Type correctness.                                                       *)

LEMMA ServeTyped ==
    ASSUME TypeOK, NEW r \in Req, NEW q \in Request, Serve(r, q)
    PROVE  TypeOK'
BY DEF TypeOK, Serve

LEMMA ReplyTyped ==
    ASSUME TypeOK, NEW r \in Req, Reply(r)
    PROVE  req' \in [Req -> Request]
BY IdleTyped DEF TypeOK, Reply

LEMMA GotoTyped ==
    ASSUME TypeOK, NEW r \in Req, req[r].pc # "idle", NEW pc \in Step, Goto(r, pc)
    PROVE  req' \in [Req -> Request]
BY LocalsUpdates DEF TypeOK, Goto

\* What the slot that makes a call holds.
LEMMA LocalsTyped ==
    ASSUME TypeOK, NEW r \in Req
    PROVE  /\ req[r] \in Request
           /\ req[r].user \in User \cup {None}
           /\ req[r].live \in Live \cup {None}
           /\ req[r].ids \in SUBSET User
           /\ req[r].todo \in SUBSET User
           /\ req[r].score \in Score
           /\ req[r].hist \in Hist \cup {None}
           /\ req[r].token \in Token \cup {None}
           /\ req[r].pc # "idle" => req[r].user \in User
BY DEF TypeOK, Request, Locals

LEMMA ExpireTyped ==
    ASSUME TypeOK, ExpireStale
    PROVE  row' \in [Live -> Row] /\ closing' \in [Live -> Closing]
<1>1. \A m \in Row : Closed(m) \in Row
  BY DEF Closed, Row
<1> QED BY <1>1 DEF TypeOK, ExpireStale, Closing

LEMMA CloseTyped ==
    ASSUME TypeOK, NEW r \in Req, NEW how \in {"cancel", "decline"},
           CancelLive(req[r].live, how, req[r].user)
    PROVE  row' \in [Live -> Row] /\ closing' \in [Live -> Closing]
<1>1. \A m \in Row : Closed(m) \in Row
  BY DEF Closed, Row
<1>2. row' \in [Live -> Row]
  BY <1>1 DEF TypeOK, CancelLive
<1>3. closing' \in [Live -> Closing]
  BY LocalsTyped DEF TypeOK, CancelLive, Closing
<1> QED BY <1>2, <1>3

LEMMA BeginTyped ==
    ASSUME TypeOK, NEW r \in Req, NEW u \in User, NEW l \in Live, Begin(r, u, l)
    PROVE  TypeOK'
<1> SUFFICES \E q \in Request : Serve(r, q)
  BY ServeTyped
<1>1. CASE UpdateBegin(r, u, l)
  BY <1>1, IdleTyped DEF UpdateBegin, Request, Locals, Step
<1>2. CASE EndBegin(r, u, l)
  BY <1>2, IdleTyped DEF EndBegin, Request, Locals, Step
<1>3. CASE CancelBegin(r, u, l)
  BY <1>3, IdleTyped DEF CancelBegin, Request, Locals, Step
<1>4. CASE AcceptBegin(r, u, l)
  BY <1>4, IdleTyped DEF AcceptBegin, Request, Locals, Step
<1>5. CASE DeclineBegin(r, u, l)
  <2>1. row[l].declined \cup {u} \in SUBSET User
    BY DEF TypeOK, Row
  <2> QED BY <1>5, <2>1, IdleTyped DEF DeclineBegin, Request, Locals, Step
<1>6. CASE ShareBegin(r, u, l)
  <2>1. PICK t \in Token : Serve(r, [Idle EXCEPT !.pc = "shareWrite", !.user = u,
                                                 !.live = l, !.token = t])
    BY <1>6 DEF ShareBegin
  <2>2. [Idle EXCEPT !.pc = "shareWrite", !.user = u, !.live = l, !.token = t] \in Request
    BY IdleTyped DEF Request, Locals, Step
  <2> QED BY <2>1, <2>2
<1> QED BY <1>1, <1>2, <1>3, <1>4, <1>5, <1>6 DEF Begin

LEMMA CallTyped ==
    ASSUME TypeOK, NEW r \in Req, Call(r)
    PROVE  TypeOK'
<1>1. CASE StartExpire(r)
  <2>1. req' \in [Req -> Request]
    BY <1>1, GotoTyped DEF StartExpire, Step
  <2> QED BY <1>1, <2>1, ExpireTyped DEF StartExpire, TypeOK
<1>2. CASE StartProbe(r)
  <2>1. PICK opp \in req[r].todo :
          IF OpenBetween(req[r].user, opp) THEN Reply(r)
          ELSE req' = [req EXCEPT ![r] = Probed(@, @.todo \ {opp})]
    BY <1>2 DEF StartProbe
  <2>2. Probed(req[r], req[r].todo \ {opp}) \in Request
    BY <1>2, LocalsUpdates, LocalsTyped DEF StartProbe
  <2>3. req' \in [Req -> Request]
    BY <2>1, <2>2, ReplyTyped DEF TypeOK
  <2> QED BY <1>2, <2>3 DEF StartProbe, TypeOK
<1>3. CASE StartInsert(r)
  <2>1. NewRow(req[r]) \in Row
    BY NewRowTyped, LocalsTyped
  <2>2. row' \in [Live -> Row]
    BY <1>3, <2>1 DEF StartInsert, TypeOK
  <2> QED BY <1>3, <2>2, ReplyTyped DEF StartInsert, TypeOK
<1>4. CASE UpdateWrite(r)
  <2>1. \A m \in Row : Scored(m, req[r].score) \in Row
    BY LocalsTyped DEF Scored, Row
  <2>2. row' \in [Live -> Row]
    BY <1>4, <2>1 DEF UpdateWrite, TypeOK
  <2> QED BY <1>4, <2>2, ReplyTyped DEF UpdateWrite, TypeOK
<1>5. CASE EndArchive(r)
  <2>1. PICK h \in Hist :
          /\ history' = [history EXCEPT ![h] = [live |-> req[r].live, score |-> req[r].score,
                                                rated |-> FALSE]]
          /\ req' = [req EXCEPT ![r] =
                      Holding(@, h, IF Rateable(row[@.live]) THEN "endRate" ELSE "endFinish")]
    BY <1>5 DEF EndArchive
  <2>2. history' \in [Hist -> HistRow]
    BY <2>1, LocalsTyped DEF TypeOK, HistRow
  <2>3. \A pc \in Step : Holding(req[r], h, pc) \in Request
    BY <1>5, LocalsUpdates, LocalsTyped DEF EndArchive
  <2>4. (IF Rateable(row[req[r].live]) THEN "endRate" ELSE "endFinish") \in Step
    BY DEF Step
  <2>5. req' \in [Req -> Request]
    BY <2>1, <2>3, <2>4 DEF TypeOK
  <2> QED BY <1>5, <2>2, <2>5 DEF EndArchive, TypeOK
<1>6. CASE EndRate(r)
  <2>1. history' \in [Hist -> HistRow]
    BY <1>6 DEF EndRate, TypeOK, HistRow
  <2> QED BY <1>6, <2>1, GotoTyped DEF EndRate, TypeOK, Step
<1>7. CASE EndFinish(r)
  <2>1. \A m \in Row : Ended(m, req[r].score, req[r].hist) \in Row
    BY LocalsTyped DEF Ended, Row
  <2>2. row' \in [Live -> Row]
    BY <1>7, <2>1 DEF EndFinish, TypeOK
  <2>3. closing' \in [Live -> Closing]
    BY <1>7, LocalsTyped DEF EndFinish, TypeOK, Closing
  <2> QED BY <1>7, <2>2, <2>3, ReplyTyped DEF EndFinish, TypeOK
<1>8. CASE CancelWrite(r)
  BY <1>8, CloseTyped, ReplyTyped DEF CancelWrite, TypeOK
<1>9. CASE AcceptWrite(r)
  <2>1. \A m \in Row : Accepted(m) \in Row
    BY DEF Accepted, Row
  <2>2. row' \in [Live -> Row]
    BY <1>9, <2>1 DEF AcceptWrite, TypeOK
  <2> QED BY <1>9, <2>2, ReplyTyped DEF AcceptWrite, TypeOK
<1>10. CASE DeclineSet(r)
  <2>1. \A m \in Row : Declined(m, req[r].ids) \in Row
    BY LocalsTyped DEF Declined, Row
  <2>2. row' \in [Live -> Row]
    BY <1>10, <2>1 DEF DeclineSet, TypeOK
  <2>3. refused' \in [Live -> SUBSET User]
    BY <1>10, LocalsTyped DEF DeclineSet, TypeOK
  <2> QED BY <1>10, <2>2, <2>3, ReplyTyped DEF DeclineSet, TypeOK
<1>11. CASE DeclineClose(r)
  <2>1. row' \in [Live -> Row] /\ closing' \in [Live -> Closing]
    BY <1>11, CloseTyped DEF DeclineClose
  <2>2. refused' \in [Live -> SUBSET User]
    <3>1. req[r].user \in User
      BY <1>11, LocalsTyped DEF DeclineClose
    <3>2. refused' = [refused EXCEPT ![req[r].live] =
                        IF Open(row[req[r].live]) THEN @ \cup {req[r].user} ELSE @]
      BY <1>11 DEF DeclineClose
    <3> QED BY <3>1, <3>2 DEF TypeOK
  <2> QED BY <1>11, <2>1, <2>2, ReplyTyped DEF DeclineClose, TypeOK
<1>12. CASE ShareWrite(r)
  <2>1. \A m \in Row : Shared(m, req[r].token) \in Row
    BY LocalsTyped DEF Shared, Row
  <2>2. row' \in [Live -> Row]
    BY <1>12, <2>1 DEF ShareWrite, TypeOK
  <2> QED BY <1>12, <2>2, ReplyTyped DEF ShareWrite, TypeOK
<1> QED
  BY <1>1, <1>2, <1>3, <1>4, <1>5, <1>6, <1>7, <1>8, <1>9, <1>10, <1>11, <1>12 DEF Call

LEMMA NextTyped ==
    ASSUME TypeOK, [Next]_vars
    PROVE  TypeOK'
<1>1. ASSUME NEW r \in Req, NEW u \in Scorer, StartBegin(r, u)
      PROVE  TypeOK'
  <2>1. PICK p \in Lineup :
          Serve(r, [Idle EXCEPT !.pc = "startExpire", !.user = u, !.ids = p.players,
                                !.todo = p.players \ {u}, !.singles = p.singles])
    BY <1>1 DEF StartBegin
  <2>2. p.players \in SUBSET User /\ p.singles \in BOOLEAN /\ u \in User
    BY DEF ConstantsAssumption
  <2>3. [Idle EXCEPT !.pc = "startExpire", !.user = u, !.ids = p.players,
                     !.todo = p.players \ {u}, !.singles = p.singles] \in Request
    BY <2>2, IdleTyped DEF Request, Locals, Step
  <2> QED BY <2>1, <2>3, ServeTyped
<1>2. ASSUME NEW r \in Req, Die(r)
      PROVE  TypeOK'
  <2>1. lost' \subseteq Hist
    BY <1>2, LocalsTyped DEF Die, TypeOK
  <2> QED BY <1>2, <2>1, ReplyTyped DEF Die, TypeOK
<1>3. ASSUME Browse
      PROVE  TypeOK'
  BY <1>3, ExpireTyped DEF Browse, TypeOK
<1>4. ASSUME NEW l \in Live, DayPasses(l) \/ TurnStale(l)
      PROVE  TypeOK'
  <2>1. \A m \in Row : Aged(m, "old") \in Row /\ Aged(m, "stale") \in Row
    BY DEF Aged, Row
  <2>2. row' \in [Live -> Row]
    BY <1>4, <2>1 DEF DayPasses, TurnStale, TypeOK
  <2> QED BY <1>4, <2>2 DEF DayPasses, TurnStale, TypeOK
<1>5. CASE UNCHANGED vars
  BY <1>5 DEF vars, TypeOK
<1> QED BY <1>1, <1>2, <1>3, <1>4, <1>5, BeginTyped, CallTyped DEF Next

LEMMA InitTyped == Init => TypeOK
BY IdleTyped, NoRowTyped DEF Init, TypeOK, HistRow, NoHist, Closing

\* In every reachable state the tables, the handlers' local variables and what
\* was observed are of the types the schema and the code give them.
THEOREM TypeCorrect == Spec => []TypeOK
<1>1. Init => TypeOK
  BY InitTyped
<1>2. TypeOK /\ [Next]_vars => TypeOK'
  BY NextTyped
<1> QED BY <1>1, <1>2, PTL DEF Spec

-----------------------------------------------------------------------------
(* What each SET clause leaves alone.                                      *)

SamePeople(m, n) == n.by = m.by /\ n.players = m.players

LEMMA SetClauses ==
    ASSUME NEW m \in Row, NEW s, NEW h, NEW t, NEW D, NEW a
    PROVE  /\ /\ SamePeople(m, Scored(m, s)) /\ Scored(m, s).status = m.status
              /\ Scored(m, s).declined = m.declined /\ Scored(m, s).archive = m.archive
              /\ Scored(m, s).score = s
           /\ /\ SamePeople(m, Ended(m, s, h)) /\ Ended(m, s, h).status = "ENDED"
              /\ Ended(m, s, h).declined = m.declined /\ Ended(m, s, h).archive = h
              /\ Ended(m, s, h).score = s
           /\ /\ SamePeople(m, Closed(m)) /\ Closed(m).status = "ENDED"
              /\ Closed(m).declined = m.declined /\ Closed(m).archive = m.archive
              /\ Closed(m).score = m.score
           /\ /\ SamePeople(m, Accepted(m)) /\ Accepted(m).status = "IN_PROGRESS"
              /\ Accepted(m).declined = m.declined /\ Accepted(m).archive = m.archive
              /\ Accepted(m).score = m.score
           /\ /\ SamePeople(m, Declined(m, D)) /\ Declined(m, D).status = m.status
              /\ Declined(m, D).declined = D /\ Declined(m, D).archive = m.archive
              /\ Declined(m, D).score = m.score
           /\ /\ SamePeople(m, Shared(m, t)) /\ Shared(m, t).status = m.status
              /\ Shared(m, t).declined = m.declined /\ Shared(m, t).archive = m.archive
              /\ Shared(m, t).score = m.score
           /\ /\ SamePeople(m, Aged(m, a)) /\ Aged(m, a).status = m.status
              /\ Aged(m, a).declined = m.declined /\ Aged(m, a).archive = m.archive
              /\ Aged(m, a).score = m.score
BY DEF Row, SamePeople, Scored, Ended, Closed, Accepted, Declined, Shared, Aged


-----------------------------------------------------------------------------
(* What no step undoes.                                                    *)

\* Who plays in a session never changes, it never becomes an invitation again,
\* and once it has ended its score and its history row stay.
RowKept(l) ==
    /\ row[l].status # "ABSENT" => /\ SamePeople(row[l], row'[l])
                                   /\ row'[l].status # "ABSENT"
    /\ row[l].status \notin {"ABSENT", "PENDING"} => row'[l].status # "PENDING"
    /\ row[l].status = "ENDED" => /\ row'[l].status = "ENDED"
                                  /\ row'[l].archive = row[l].archive
                                  /\ row'[l].score = row[l].score

\* A written history row keeps its session and its score.
HistKept(h) ==
    history[h].live # None => /\ history'[h].live = history[h].live
                              /\ history'[h].score = history[h].score

Kept ==
    /\ \A l \in Live : RowKept(l) /\ refused[l] \subseteq refused'[l]
    /\ \A h \in Hist : HistKept(h)

\* The parts of IInv that speak of the tables, for one session.
SessionSound(l) ==
    /\ row[l].status = "ABSENT" => row[l] = NoRow /\ refused[l] = {}
    /\ closing[l].how # "none" <=> row[l].status = "ENDED"
    /\ row[l].declined \subseteq refused[l]
    /\ row[l].archive # None => /\ row[l].status = "ENDED"
                                /\ history[row[l].archive].live = l
                                /\ history[row[l].archive].score = row[l].score
    /\ closing[l].how = "decline" => Invitees(row[l]) \subseteq refused[l]

LEMMA SessionsSound ==
    (\A l \in Live : SessionSound(l))
      <=> AbsentIsEmpty /\ ClosedIsEnded /\ DeclinedIsTrue /\ LinkSound /\ DeclineUnanimous
BY DEF SessionSound, AbsentIsEmpty, ClosedIsEnded, DeclinedIsTrue, LinkSound, DeclineUnanimous

LEMMA SessionsSoundNext ==
    (\A l \in Live : SessionSound(l)')
      <=> (AbsentIsEmpty /\ ClosedIsEnded /\ DeclinedIsTrue /\ LinkSound /\ DeclineUnanimous)'
BY DEF SessionSound, AbsentIsEmpty, ClosedIsEnded, DeclinedIsTrue, LinkSound, DeclineUnanimous

\* A step that leaves the row of a session alone, or changes only its token or
\* its age, or its score while it is open, keeps the session sound.
Alike(m, n) ==
    /\ SamePeople(m, n)
    /\ n.status = m.status
    /\ n.declined = m.declined
    /\ n.archive = m.archive
    /\ n.score = m.score \/ Open(m)

LEMMA AlikeSound ==
    ASSUME TypeOK, NEW l \in Live, SessionSound(l),
           Alike(row[l], row'[l]), row'[l] = row[l] \/ row[l].status # "ABSENT",
           closing'[l] = closing[l], refused'[l] = refused[l],
           \A h \in Hist : HistKept(h)
    PROVE  RowKept(l) /\ SessionSound(l)'
<1>1. RowKept(l)
  BY DEF RowKept, Alike, SamePeople, Open
<1>2. row[l].archive # None => row[l].archive \in Hist
  BY DEF TypeOK, Row
<1>3. row[l].archive # None => /\ history'[row[l].archive].live = l
                               /\ history'[row[l].archive].score = row[l].score
  BY <1>2, ConstantsAssumption DEF SessionSound, HistKept
<1> QED BY <1>1, <1>3 DEF SessionSound, Alike, SamePeople, Open, Invitees

LEMMA SameAlike == \A m \in Row : Alike(m, m)
BY DEF Alike, SamePeople

\* Ending an open session, however it is done, keeps it sound.
LEMMA EndedSound ==
    ASSUME TypeOK, NEW l \in Live, SessionSound(l), Open(row[l]),
           SamePeople(row[l], row'[l]), row'[l].status = "ENDED",
           row'[l].declined = row[l].declined,
           closing'[l].how # "none", refused[l] \subseteq refused'[l],
           closing'[l].how = "decline" => Invitees(row[l]) \subseteq refused'[l],
           row'[l].archive # None => /\ history'[row'[l].archive].live = l
                                     /\ history'[row'[l].archive].score = row'[l].score
    PROVE  RowKept(l) /\ SessionSound(l)'
BY DEF SessionSound, RowKept, SamePeople, Open, Invitees

-----------------------------------------------------------------------------
(* What a step preserves once Kept is known.                               *)

\* What a handler knows stays true while other handlers work.
LEMMA LocalKept ==
    ASSUME TypeOK, Kept, NEW s \in Req, LocalSound(req[s]), req'[s] = req[s]
    PROVE  LocalSound(req[s])'
<1>1. req[s].hist # None => req[s].hist \in Hist
  BY LocalsTyped
<1>2. CASE req[s].pc \in OnSession
  <2>1. req[s].live \in Live /\ row[req[s].live].status # "ABSENT"
    BY <1>2 DEF LocalSound
  <2>2. RowKept(req[s].live) /\ refused[req[s].live] \subseteq refused'[req[s].live]
    BY <2>1 DEF Kept
  <2>3. /\ row[req[s].live].status \in {"ABSENT", "PENDING", "IN_PROGRESS", "ENDED"}
        /\ req[s].live # None
    BY <2>1, ConstantsAssumption DEF TypeOK, Row
  <2>4. req[s].hist # None => HistKept(req[s].hist)
    BY <1>1 DEF Kept
  <2> QED BY <2>1, <2>2, <2>3, <2>4 DEF LocalSound, RowKept, HistKept, SamePeople, Invitees
<1>3. CASE req[s].pc \notin OnSession
  BY <1>3 DEF LocalSound, OnSession, Step
<1> QED BY <1>2, <1>3

LEMMA IdleSound ==
    ASSUME NEW r \in Req, req'[r] = Idle
    PROVE  LocalSound(req[r])'
BY DEF LocalSound, Idle, OnSession, Step

\* A step of slot r keeps every handler sound if it keeps its own sound.
LEMMA OthersSound ==
    ASSUME TypeOK, Kept, LocalsSound, NEW r \in Req,
           \A s \in Req \ {r} : req'[s] = req[s],
           LocalSound(req[r])'
    PROVE  LocalsSound'
BY LocalKept DEF LocalsSound

\* No step loses track of a history row, if a handler lets go of the row it
\* holds only by dying or after its session has ended.
LEMMA AccountedKept ==
    ASSUME TypeOK, Kept, LocalsSound, HistoryAccounted, \A l \in Live : SessionSound(l)',
           \A l \in Live : SessionSound(l), lost \subseteq lost',
           \A h \in Hist : \/ history'[h].live = history[h].live
                           \/ history[h].live = None /\ \E r \in Req : req'[r].hist = h,
           \A r \in Req : \/ req[r].hist \in {None} \cup lost'
                          \/ req'[r].hist = req[r].hist
                          \/ row'[req[r].live].status = "ENDED"
    PROVE  HistoryAccounted'
<1> SUFFICES ASSUME NEW h \in Hist \ lost', history'[h].live # None
             PROVE  \/ row'[history'[h].live].archive = h
                    \/ row'[history'[h].live].status = "ENDED"
                    \/ \E r \in Req : req'[r].hist = h
  BY DEF HistoryAccounted
<1>1. CASE history[h].live = None
  BY <1>1
<1>2. CASE history[h].live # None
  <2> DEFINE l == history[h].live
  <2>1. history'[h].live = l /\ l \in Live /\ h # None
    BY <1>2, ConstantsAssumption DEF TypeOK, HistRow, Kept, HistKept
  <2>2. RowKept(l) /\ SessionSound(l)
    BY <2>1 DEF Kept
  <2>3. CASE row[l].archive = h
    BY <2>1, <2>2, <2>3 DEF RowKept, SessionSound
  <2>4. CASE row[l].status = "ENDED"
    BY <2>1, <2>2, <2>4 DEF RowKept
  <2>5. CASE \E r \in Req : req[r].hist = h
    <3>1. PICK r \in Req : req[r].hist = h
      BY <2>5
    <3>2. req[r].live = l
      BY <3>1, <2>1 DEF LocalsSound, LocalSound
    <3> QED BY <3>1, <3>2, <2>1
  <2> QED BY <1>2, <2>3, <2>4, <2>5 DEF HistoryAccounted
<1> QED BY <1>1, <1>2

\* The parts of IInv besides the types, in the form the steps use.
Sound ==
    /\ \A l \in Live : SessionSound(l)
    /\ LocalsSound
    /\ HistoryAccounted

LEMMA SoundIsIInv == IInv <=> TypeOK /\ Sound
BY SessionsSound DEF IInv, Sound

LEMMA SoundIsIInvNext == IInv' <=> TypeOK' /\ Sound'
BY SessionsSoundNext DEF IInv, Sound

\* A step that changes tables only alike, and whose slot r drops nothing.
LEMMA QuietStep ==
    ASSUME TypeOK, Sound, NEW r \in Req,
           \A l \in Live : /\ Alike(row[l], row'[l])
                           /\ row'[l] = row[l] \/ row[l].status # "ABSENT",
           closing' = closing, refused' = refused, history' = history, lost \subseteq lost',
           \A s \in Req \ {r} : req'[s] = req[s],
           LocalSound(req[r])',
           req[r].hist \in {None} \cup lost'
    PROVE  Sound' /\ Kept
<1>1. \A h \in Hist : HistKept(h)
  BY DEF HistKept
<1>2. \A l \in Live : RowKept(l) /\ SessionSound(l)'
  BY <1>1, AlikeSound DEF Sound
<1>3. Kept
  BY <1>1, <1>2 DEF Kept
<1>4. LocalsSound'
  BY <1>3, OthersSound DEF Sound
<1>5. HistoryAccounted'
  BY <1>2, <1>3, AccountedKept DEF Sound
<1> QED BY <1>2, <1>3, <1>4, <1>5 DEF Sound

-----------------------------------------------------------------------------
(* Every step keeps the invariant.                                         *)

LEMMA ServeSound ==
    ASSUME TypeOK, Sound, NEW r \in Req, NEW q \in Request, Serve(r, q), LocalSound(q)
    PROVE  Sound' /\ Kept
<1>1. req'[r] = q /\ \A s \in Req \ {r} : req'[s] = req[s]
  BY DEF Serve, TypeOK
<1>2. LocalSound(req[r])'
  BY <1>1 DEF Serve, LocalSound
<1>3. req[r].hist = None
  BY DEF Serve, Sound, LocalsSound, LocalSound
<1>4. \A l \in Live : Alike(row[l], row'[l]) /\ row'[l] = row[l]
  BY SameAlike DEF Serve, TypeOK
<1> QED BY <1>1, <1>2, <1>3, <1>4, QuietStep DEF Serve

\* The checks a handler makes on the row it reads establish what it relies on.
LEMMA BeginSound ==
    ASSUME TypeOK, Sound, NEW r \in Req, NEW u \in User, NEW l \in Live, Begin(r, u, l)
    PROVE  Sound' /\ Kept
<1> SUFFICES \E q \in Request : Serve(r, q) /\ LocalSound(q)
  BY ServeSound
<1>1. /\ u # None /\ l # None
      /\ row[l] \in Row /\ row[l].declined \subseteq refused[l]
      /\ row[l].status = "ABSENT" => row[l].by = None /\ row[l].players = {}
  BY ConstantsAssumption DEF Sound, SessionSound, TypeOK, NoRow
<1>2. CASE UpdateBegin(r, u, l)
  <2>1. PICK s \in Score :
          Serve(r, [Idle EXCEPT !.pc = "updateWrite", !.user = u, !.live = l, !.score = s])
    BY <1>2 DEF UpdateBegin
  <2> DEFINE q == [Idle EXCEPT !.pc = "updateWrite", !.user = u, !.live = l, !.score = s]
  <2>2. q \in Request
    BY IdleTyped DEF Request, Locals, Step
  <2>3. LocalSound(q)
    BY <1>1, <1>2 DEF UpdateBegin, LocalSound, Idle
  <2> QED BY <2>1, <2>2, <2>3
<1>3. CASE EndBegin(r, u, l)
  <2>1. PICK s \in Score, pc \in {"endArchive", "endFinish"} :
          Serve(r, [Idle EXCEPT !.pc = pc, !.user = u, !.live = l, !.score = s])
    BY <1>3 DEF EndBegin
  <2> DEFINE q == [Idle EXCEPT !.pc = pc, !.user = u, !.live = l, !.score = s]
  <2>2. q \in Request
    BY IdleTyped DEF Request, Locals, Step
  <2>3. LocalSound(q)
    BY <1>1, <1>3 DEF EndBegin, LocalSound, Idle
  <2> QED BY <2>1, <2>2, <2>3
<1>4. CASE CancelBegin(r, u, l)
  <2> DEFINE q == [Idle EXCEPT !.pc = "cancelWrite", !.user = u, !.live = l]
  <2>1. q \in Request
    BY IdleTyped DEF Request, Locals, Step
  <2>2. LocalSound(q)
    BY <1>1, <1>4 DEF CancelBegin, MayCancel, Opponent, LocalSound, Idle
  <2> QED BY <1>4, <2>1, <2>2 DEF CancelBegin
<1>5. CASE AcceptBegin(r, u, l)
  <2> DEFINE q == [Idle EXCEPT !.pc = "acceptWrite", !.user = u, !.live = l]
  <2>1. q \in Request
    BY IdleTyped DEF Request, Locals, Step
  <2>2. LocalSound(q)
    BY <1>1, <1>5 DEF AcceptBegin, MayAnswer, LocalSound, Idle
  <2> QED BY <1>5, <2>1, <2>2 DEF AcceptBegin
<1>6. CASE DeclineBegin(r, u, l)
  <2> DEFINE next == row[l].declined \cup {u}
             pc == IF NobodyRemains(row[l], next) THEN "declineClose" ELSE "declineSet"
             q == [Idle EXCEPT !.user = u, !.live = l, !.ids = next, !.pc = pc]
  <2>1. next \in SUBSET User /\ next \subseteq refused[l] \cup {u}
    BY <1>1 DEF Row
  <2>2. pc = "declineClose" => Invitees(row[l]) \subseteq next
    BY DEF NobodyRemains
  <2>3. pc \in {"declineClose", "declineSet"}
    OBVIOUS
  <2> HIDE DEF next, pc
  <2>4. q \in Request
    BY <2>1, <2>3, IdleTyped DEF Request, Locals, Step
  <2>5. q.pc = pc /\ q.live = l /\ q.user = u /\ q.ids = next /\ q.hist = None
    BY DEF Idle
  <2>6. LocalSound(q)
    BY <1>1, <1>6, <2>1, <2>2, <2>3, <2>5 DEF DeclineBegin, MayAnswer, LocalSound
  <2> QED BY <1>6, <2>4, <2>6 DEF DeclineBegin, next, pc
<1>7. CASE ShareBegin(r, u, l)
  <2>1. PICK t \in Token : Serve(r, [Idle EXCEPT !.pc = "shareWrite", !.user = u,
                                                 !.live = l, !.token = t])
    BY <1>7 DEF ShareBegin
  <2> DEFINE q == [Idle EXCEPT !.pc = "shareWrite", !.user = u, !.live = l, !.token = t]
  <2>2. q \in Request
    BY IdleTyped DEF Request, Locals, Step
  <2>3. LocalSound(q)
    BY <1>1, <1>7 DEF ShareBegin, LocalSound, Idle
  <2> QED BY <2>1, <2>2, <2>3
<1> QED BY <1>2, <1>3, <1>4, <1>5, <1>6, <1>7 DEF Begin

\* The one UPDATE that ends stale sessions.
LEMMA ExpireSound ==
    ASSUME TypeOK, \A l \in Live : SessionSound(l), ExpireStale,
           refused' = refused, history' = history
    PROVE  (\A l \in Live : SessionSound(l)') /\ Kept
<1>1. \A h \in Hist : HistKept(h)
  BY DEF HistKept
<1>2. ASSUME NEW l \in Live
      PROVE  RowKept(l) /\ SessionSound(l)'
  <2>1. CASE Stale(l)
    <3>1. row'[l] = Closed(row[l]) /\ closing'[l] = [how |-> "expire", by |-> None]
      BY <2>1 DEF ExpireStale
    <3>2. row[l] \in Row /\ Open(row[l])
      BY <2>1 DEF TypeOK, Stale
    <3>3. /\ SamePeople(row[l], row'[l]) /\ row'[l].status = "ENDED"
          /\ row'[l].declined = row[l].declined /\ row'[l].archive = row[l].archive
          /\ closing'[l].how = "expire"
      BY <3>1, <3>2, SetClauses
    <3>4. row'[l].archive = None
      BY <3>2, <3>3 DEF SessionSound, Open
    <3> QED BY <3>2, <3>3, <3>4, EndedSound
  <2>2. CASE ~Stale(l)
    <3>1. row'[l] = row[l] /\ closing'[l] = closing[l]
      BY <2>2 DEF ExpireStale
    <3>2. row[l] \in Row
      BY DEF TypeOK
    <3> QED BY <3>1, <3>2, <1>1, SameAlike, AlikeSound
  <2> QED BY <2>1, <2>2
<1> QED BY <1>1, <1>2 DEF Kept

\* A session that a cancel or the last decline closes.
LEMMA CloseSound ==
    ASSUME TypeOK, \A l \in Live : SessionSound(l), NEW k \in Live, NEW u,
           NEW how \in {"cancel", "decline"}, CancelLive(k, how, u),
           history' = history,
           \A l \in Live : refused[l] \subseteq refused'[l],
           \A l \in Live \ {k} : refused'[l] = refused[l],
           ~Open(row[k]) => refused'[k] = refused[k],
           Open(row[k]) /\ how = "decline" => Invitees(row[k]) \subseteq refused'[k]
    PROVE  (\A l \in Live : SessionSound(l)') /\ Kept
<1>1. \A h \in Hist : HistKept(h)
  BY DEF HistKept
<1>2. ASSUME NEW l \in Live, ~(l = k /\ Open(row[k]))
      PROVE  RowKept(l) /\ SessionSound(l)'
  <2>1. row'[l] = row[l] /\ closing'[l] = closing[l] /\ refused'[l] = refused[l]
    BY <1>2 DEF CancelLive, TypeOK
  <2>2. row[l] \in Row
    BY DEF TypeOK
  <2> QED BY <2>1, <2>2, <1>1, SameAlike, AlikeSound
<1>3. ASSUME Open(row[k])
      PROVE  RowKept(k) /\ SessionSound(k)'
  <2>1. row'[k] = Closed(row[k]) /\ closing'[k] = [how |-> how, by |-> u] /\ row[k] \in Row
    BY <1>3 DEF CancelLive, TypeOK
  <2>2. /\ SamePeople(row[k], row'[k]) /\ row'[k].status = "ENDED"
        /\ row'[k].declined = row[k].declined /\ row'[k].archive = row[k].archive
    BY <2>1, SetClauses
  <2>3. row'[k].archive = None
    BY <1>3, <2>2 DEF SessionSound, Open
  <2> QED BY <1>3, <2>1, <2>2, <2>3, EndedSound
<1> QED BY <1>1, <1>2, <1>3 DEF Kept

\* A step that replies to slot r, which held no history row, and ended sessions.
LEMMA RepliedSound ==
    ASSUME TypeOK, Sound, NEW r \in Req, Reply(r), req[r].hist = None,
           (\A l \in Live : SessionSound(l)') /\ Kept,
           history' = history, lost' = lost
    PROVE  Sound' /\ Kept
<1>1. req'[r] = Idle /\ \A s \in Req \ {r} : req'[s] = req[s]
  BY DEF Reply, TypeOK
<1>2. LocalsSound'
  BY <1>1, IdleSound, OthersSound DEF Sound
<1>3. HistoryAccounted'
  BY <1>1, AccountedKept DEF Sound
<1> QED BY <1>2, <1>3 DEF Sound

\* A write of slot r that leaves its session alike, and then replies.
LEMMA WriteSound ==
    ASSUME TypeOK, Sound, NEW r \in Req, req[r].pc \in OnSession, req[r].hist = None, Reply(r),
           NEW n, row' = [row EXCEPT ![req[r].live] = n],
           Alike(row[req[r].live], n),
           UNCHANGED <<history, refused, closing, lost>>
    PROVE  Sound' /\ Kept
<1>1. req'[r] = Idle /\ \A s \in Req \ {r} : req'[s] = req[s]
  BY DEF Reply, TypeOK
<1>2. req[r].live \in Live /\ row[req[r].live].status # "ABSENT"
  BY DEF Sound, LocalsSound, LocalSound
<1>3. \A l \in Live : /\ Alike(row[l], row'[l])
                      /\ row'[l] = row[l] \/ row[l].status # "ABSENT"
  BY <1>2, SameAlike DEF TypeOK
<1> QED BY <1>1, <1>3, IdleSound, QuietStep

LEMMA StartSound ==
    ASSUME TypeOK, Sound, NEW r \in Req, StartExpire(r) \/ StartProbe(r) \/ StartInsert(r)
    PROVE  Sound' /\ Kept
<1>1. req[r].hist = None /\ LocalSound(req[r])
  BY DEF Sound, LocalsSound, LocalSound, StartExpire, StartProbe, StartInsert
<1>2. CASE StartExpire(r)
  <2> DEFINE pc == IF req[r].todo = {} THEN "startInsert" ELSE "startProbe"
  <2>1. req[r] \in Locals
    BY LocalsTyped DEF Request
  <2>2. At(req[r], pc).pc \in {"startInsert", "startProbe"} /\ At(req[r], pc).hist = None
    BY <1>1, <2>1 DEF At, Locals
  <2>3. req'[r] = At(req[r], pc) /\ \A s \in Req \ {r} : req'[s] = req[s]
    BY <1>2 DEF StartExpire, Goto, TypeOK
  <2>4. LocalSound(req[r])'
    BY <2>2, <2>3 DEF LocalSound, OnSession
  <2>5. CASE UNCHANGED <<row, closing>>
    <3>1. \A l \in Live : Alike(row[l], row'[l]) /\ row'[l] = row[l]
      BY <2>5, SameAlike DEF TypeOK
    <3> QED BY <1>1, <1>2, <2>3, <2>4, <2>5, <3>1, QuietStep DEF StartExpire
  <2>6. CASE ExpireStale
    <3>1. (\A l \in Live : SessionSound(l)') /\ Kept
      BY <1>2, <2>6, ExpireSound DEF StartExpire, Sound
    <3>2. LocalsSound'
      BY <2>3, <2>4, <3>1, OthersSound DEF Sound
    <3>3. HistoryAccounted'
      BY <1>1, <1>2, <2>3, <3>1, AccountedKept DEF StartExpire, Sound
    <3> QED BY <3>1, <3>2, <3>3 DEF Sound
  <2> QED BY <1>2, <2>5, <2>6 DEF StartExpire
<1>3. CASE StartProbe(r)
  <2>1. PICK opp \in req[r].todo :
          IF OpenBetween(req[r].user, opp) THEN Reply(r)
          ELSE req' = [req EXCEPT ![r] = Probed(@, @.todo \ {opp})]
    BY <1>3 DEF StartProbe
  <2> DEFINE q == Probed(req[r], req[r].todo \ {opp})
  <2>2. req[r] \in Locals
    BY LocalsTyped DEF Request
  <2>3. q.pc \in {"startInsert", "startProbe"} /\ q.hist = None
    BY <1>1, <1>3, <2>2 DEF Probed, Locals, StartProbe
  <2>4. req'[r] \in {Idle, q} /\ \A s \in Req \ {r} : req'[s] = req[s]
    BY <2>1 DEF Reply, TypeOK
  <2> HIDE DEF q
  <2>5. LocalSound(req[r])'
    BY <2>3, <2>4, IdleSound DEF LocalSound, OnSession
  <2>6. \A l \in Live : Alike(row[l], row'[l]) /\ row'[l] = row[l]
    BY <1>3, SameAlike DEF TypeOK, StartProbe
  <2> QED BY <1>1, <1>3, <2>4, <2>5, <2>6, QuietStep DEF StartProbe
<1>4. CASE StartInsert(r)
  <2>1. PICK k \in Live :
          row[k].status = "ABSENT" /\ row' = [row EXCEPT ![k] = NewRow(req[r])]
    BY <1>4 DEF StartInsert
  <2>2. /\ row'[k] = NewRow(req[r]) /\ row'[k].status \in {"PENDING", "IN_PROGRESS"}
        /\ row'[k].declined = {} /\ row'[k].archive = None
    BY <2>1 DEF TypeOK, NewRow, NoRow
  <2>3. \A h \in Hist : HistKept(h)
    BY <1>4 DEF HistKept, StartInsert
  <2>4. closing[k].how = "none"
    BY <2>1 DEF Sound, SessionSound, TypeOK, Closing
  <2>5. RowKept(k) /\ SessionSound(k)'
    BY <1>4, <2>1, <2>2, <2>4 DEF RowKept, SessionSound, StartInsert
  <2>6. \A l \in Live \ {k} : RowKept(l) /\ SessionSound(l)'
    BY <1>4, <2>1, <2>3, SameAlike, AlikeSound DEF TypeOK, Sound, StartInsert
  <2>7. Kept
    BY <1>4, <2>3, <2>5, <2>6 DEF Kept, StartInsert
  <2> QED BY <1>1, <1>4, <2>5, <2>6, <2>7, RepliedSound DEF StartInsert
<1> QED BY <1>2, <1>3, <1>4

LEMMA AnswerSound ==
    ASSUME TypeOK, Sound, NEW r \in Req,
           \/ UpdateWrite(r) \/ CancelWrite(r) \/ AcceptWrite(r)
           \/ DeclineSet(r) \/ DeclineClose(r) \/ ShareWrite(r)
    PROVE  Sound' /\ Kept
<1> DEFINE q == req[r]
<1>1. q.hist = None /\ q.pc \in OnSession /\ LocalSound(q)
  BY DEF Sound, LocalsSound, LocalSound, OnSession, Step, UpdateWrite, CancelWrite, AcceptWrite,
         DeclineSet, DeclineClose, ShareWrite
<1>2. PICK k \in Live : k = q.live /\ row[k] \in Row /\ row[k].status # "ABSENT"
  BY <1>1 DEF LocalSound, TypeOK
<1>3. CASE UpdateWrite(r)
  <2> DEFINE n == IF UpdateWhere(row[k]) THEN Scored(row[k], q.score) ELSE row[k]
  <2>1. row' = [row EXCEPT ![k] = n]
    BY <1>2, <1>3 DEF UpdateWrite
  <2>2. Alike(row[k], n)
    BY <1>2, SetClauses, SameAlike DEF Alike, UpdateWhere
  <2> QED BY <1>1, <1>2, <1>3, <2>1, <2>2, WriteSound DEF UpdateWrite
<1>4. CASE CancelWrite(r)
  <2>1. (\A l \in Live : SessionSound(l)') /\ Kept
    BY <1>2, <1>4, CloseSound DEF CancelWrite, Sound
  <2> QED BY <1>1, <1>4, <2>1, RepliedSound DEF CancelWrite
<1>5. CASE AcceptWrite(r)
  <2>1. CASE row[k].status # "PENDING"
    BY <1>1, <1>2, <1>5, <2>1, SameAlike, WriteSound DEF AcceptWrite
  <2>2. CASE row[k].status = "PENDING"
    <3>1. row'[k] = Accepted(row[k]) /\ \A l \in Live \ {k} : row'[l] = row[l]
      BY <1>2, <1>5, <2>2 DEF AcceptWrite, TypeOK
    <3>2. /\ SamePeople(row[k], row'[k]) /\ row'[k].status = "IN_PROGRESS"
          /\ row'[k].declined = row[k].declined /\ row'[k].archive = row[k].archive
      BY <1>2, <3>1, SetClauses
    <3>3. \A h \in Hist : HistKept(h)
      BY <1>5 DEF HistKept, AcceptWrite
    <3>4. UNCHANGED <<history, refused, closing, lost>> /\ Reply(r)
      BY <1>5 DEF AcceptWrite
    <3>5. SessionSound(k) /\ closing[k].how = "none"
      BY <1>2, <2>2 DEF Sound, SessionSound
    <3>6. RowKept(k)
      BY <2>2, <3>2 DEF RowKept
    <3>7. SessionSound(k)'
      BY <2>2, <3>2, <3>4, <3>5 DEF SessionSound
    <3>8. \A l \in Live \ {k} : RowKept(l) /\ SessionSound(l)'
      BY <1>5, <3>1, <3>3, SameAlike, AlikeSound DEF TypeOK, Sound, AcceptWrite
    <3>9. (\A l \in Live : SessionSound(l)') /\ Kept
      BY <3>3, <3>4, <3>6, <3>7, <3>8 DEF Kept
    <3> QED BY <1>1, <3>4, <3>9, RepliedSound
  <2> QED BY <2>1, <2>2
<1>6. CASE DeclineSet(r)
  <2>1. CASE row[k].status # "PENDING"
    <3>1. row' = row /\ refused' = refused
      BY <1>2, <1>6, <2>1 DEF DeclineSet
    <3>2. row' = [row EXCEPT ![k] = row[k]]
      BY <3>1 DEF TypeOK
    <3> QED BY <1>1, <1>2, <1>6, <3>1, <3>2, SameAlike, WriteSound DEF DeclineSet
  <2>2. CASE row[k].status = "PENDING"
    <3>1. /\ row'[k] = Declined(row[k], q.ids) /\ \A l \in Live \ {k} : row'[l] = row[l]
          /\ refused'[k] = refused[k] \cup {q.user}
          /\ \A l \in Live \ {k} : refused'[l] = refused[l]
      BY <1>2, <1>6, <2>2 DEF DeclineSet, TypeOK
    <3>2. /\ SamePeople(row[k], row'[k]) /\ row'[k].status = "PENDING"
          /\ row'[k].declined = q.ids /\ row'[k].archive = row[k].archive
      BY <1>2, <2>2, <3>1, SetClauses
    <3>3. \A h \in Hist : HistKept(h)
      BY <1>6 DEF HistKept, DeclineSet
    <3>4. q.ids \subseteq refused'[k]
      BY <1>1, <1>2, <1>6, <3>1 DEF LocalSound, DeclineSet
    <3>5. UNCHANGED <<history, closing, lost>> /\ Reply(r)
      BY <1>6 DEF DeclineSet
    <3>6. SessionSound(k) /\ closing[k].how = "none" /\ row[k].archive = None
      BY <1>2, <2>2 DEF Sound, SessionSound
    <3>7. RowKept(k)
      BY <2>2, <3>2 DEF RowKept
    <3>8. SessionSound(k)'
      BY <3>2, <3>4, <3>5, <3>6 DEF SessionSound
    <3>9. \A l \in Live \ {k} : RowKept(l) /\ SessionSound(l)'
      BY <1>6, <3>1, <3>3, SameAlike, AlikeSound DEF TypeOK, Sound, DeclineSet
    <3>10. (\A l \in Live : SessionSound(l)') /\ Kept
      BY <3>1, <3>3, <3>7, <3>8, <3>9 DEF Kept
    <3> QED BY <1>1, <3>5, <3>10, RepliedSound
  <2> QED BY <2>1, <2>2
<1>7. CASE DeclineClose(r)
  <2>1. refused'[k] = (IF Open(row[k]) THEN refused[k] \cup {q.user} ELSE refused[k])
    BY <1>2, <1>7 DEF DeclineClose, TypeOK
  <2>2. \A l \in Live \ {k} : refused'[l] = refused[l]
    BY <1>2, <1>7 DEF DeclineClose, TypeOK
  <2>3. Open(row[k]) => Invitees(row[k]) \subseteq refused'[k]
    BY <1>1, <1>2, <1>7, <2>1 DEF LocalSound, DeclineClose
  <2>4. \A l \in Live : refused[l] \subseteq refused'[l]
    BY <2>1, <2>2
  <2>5. CancelLive(k, "decline", q.user) /\ history' = history /\ Reply(r) /\ lost' = lost
    BY <1>2, <1>7 DEF DeclineClose
  <2>6. (\A l \in Live : SessionSound(l)') /\ Kept
    BY <1>2, <2>1, <2>2, <2>3, <2>4, <2>5, CloseSound DEF Sound
  <2> QED BY <1>1, <2>5, <2>6, RepliedSound
<1>8. CASE ShareWrite(r)
  <2>1. Alike(row[k], Shared(row[k], q.token))
    BY <1>2, SetClauses DEF Alike
  <2> QED BY <1>1, <1>2, <1>8, <2>1, WriteSound DEF ShareWrite
<1> QED BY <1>3, <1>4, <1>5, <1>6, <1>7, <1>8

LEMMA EndSound ==
    ASSUME TypeOK, Sound, NEW r \in Req, EndArchive(r) \/ EndRate(r) \/ EndFinish(r)
    PROVE  Sound' /\ Kept
<1> DEFINE q == req[r]
<1>1. q \in Locals /\ LocalSound(q) /\ q.pc \in {"endArchive", "endRate", "endFinish"}
  BY LocalsTyped DEF Sound, LocalsSound, Request, EndArchive, EndRate, EndFinish
<1>2. PICK k \in Live : k = q.live /\ row[k] \in Row /\ row[k].status # "ABSENT"
  BY <1>1 DEF LocalSound, TypeOK, OnSession, Step
<1>3. q.hist # None => q.hist \in Hist /\ history[q.hist].live = k /\ history[q.hist].score = q.score
  BY <1>1, <1>2 DEF LocalSound, Locals
<1>4. CASE EndArchive(r)
  <2>1. PICK h \in Hist :
          /\ history[h].live = None
          /\ history' = [history EXCEPT ![h] = [live |-> req[r].live, score |-> req[r].score,
                                                rated |-> FALSE]]
          /\ req' = [req EXCEPT ![r] =
                      Holding(@, h, IF Rateable(row[@.live]) THEN "endRate" ELSE "endFinish")]
    BY <1>4 DEF EndArchive
  <2> DEFINE pc == IF Rateable(row[k]) THEN "endRate" ELSE "endFinish"
  <2>2. /\ history'[h].live = k /\ history'[h].score = q.score
        /\ \A g \in Hist \ {h} : history'[g] = history[g]
    BY <1>2, <2>1 DEF TypeOK
  <2>3. req'[r] = Holding(q, h, pc) /\ \A s \in Req \ {r} : req'[s] = req[s]
    BY <1>2, <2>1 DEF TypeOK
  <2>4. /\ Holding(q, h, pc).pc \in {"endRate", "endFinish"} /\ Holding(q, h, pc).hist = h
        /\ Holding(q, h, pc).live = k /\ Holding(q, h, pc).score = q.score
    BY <1>1, <1>2 DEF Holding, Locals
  <2>5. /\ req'[r].pc \in {"endRate", "endFinish"} /\ req'[r].hist = h
        /\ req'[r].live = k /\ req'[r].score = q.score
    BY <2>3, <2>4
  <2>6. UNCHANGED <<row, refused, closing, lost>> /\ q.hist = None
    BY <1>1, <1>4 DEF EndArchive, LocalSound
  <2>7. LocalSound(req[r])'
    BY <1>2, <2>2, <2>5, <2>6, ConstantsAssumption DEF LocalSound
  <2>8. \A g \in Hist : HistKept(g)
    BY <2>1, <2>2 DEF HistKept
  <2>9. \A l \in Live : RowKept(l) /\ SessionSound(l)'
    BY <2>6, <2>8, SameAlike, AlikeSound DEF Sound, TypeOK
  <2>10. Kept
    BY <2>6, <2>8, <2>9 DEF Kept
  <2>11. LocalsSound'
    BY <2>3, <2>7, <2>10, OthersSound DEF Sound
  <2>12. HistoryAccounted'
    BY <2>1, <2>2, <2>3, <2>5, <2>6, <2>9, <2>10, AccountedKept DEF Sound
  <2> QED BY <2>9, <2>10, <2>11, <2>12 DEF Sound
<1>5. CASE EndRate(r)
  <2>1. UNCHANGED <<row, refused, closing, lost>> /\ q.hist # None
    BY <1>1, <1>5 DEF EndRate, LocalSound
  <2>2. \A g \in Hist : history'[g].live = history[g].live /\ history'[g].score = history[g].score
    BY <1>5 DEF EndRate, TypeOK, HistRow
  <2>3. req'[r] = At(q, "endFinish") /\ \A s \in Req \ {r} : req'[s] = req[s]
    BY <1>5 DEF EndRate, Goto, TypeOK
  <2>4. /\ At(q, "endFinish").pc = "endFinish" /\ At(q, "endFinish").hist = q.hist
        /\ At(q, "endFinish").live = q.live /\ At(q, "endFinish").score = q.score
    BY <1>1 DEF At, Locals
  <2>5. /\ req'[r].pc = "endFinish" /\ req'[r].hist = req[r].hist
        /\ req'[r].live = k /\ req'[r].score = req[r].score
    BY <1>2, <2>3, <2>4
  <2>6. LocalSound(req[r])'
    BY <1>2, <1>3, <2>1, <2>2, <2>5 DEF LocalSound
  <2>7. \A g \in Hist : HistKept(g)
    BY <2>2 DEF HistKept
  <2>8. \A l \in Live : RowKept(l) /\ SessionSound(l)'
    BY <2>1, <2>7, SameAlike, AlikeSound DEF Sound, TypeOK
  <2>9. Kept
    BY <2>1, <2>7, <2>8 DEF Kept
  <2>10. LocalsSound'
    BY <2>3, <2>6, <2>9, OthersSound DEF Sound
  <2>11. HistoryAccounted'
    BY <2>1, <2>2, <2>3, <2>5, <2>8, <2>9, AccountedKept DEF Sound
  <2> QED BY <2>8, <2>9, <2>10, <2>11 DEF Sound
<1>6. CASE EndFinish(r)
  <2>1. UNCHANGED <<history, refused, lost>> /\ req'[r] = Idle /\ \A s \in Req \ {r} : req'[s] = req[s]
    BY <1>6 DEF EndFinish, Reply, TypeOK
  <2>2. \A g \in Hist : HistKept(g)
    BY <2>1 DEF HistKept
  <2>3. \A l \in Live \ {k} : row'[l] = row[l] /\ closing'[l] = closing[l]
    BY <1>2, <1>6 DEF EndFinish, TypeOK
  <2>4. \A l \in Live \ {k} : RowKept(l) /\ SessionSound(l)'
    BY <2>1, <2>2, <2>3, SameAlike, AlikeSound DEF Sound, TypeOK
  <2>5. RowKept(k) /\ SessionSound(k)' /\ row'[k].status = "ENDED"
    <3>1. CASE Open(row[k])
      <4>1. row'[k] = Ended(row[k], q.score, q.hist) /\ closing'[k] = [how |-> "end", by |-> q.user]
        BY <1>2, <1>6, <3>1 DEF EndFinish, EndWhere, TypeOK
      <4>2. /\ SamePeople(row[k], row'[k]) /\ row'[k].status = "ENDED"
            /\ row'[k].declined = row[k].declined
            /\ row'[k].archive = q.hist /\ row'[k].score = q.score
        BY <1>2, <4>1, SetClauses
      <4>3. closing'[k].how = "end"
        BY <4>1
      <4>4. row'[k].archive # None => /\ history'[row'[k].archive].live = k
                                      /\ history'[row'[k].archive].score = row'[k].score
        BY <1>3, <2>1, <4>2
      <4>5. SessionSound(k) /\ refused'[k] = refused[k]
        BY <2>1 DEF Sound
      <4> QED BY <3>1, <4>2, <4>3, <4>4, <4>5, EndedSound
    <3>2. CASE ~Open(row[k])
      <4>1. row'[k] = row[k] /\ closing'[k] = closing[k]
        BY <1>2, <1>6, <3>2 DEF EndFinish, EndWhere
      <4>2. row[k].status = "ENDED"
        BY <1>2, <3>2 DEF Open, Row
      <4>3. SessionSound(k) /\ refused'[k] = refused[k]
        BY <2>1 DEF Sound
      <4> QED BY <1>2, <2>2, <4>1, <4>2, <4>3, SameAlike, AlikeSound
    <3> QED BY <3>1, <3>2
  <2>6. Kept
    BY <2>1, <2>2, <2>4, <2>5 DEF Kept
  <2>7. LocalsSound'
    BY <2>1, <2>6, IdleSound, OthersSound DEF Sound
  <2>8. HistoryAccounted'
    BY <1>2, <2>1, <2>4, <2>5, <2>6, AccountedKept DEF Sound
  <2> QED BY <2>4, <2>5, <2>6, <2>7, <2>8 DEF Sound
<1> QED BY <1>4, <1>5, <1>6

LEMMA NextSound ==
    ASSUME TypeOK, Sound, [Next]_vars
    PROVE  Sound' /\ Kept
<1>1. ASSUME NEW r \in Req, NEW u \in Scorer, StartBegin(r, u)
      PROVE  Sound' /\ Kept
  <2>1. PICK p \in Lineup :
          Serve(r, [Idle EXCEPT !.pc = "startExpire", !.user = u, !.ids = p.players,
                                !.todo = p.players \ {u}, !.singles = p.singles])
    BY <1>1 DEF StartBegin
  <2> DEFINE q == [Idle EXCEPT !.pc = "startExpire", !.user = u, !.ids = p.players,
                               !.todo = p.players \ {u}, !.singles = p.singles]
  <2>2. p.players \in SUBSET User /\ p.singles \in BOOLEAN /\ u \in User
    BY DEF ConstantsAssumption
  <2>3. q \in Request
    BY <2>2, IdleTyped DEF Request, Locals, Step
  <2>4. LocalSound(q)
    BY DEF LocalSound, Idle, OnSession
  <2> QED BY <2>1, <2>3, <2>4, ServeSound
<1>2. ASSUME NEW r \in Req, Call(r)
      PROVE  Sound' /\ Kept
  BY <1>2, StartSound, AnswerSound, EndSound DEF Call
<1>3. ASSUME NEW r \in Req, Die(r)
      PROVE  Sound' /\ Kept
  <2>1. req'[r] = Idle /\ \A s \in Req \ {r} : req'[s] = req[s]
    BY <1>3 DEF Die, Reply, TypeOK
  <2>2. \A l \in Live : Alike(row[l], row'[l]) /\ row'[l] = row[l]
    BY <1>3, SameAlike DEF Die, TypeOK
  <2>3. UNCHANGED <<history, refused, closing>> /\ lost \subseteq lost'
        /\ req[r].hist \in {None} \cup lost'
    BY <1>3 DEF Die
  <2> QED BY <2>1, <2>2, <2>3, IdleSound, QuietStep
<1>4. ASSUME Browse
      PROVE  Sound' /\ Kept
  <2>1. (\A l \in Live : SessionSound(l)') /\ Kept
    BY <1>4, ExpireSound DEF Browse, Sound
  <2>2. LocalsSound'
    BY <1>4, <2>1, LocalKept DEF Browse, Sound, LocalsSound
  <2>3. HistoryAccounted'
    BY <1>4, <2>1, AccountedKept DEF Browse, Sound
  <2> QED BY <2>1, <2>2, <2>3 DEF Sound
<1>5. ASSUME NEW k \in Live, DayPasses(k) \/ TurnStale(k)
      PROVE  Sound' /\ Kept
  <2>1. UNCHANGED <<history, req, refused, closing, lost>> /\ Open(row[k])
    BY <1>5 DEF DayPasses, TurnStale
  <2>2. \A g \in Hist : HistKept(g)
    BY <2>1 DEF HistKept
  <2>3. row[k] \in Row /\ row[k].status # "ABSENT"
    BY <2>1 DEF TypeOK, Open
  <2>4. row'[k] \in {Aged(row[k], "old"), Aged(row[k], "stale")}
    BY <1>5 DEF DayPasses, TurnStale, TypeOK
  <2>5. Alike(row[k], row'[k])
    BY <2>3, <2>4, SetClauses DEF Alike
  <2>6. \A l \in Live \ {k} : row'[l] = row[l]
    BY <1>5 DEF DayPasses, TurnStale, TypeOK
  <2>7. \A l \in Live : RowKept(l) /\ SessionSound(l)'
    BY <2>1, <2>2, <2>3, <2>5, <2>6, SameAlike, AlikeSound DEF Sound, TypeOK
  <2>8. Kept
    BY <2>1, <2>2, <2>7 DEF Kept
  <2>9. LocalsSound'
    BY <2>1, <2>8, LocalKept DEF Sound, LocalsSound
  <2>10. HistoryAccounted'
    BY <2>1, <2>7, <2>8, AccountedKept DEF Sound
  <2> QED BY <2>7, <2>8, <2>9, <2>10 DEF Sound
<1>6. CASE UNCHANGED vars
  <2>1. \A g \in Hist : HistKept(g)
    BY <1>6 DEF vars, HistKept
  <2>2. \A l \in Live : RowKept(l) /\ SessionSound(l)'
    BY <1>6, <2>1, SameAlike, AlikeSound DEF Sound, TypeOK, vars
  <2>3. Kept
    BY <1>6, <2>1, <2>2 DEF Kept, vars
  <2>4. LocalsSound'
    BY <1>6, <2>3, LocalKept DEF Sound, LocalsSound, vars
  <2>5. HistoryAccounted'
    BY <1>6, <2>2, <2>3, AccountedKept DEF Sound, vars
  <2> QED BY <2>2, <2>3, <2>4, <2>5 DEF Sound
<1> QED BY <1>1, <1>2, <1>3, <1>4, <1>5, <1>6, BeginSound DEF Next

LEMMA InitSound == Init => Sound
<1> SUFFICES ASSUME Init PROVE Sound
  OBVIOUS
<1>1. \A l \in Live : SessionSound(l)
  BY DEF Init, SessionSound, NoRow
<1>2. LocalsSound
  BY DEF Init, LocalsSound, LocalSound, Idle, OnSession
<1>3. HistoryAccounted
  BY DEF Init, HistoryAccounted, NoHist
<1> QED BY <1>1, <1>2, <1>3 DEF Sound

-----------------------------------------------------------------------------
(* The theorems.                                                           *)

\* IInv is inductive: it holds in every reachable state.
THEOREM Inductive == Spec => []IInv
<1>1. Init => IInv
  BY InitTyped, InitSound, SoundIsIInv
<1>2. IInv /\ [Next]_vars => IInv'
  BY NextTyped, NextSound, SoundIsIInv, SoundIsIInvNext
<1> QED BY <1>1, <1>2, PTL DEF Spec

\* A session never points to a history row that another run of EndLiveMatch
\* wrote for another session, nor to one with a different final score.
THEOREM LinkCorrect == Spec => []LinkSound
<1>1. IInv => LinkSound
  BY DEF IInv
<1> QED BY <1>1, Inductive, PTL

\* Declines that overwrite one another never end an invitation that an invitee
\* has not turned down.
THEOREM DeclineCorrect == Spec => []DeclineUnanimous
<1>1. IInv => DeclineUnanimous
  BY DEF IInv
<1> QED BY <1>1, Inductive, PTL

\* History rows that no session points to come from dead handlers or from
\* sessions that ended another way, and from nowhere else.
THEOREM HistoryCorrect == Spec => []HistoryAccounted
<1>1. IInv => HistoryAccounted
  BY DEF IInv
<1> QED BY <1>1, Inductive, PTL

-----------------------------------------------------------------------------
(* The variables of LiveSession as the rows show them.                     *)

phases  == [l \in Live |-> PhaseOf(row[l])]
scores  == [l \in Live |-> row[l].score]
records == [l \in Live |-> row[l].archive]

LEMMA Phases ==
    \A m \in Row : /\ m.status = "ABSENT" <=> PhaseOf(m) = "none"
                   /\ m.status = "PENDING" <=> PhaseOf(m) = "invited"
                   /\ m.status = "IN_PROGRESS" <=> PhaseOf(m) = "playing"
                   /\ m.status = "ENDED" <=> PhaseOf(m) = "over"
                   /\ Open(m) <=> PhaseOf(m) \in {"invited", "playing"}
BY DEF PhaseOf, Row, Open

\* The write of row n over row m, for session k.
Write(k, m, n) == row[k] = m /\ row' = [row EXCEPT ![k] = n]

\* A write to one row shows as a write to one session.
LEMMA OneRow ==
    ASSUME TypeOK, NEW k \in Live, NEW m \in Row, NEW n \in Row,
           Write(k, m, n)
    PROVE  /\ phases' = [phases EXCEPT ![k] = PhaseOf(n)]
           /\ scores' = [scores EXCEPT ![k] = n.score]
           /\ records' = [records EXCEPT ![k] = n.archive]
           /\ PhaseOf(n) = PhaseOf(m) => phases' = phases
           /\ n.score = m.score => scores' = scores
           /\ n.archive = m.archive => records' = records
<1>1. phases' = [phases EXCEPT ![k] = PhaseOf(n)]
  BY DEF TypeOK, Write, phases
<1>2. scores' = [scores EXCEPT ![k] = n.score]
  BY DEF TypeOK, Write, scores
<1>3. records' = [records EXCEPT ![k] = n.archive]
  BY DEF TypeOK, Write, records
<1>4. PhaseOf(n) = PhaseOf(m) => phases' = phases
  BY <1>1 DEF Write, phases
<1>5. n.score = m.score => scores' = scores
  BY <1>2 DEF Write, scores
<1>6. n.archive = m.archive => records' = records
  BY <1>3 DEF Write, records
<1> QED BY <1>1, <1>2, <1>3, <1>4, <1>5, <1>6

\* A step of one session, in the terms of LiveSession.
SessionStep == [Session!Next]_(Session!vars)

LEMMA SessionActions ==
    ASSUME NEW k, NEW p, NEW s, NEW h
    PROVE  /\ Session!Open(k, p) <=>
                phases[k] = "none" /\ phases' = [phases EXCEPT ![k] = p]
                /\ scores' = scores /\ records' = records
           /\ Session!Accept(k) <=>
                phases[k] = "invited" /\ phases' = [phases EXCEPT ![k] = "playing"]
                /\ scores' = scores /\ records' = records
           /\ Session!Play(k, s) <=>
                phases[k] \in {"invited", "playing"} /\ scores' = [scores EXCEPT ![k] = s]
                /\ phases' = phases /\ records' = records
           /\ Session!Finish(k, s) <=>
                phases[k] \in {"invited", "playing"} /\ phases' = [phases EXCEPT ![k] = "over"]
                /\ scores' = [scores EXCEPT ![k] = s] /\ records' = records
           /\ Session!Archive(k, s, h) <=>
                phases[k] \in {"invited", "playing"} /\ (\A l \in Live : records[l] # h)
                /\ phases' = [phases EXCEPT ![k] = "over"]
                /\ scores' = [scores EXCEPT ![k] = s]
                /\ records' = [records EXCEPT ![k] = h]
BY DEF Session!Open, Session!Accept, Session!Play, Session!Finish, Session!Archive,
       Session!IsOpen, phases, scores, records

LEMMA Unseen ==
    ASSUME UNCHANGED row
    PROVE  SessionStep
BY DEF SessionStep, Session!vars

LEMMA OneSession ==
    ASSUME NEW k \in Live,
           \/ \E p \in {"invited", "playing"} : Session!Open(k, p)
           \/ Session!Accept(k)
           \/ \E s \in Score : Session!Play(k, s) \/ Session!Finish(k, s)
           \/ \E s \in Score, h \in Hist : Session!Archive(k, s, h)
    PROVE  SessionStep
BY DEF SessionStep, Session!Next

-----------------------------------------------------------------------------
(* What a write of row n over row m shows of session k.                    *)

LEMMA ShowsOpen ==
    ASSUME TypeOK, NEW k \in Live, NEW m \in Row, NEW n \in Row,
           Write(k, m, n),
           m.status = "ABSENT", n.status \in {"PENDING", "IN_PROGRESS"},
           n.score = m.score, n.archive = m.archive
    PROVE  SessionStep
<1>1. phases[k] = "none" /\ PhaseOf(n) \in {"invited", "playing"}
  BY DEF Write, phases, PhaseOf
<1>2. phases' = [phases EXCEPT ![k] = PhaseOf(n)] /\ scores' = scores /\ records' = records
  BY OneRow
<1>3. Session!Open(k, PhaseOf(n))
  BY <1>1, <1>2, SessionActions
<1> QED BY <1>1, <1>3, OneSession

LEMMA ShowsAccept ==
    ASSUME TypeOK, NEW k \in Live, NEW m \in Row, NEW n \in Row,
           Write(k, m, n),
           m.status = "PENDING", n.status = "IN_PROGRESS",
           n.score = m.score, n.archive = m.archive
    PROVE  SessionStep
<1>1. phases[k] = "invited" /\ PhaseOf(n) = "playing"
  BY DEF Write, phases, PhaseOf
<1>2. phases' = [phases EXCEPT ![k] = "playing"] /\ scores' = scores /\ records' = records
  BY <1>1, OneRow
<1>3. Session!Accept(k)
  BY <1>1, <1>2, SessionActions
<1> QED BY <1>3, OneSession

LEMMA ShowsPlay ==
    ASSUME TypeOK, NEW k \in Live, NEW m \in Row, NEW n \in Row,
           Write(k, m, n),
           Open(m), n.status = m.status, n.archive = m.archive
    PROVE  SessionStep
<1>1. phases[k] \in {"invited", "playing"} /\ PhaseOf(n) = PhaseOf(m)
  BY DEF Write, phases, PhaseOf, Open
<1>2. phases' = phases /\ scores' = [scores EXCEPT ![k] = n.score] /\ records' = records
  BY <1>1, OneRow
<1>3. Session!Play(k, n.score)
  BY <1>1, <1>2, SessionActions
<1>4. n.score \in Score
  BY DEF Row
<1> QED BY <1>3, <1>4, OneSession

LEMMA ShowsFinish ==
    ASSUME TypeOK, NEW k \in Live, NEW m \in Row, NEW n \in Row,
           Write(k, m, n),
           Open(m), n.status = "ENDED", n.archive = m.archive
    PROVE  SessionStep
<1>1. phases[k] \in {"invited", "playing"} /\ PhaseOf(n) = "over"
  BY DEF Write, phases, PhaseOf, Open
<1>2. /\ phases' = [phases EXCEPT ![k] = "over"]
      /\ scores' = [scores EXCEPT ![k] = n.score] /\ records' = records
  BY <1>1, OneRow
<1>3. Session!Finish(k, n.score)
  BY <1>1, <1>2, SessionActions
<1>4. n.score \in Score
  BY DEF Row
<1> QED BY <1>3, <1>4, OneSession

LEMMA ShowsArchive ==
    ASSUME TypeOK, NEW k \in Live, NEW m \in Row, NEW n \in Row,
           Write(k, m, n),
           Open(m), n.status = "ENDED", n.archive \in Hist,
           \A l \in Live : row[l].archive # n.archive
    PROVE  SessionStep
<1>1. phases[k] \in {"invited", "playing"} /\ PhaseOf(n) = "over"
  BY DEF Write, phases, PhaseOf, Open
<1>2. /\ phases' = [phases EXCEPT ![k] = "over"]
      /\ scores' = [scores EXCEPT ![k] = n.score]
      /\ records' = [records EXCEPT ![k] = n.archive]
  BY <1>1, OneRow
<1>3. \A l \in Live : records[l] # n.archive
  BY DEF records
<1>4. Session!Archive(k, n.score, n.archive)
  BY <1>1, <1>2, <1>3, SessionActions
<1>5. n.score \in Score
  BY DEF Row
<1> QED BY <1>4, <1>5, OneSession

LEMMA ShowsNothing ==
    ASSUME TypeOK, NEW k \in Live, NEW m \in Row, NEW n \in Row,
           Write(k, m, n),
           n.status = m.status, n.score = m.score, n.archive = m.archive
    PROVE  SessionStep
<1>1. PhaseOf(n) = PhaseOf(m)
  BY DEF PhaseOf
<1>2. phases' = phases /\ scores' = scores /\ records' = records
  BY <1>1, OneRow
<1>3. UNCHANGED <<phases, scores, records>>
  BY <1>2
<1>4. UNCHANGED Session!vars
  BY <1>3 DEF Session!vars, phases, scores, records
<1> QED BY <1>4 DEF SessionStep

-----------------------------------------------------------------------------
(* Each write of a handler is a step of LiveSession or none.               *)

LEMMA ExpireLapses ==
    ASSUME TypeOK, ExpireStale
    PROVE  SessionStep
<1>1. PICK S \in SUBSET Live : \A l \in Live : l \in S <=> Stale(l)
  <2>1. {l \in Live : Stale(l)} \in SUBSET Live
    OBVIOUS
  <2> QED BY <2>1
<1>2. ASSUME NEW l \in Live
      PROVE  /\ PhaseOf(row'[l]) = IF l \in S THEN "over" ELSE PhaseOf(row[l])
             /\ row'[l].score = row[l].score /\ row'[l].archive = row[l].archive
             /\ l \in S => PhaseOf(row[l]) \in {"invited", "playing"}
  <2>1. row[l] \in Row /\ row'[l] = (IF l \in S THEN Closed(row[l]) ELSE row[l])
    BY <1>1 DEF TypeOK, ExpireStale
  <2>2. PhaseOf(Closed(row[l])) = "over"
    BY <2>1, SetClauses DEF PhaseOf
  <2> QED BY <1>1, <2>1, <2>2, SetClauses, Phases DEF Stale
<1>3. Session!Lapse(S)
  BY <1>2 DEF Session!Lapse, Session!IsOpen
<1> QED BY <1>3 DEF SessionStep, Session!Next

LEMMA CloseFinishes ==
    ASSUME TypeOK, NEW k \in Live, NEW how, NEW u, CancelLive(k, how, u)
    PROVE  SessionStep
<1>1. CASE ~Open(row[k])
  BY <1>1, Unseen DEF CancelLive
<1>2. CASE Open(row[k])
  <2>1. PICK m \in Row : row[k] = m
    BY DEF TypeOK
  <2>2. PICK n \in Row : n = Closed(m)
    BY DEF Closed, Row
  <2>3. row' = [row EXCEPT ![k] = n]
    BY <1>2, <2>1, <2>2 DEF CancelLive
  <2>4. n.status = "ENDED" /\ n.archive = m.archive
    BY <2>2, SetClauses
  <2> QED BY <1>2, <2>1, <2>3, <2>4, ShowsFinish DEF Write
<1> QED BY <1>1, <1>2

LEMMA StartOpens ==
    ASSUME TypeOK, AbsentIsEmpty, NEW r \in Req, StartInsert(r)
    PROVE  SessionStep
<1>1. PICK k \in Live :
        row[k].status = "ABSENT" /\ row' = [row EXCEPT ![k] = NewRow(req[r])]
  BY DEF StartInsert
<1>2. PICK n \in Row : n = NewRow(req[r])
  BY NewRowTyped, LocalsTyped
<1>3. row[k] = NoRow
  BY <1>1 DEF AbsentIsEmpty
<1>4. n.status \in {"PENDING", "IN_PROGRESS"} /\ n.score = NoRow.score /\ n.archive = NoRow.archive
  BY <1>2 DEF NewRow, NoRow
<1> QED BY <1>1, <1>2, <1>3, <1>4, NoRowTyped, ShowsOpen DEF Write

\* The session that a handler works on.
LEMMA Target ==
    ASSUME TypeOK, LocalsSound, NEW r \in Req, req[r].pc \in OnSession
    PROVE  \E k \in Live, m \in Row : req[r].live = k /\ row[k] = m
BY DEF LocalsSound, LocalSound, TypeOK

LEMMA UpdatePlays ==
    ASSUME TypeOK, LocalsSound, NEW r \in Req, UpdateWrite(r)
    PROVE  SessionStep
<1>1. PICK k \in Live, m \in Row : req[r].live = k /\ row[k] = m
  BY Target DEF UpdateWrite, OnSession, Step
<1>2. CASE ~Open(m)
  <2>1. row' = row
    BY <1>1, <1>2 DEF UpdateWrite, UpdateWhere, TypeOK
  <2> QED BY <2>1, Unseen
<1>3. CASE Open(m)
  <2>1. PICK n \in Row : n = Scored(m, req[r].score)
    BY LocalsTyped DEF Scored, Row
  <2>2. row' = [row EXCEPT ![k] = n]
    BY <1>1, <1>3, <2>1 DEF UpdateWrite, UpdateWhere
  <2>3. n.status = m.status /\ n.archive = m.archive
    BY <2>1, SetClauses
  <2> QED BY <1>1, <1>3, <2>2, <2>3, ShowsPlay DEF Write
<1> QED BY <1>2, <1>3

LEMMA AcceptAccepts ==
    ASSUME TypeOK, LocalsSound, NEW r \in Req, AcceptWrite(r)
    PROVE  SessionStep
<1>1. PICK k \in Live, m \in Row : req[r].live = k /\ row[k] = m
  BY Target DEF AcceptWrite, OnSession, Step
<1>2. CASE m.status # "PENDING"
  <2>1. row' = row
    BY <1>1, <1>2 DEF AcceptWrite, TypeOK
  <2> QED BY <2>1, Unseen
<1>3. CASE m.status = "PENDING"
  <2>1. PICK n \in Row : n = Accepted(m)
    BY DEF Accepted, Row
  <2>2. row' = [row EXCEPT ![k] = n]
    BY <1>1, <1>3, <2>1 DEF AcceptWrite
  <2>3. n.status = "IN_PROGRESS" /\ n.score = m.score /\ n.archive = m.archive
    BY <2>1, SetClauses
  <2> QED BY <1>1, <1>3, <2>2, <2>3, ShowsAccept DEF Write
<1> QED BY <1>2, <1>3

LEMMA DeclineAndShareHidden ==
    ASSUME TypeOK, LocalsSound, NEW r \in Req, DeclineSet(r) \/ ShareWrite(r)
    PROVE  SessionStep
<1>1. PICK k \in Live, m \in Row : req[r].live = k /\ row[k] = m
  BY Target DEF DeclineSet, ShareWrite, OnSession, Step
<1>2. CASE row' = row
  BY <1>2, Unseen
<1>3. CASE row' # row
  <2>1. Declined(m, req[r].ids) \in Row /\ Shared(m, req[r].token) \in Row
    BY LocalsTyped DEF Declined, Shared, Row
  <2>2. PICK n \in Row : /\ n \in {Declined(m, req[r].ids), Shared(m, req[r].token)}
                         /\ row' = [row EXCEPT ![k] = n]
    BY <1>1, <1>3, <2>1 DEF DeclineSet, ShareWrite
  <2>3. n.status = m.status /\ n.score = m.score /\ n.archive = m.archive
    BY <2>2, SetClauses
  <2> QED BY <1>1, <2>2, <2>3, ShowsNothing DEF Write
<1> QED BY <1>2, <1>3

LEMMA AgeHidden ==
    ASSUME TypeOK, NEW k \in Live, DayPasses(k) \/ TurnStale(k)
    PROVE  SessionStep
<1>1. PICK m \in Row : row[k] = m
  BY DEF TypeOK
<1>2. Aged(m, "old") \in Row /\ Aged(m, "stale") \in Row
  BY DEF Aged, Row
<1>3. PICK n \in Row : /\ n \in {Aged(m, "old"), Aged(m, "stale")}
                       /\ row' = [row EXCEPT ![k] = n]
  BY <1>1, <1>2 DEF DayPasses, TurnStale
<1>4. n.status = m.status /\ n.score = m.score /\ n.archive = m.archive
  BY <1>3, SetClauses
<1> QED BY <1>1, <1>3, <1>4, ShowsNothing DEF Write

\* Two runs of EndLiveMatch race: the one whose UPDATE finds the session open
\* archives it, and no other session can point to the history row it wrote.
LEMMA EndArchives ==
    ASSUME TypeOK, Sound, NEW r \in Req, EndFinish(r)
    PROVE  SessionStep
<1>1. LocalSound(req[r]) /\ LocalsSound /\ \A l \in Live : SessionSound(l)
  BY DEF Sound, LocalsSound
<1>2. PICK k \in Live, m \in Row : req[r].live = k /\ row[k] = m
  BY <1>1, Target DEF EndFinish, OnSession, Step
<1>3. CASE ~Open(m)
  BY <1>2, <1>3, Unseen DEF EndFinish, EndWhere
<1>4. CASE Open(m)
  <2>1. PICK n \in Row : n = Ended(m, req[r].score, req[r].hist)
    BY LocalsTyped DEF Ended, Row
  <2>2. row' = [row EXCEPT ![k] = n]
    BY <1>2, <1>4, <2>1 DEF EndFinish, EndWhere
  <2>3. n.status = "ENDED" /\ n.archive = req[r].hist
    BY <2>1, SetClauses
  <2>4. m.archive = None
    BY <1>1, <1>2, <1>4 DEF SessionSound, Open
  <2>5. CASE req[r].hist = None
    BY <1>2, <1>4, <2>2, <2>3, <2>4, <2>5, ShowsFinish DEF Write
  <2>6. CASE req[r].hist # None
    <3>1. history[n.archive].live = k /\ n.archive \in Hist
      BY <1>1, <1>2, <2>3, <2>6, LocalsTyped DEF LocalSound
    <3>2. ASSUME NEW l \in Live, row[l].archive = n.archive
          PROVE  FALSE
      <4>1. history[n.archive].live = l /\ row[l].status = "ENDED"
        BY <1>1, <2>3, <2>6, <3>2 DEF SessionSound
      <4> QED BY <1>2, <1>4, <3>1, <4>1 DEF Open
    <3> QED BY <1>2, <1>4, <2>2, <2>3, <3>1, <3>2, ShowsArchive DEF Write
  <2> QED BY <2>5, <2>6
<1> QED BY <1>3, <1>4

-----------------------------------------------------------------------------
(* The theorems.                                                           *)

LEMMA NextRefines ==
    ASSUME IInv, [Next]_vars
    PROVE  SessionStep
<1>1. TypeOK /\ Sound /\ LocalsSound /\ AbsentIsEmpty
  BY SoundIsIInv DEF IInv
<1>2. ASSUME NEW r \in Req, Call(r)
      PROVE  SessionStep
  <2>1. CASE StartExpire(r)
    BY <1>1, <2>1, ExpireLapses, Unseen DEF StartExpire
  <2>2. CASE StartProbe(r) \/ EndArchive(r) \/ EndRate(r)
    BY <2>2, Unseen DEF StartProbe, EndArchive, EndRate
  <2>3. CASE CancelWrite(r) \/ DeclineClose(r)
    <3>1. req[r].live \in Live
      BY <1>1, <2>3 DEF CancelWrite, DeclineClose, LocalsSound, LocalSound, OnSession, Step
    <3> QED BY <1>1, <2>3, <3>1, CloseFinishes DEF CancelWrite, DeclineClose
  <2> QED BY <1>1, <1>2, <2>1, <2>2, <2>3, StartOpens, UpdatePlays, AcceptAccepts,
             DeclineAndShareHidden, EndArchives DEF Call
<1>3. ASSUME NEW r \in Req, NEW u \in User, NEW l \in Live, Begin(r, u, l)
      PROVE  SessionStep
  BY <1>3, Unseen DEF Begin, UpdateBegin, EndBegin, CancelBegin, AcceptBegin, DeclineBegin,
     ShareBegin, Serve
<1>4. ASSUME NEW r \in Req, NEW u \in Scorer, StartBegin(r, u)
      PROVE  SessionStep
  BY <1>4, Unseen DEF StartBegin, Serve
<1>5. ASSUME NEW r \in Req, Die(r)
      PROVE  SessionStep
  BY <1>5, Unseen DEF Die
<1>6. CASE Browse
  BY <1>1, <1>6, ExpireLapses DEF Browse
<1>7. ASSUME NEW l \in Live, DayPasses(l) \/ TurnStale(l)
      PROVE  SessionStep
  BY <1>1, <1>7, AgeHidden
<1>8. CASE UNCHANGED vars
  BY <1>8, Unseen DEF vars
<1> QED BY <1>2, <1>3, <1>4, <1>5, <1>6, <1>7, <1>8 DEF Next

\* Whatever requests race on it, every session behaves as LiveSession says: it
\* opens, is played, and is over once, with a history row of its own or none.
THEOREM SessionKept == Spec => ImplementsSession
<1>1. Init => Session!Init
  BY DEF Init, Session!Init, NoRow, PhaseOf
<1>2. IInv /\ [Next]_vars => [Session!Next]_(Session!vars)
  BY NextRefines DEF SessionStep
<1> QED BY <1>1, <1>2, Inductive, PTL DEF Spec, ImplementsSession, Session!Spec

\* No opponent ends an invitation by cancelling: what CancelLiveMatch saw when
\* it read the row cannot become untrue before its UPDATE.
THEOREM OpponentCorrect == Spec => OpponentEndsOnlyPlay
<1> DEFINE Rule == \A l \in Live :
        (/\ closing'[l] # closing[l]
         /\ closing'[l].how = "cancel"
         /\ closing'[l].by # row[l].by) => row[l].status = "IN_PROGRESS"
<1>1. ASSUME IInv, NEW r \in Req, Call(r), NEW l \in Live,
             closing'[l] # closing[l], closing'[l].how = "cancel",
             closing'[l].by # row[l].by
      PROVE  row[l].status = "IN_PROGRESS"
  <2>1. TypeOK /\ LocalSound(req[r]) /\ row[l] \in Row
    BY <1>1 DEF IInv, LocalsSound, TypeOK
  <2>2. ~ExpireStale
    BY <1>1 DEF ExpireStale
  <2>3. ~EndFinish(r)
    BY <1>1, <2>1 DEF EndFinish, TypeOK
  <2>4. ~DeclineClose(r)
    BY <1>1, <2>1 DEF DeclineClose, CancelLive, TypeOK
  <2>5. CancelWrite(r)
    BY <1>1, <2>2, <2>3, <2>4 DEF Call, StartExpire, StartProbe, StartInsert, UpdateWrite,
       EndArchive, EndRate, AcceptWrite, DeclineSet, ShareWrite
  <2>6. l = req[r].live /\ Open(row[l]) /\ closing'[l].by = req[r].user
    BY <1>1, <2>1, <2>5 DEF CancelWrite, CancelLive, TypeOK
  <2> QED BY <1>1, <2>1, <2>5, <2>6 DEF CancelWrite, LocalSound, Open
<1>2. IInv /\ [Next]_vars => [Rule]_vars
  <2> SUFFICES ASSUME IInv, Next, NEW l \in Live,
                      closing'[l] # closing[l], closing'[l].how = "cancel",
                      closing'[l].by # row[l].by
               PROVE  row[l].status = "IN_PROGRESS"
    OBVIOUS
  <2>1. ~Browse
    BY DEF Browse, ExpireStale
  <2>2. ASSUME NEW r \in Req, NEW u \in User, NEW k \in Live, Begin(r, u, k)
        PROVE  FALSE
    BY <2>2 DEF Begin, UpdateBegin, EndBegin, CancelBegin, AcceptBegin, DeclineBegin,
       ShareBegin, Serve
  <2>3. \E r \in Req : Call(r)
    BY <2>1, <2>2 DEF Next, StartBegin, Serve, Die, DayPasses, TurnStale
  <2> QED BY <1>1, <2>3
<1> QED BY <1>2, Inductive, PTL DEF Spec, OpponentEndsOnlyPlay

-----------------------------------------------------------------------------
(***************************************************************************)
(* The hub: any connections and calls of Publish, any memory and any size  *)
(* of a channel's buffer.                                                  *)
(*                                                                         *)
(* RegistrySound says nothing while an unsubscribe shifts the list, and    *)
(* QuietPublishExact nothing before a Publish ends.  HubInv fills the      *)
(* gaps: what the list holds beside the hole, what of the memory a Publish *)
(* that walks it can rely on, and, while nobody leaves, that the part of   *)
(* the list it copied is a prefix of the list as it is now.                *)
(***************************************************************************)

Connected(c) == conn[c] \in {"on", "hung"}

\* A slice lies within an array that was allocated.
WithinMemory(s) ==
    IF s.arr = NoConn THEN s.len = 0 ELSE s.len \in 1 .. size[s.arr]

\* The cells of the list that count: the hole is moved to the end, then cut off.
KeptCells == IF writer = NoConn THEN 1 .. list.len ELSE (1 .. list.len) \ {hole}

\* The list holds every open connection once, and nothing else.
ListSound ==
    /\ WithinMemory(list)
    /\ \A i \in 1 .. list.len : cells[list.arr][i] \in Conn
    /\ \A i, j \in KeptCells : cells[list.arr][i] = cells[list.arr][j] => i = j
    /\ \A c \in Conn : Connected(c) <=> \E i \in KeptCells : cells[list.arr][i] = c

\* One connection at a time unsubscribes, from a list that it is in.
WriterSound ==
    /\ \A c \in Conn : conn[c] = "leaving" <=> writer = c
    /\ writer # NoConn => hole \in 1 .. list.len

\* A Publish finds channels wherever it still looks, and has tried each
\* connection less often than it has looked.
WalkSound(p) ==
    /\ \A c \in Conn : tried[p][c] + 1 <= pub[p].i
    /\ Busy(p) =>
        /\ WithinMemory(pub[p].view)
        /\ \A i \in 1 .. pub[p].view.len : cells[pub[p].view.arr][i] \in Conn
        /\ pub[p].i <= pub[p].view.len + 1
    /\ pub[p].pc = "send" => pub[p].i <= pub[p].view.len /\ pub[p].ch \in Conn

WalksSound == \A p \in Pub : WalkSound(p)

\* What p has seen so far: each connection of its copy up to there, once.
SeenExactly(p) ==
    \A c \in Conn :
        tried[p][c] = IF \E j \in 1 .. pub[p].i - 1 : cells[pub[p].view.arr][j] = c
                      THEN 1 ELSE 0

\* While nobody leaves, the copy of p is a prefix of the list.
QuietWalk(p) ==
    LET q == pub[p] IN
    /\ writer = NoConn
    /\ q.view.len <= list.len
    /\ \A i \in 1 .. q.view.len :
        /\ cells[q.view.arr][i] = cells[list.arr][i]
        /\ past[p][i] = {}
    /\ \A c \in Conn : c \in due[p] <=> \E i \in 1 .. q.view.len : cells[q.view.arr][i] = c
    /\ SeenExactly(p)
    /\ q.pc = "send" => q.ch = cells[q.view.arr][q.i]

UnseenOrQuiet(p) ==
    /\ pub[p].pc = "idle" => \A c \in Conn : tried[p][c] = 0
    /\ pub[p].pc = "idle" => \A i \in 1 .. Cells : past[p][i] = {}
    /\ pub[p].pc = "idle" => pub[p] = NoWalk
    /\ ~disturbed[p] /\ Busy(p) => QuietWalk(p)

QuietSound == \A p \in Pub : UnseenOrQuiet(p)

HubInv ==
    /\ HubTypeOK
    /\ ListSound
    /\ WriterSound
    /\ WalksSound
    /\ QuietSound
    /\ QuietPublishExact

-----------------------------------------------------------------------------
(* The memory *)

LEMMA Bounds == Arrays \in Nat /\ Cells \in Nat /\ Cells >= 1 /\ Buffer \in Nat
BY HubAssumption

LEMMA NoConnApart == NoConn \notin Conn /\ NoConn \notin Arr /\ Arr \subseteq Nat
BY HubAssumption DEF Arr

LEMMA SliceTyped ==
    ASSUME HubTypeOK, NEW s \in Slice, WithinMemory(s)
    PROVE  /\ s.len \in Nat /\ s.len <= Cells
           /\ s.len >= 1 => s.arr \in Arr /\ s.len <= size[s.arr] /\ size[s.arr] \in 0 .. Cells
<1>1. s.arr \in Arr \cup {NoConn} /\ s.len \in 0 .. Cells
    BY DEF Slice
<1>2. size \in [Arr -> 0 .. Cells]
    BY DEF HubTypeOK
<1>3. s.len \in Nat /\ s.len <= Cells
    BY <1>1, Bounds
<1>4. ASSUME s.len >= 1
      PROVE  s.arr \in Arr /\ s.len <= size[s.arr] /\ size[s.arr] \in 0 .. Cells
    <2>1. s.arr # NoConn
        BY <1>4 DEF WithinMemory
    <2>2. s.arr \in Arr
        BY <1>1, <2>1
    <2>3. s.len \in 1 .. size[s.arr]
        BY <2>1 DEF WithinMemory
    <2>4. size[s.arr] \in 0 .. Cells
        BY <1>2, <2>2
    <2> QED BY <2>2, <2>3, <2>4, Bounds
<1> QED BY <1>3, <1>4

\* A subscription puts its connection behind the last element.  What was there
\* of any array stays, except for the cell behind the list if the array has one.
Appended(c) ==
    /\ list' \in Slice
    /\ list'.arr \in Arr
    /\ list'.len = list.len + 1
    /\ list'.len <= size'[list'.arr]
    /\ \A i \in 1 .. list.len : cells'[list'.arr][i] = cells[list.arr][i]
    /\ cells'[list'.arr][list.len + 1] = c
    /\ cells' \in [Arr -> [1 .. Cells -> Conn \cup {NoConn}]]
    /\ size' \in [Arr -> 0 .. Cells]
    /\ \A a \in Arr : size[a] <= size'[a]
    /\ \A a \in Arr : \A i \in 1 .. size[a] :
          \/ cells'[a][i] = cells[a][i]
          \/ a = list.arr /\ i = list.len + 1 /\ cells'[a][i] = c

\* A walk only notices a new value in a cell that it may still read.
PastKept ==
    /\ past' \in [Pub -> [1 .. Cells -> SUBSET Conn]]
    /\ \A p \in Pub : \A i \in 1 .. Cells :
          \/ past'[p][i] = past[p][i]
          \/ Busy(p) /\ pub[p].view.arr = list.arr /\ i = list.len + 1

LEMMA OverwritesTyped ==
    ASSUME HubTypeOK, NEW a \in Arr, NEW i \in 1 .. Cells, Overwrites(a, i)
    PROVE  /\ past' \in [Pub -> [1 .. Cells -> SUBSET Conn]]
           /\ \A p \in Pub : \A j \in 1 .. Cells :
                 \/ past'[p][j] = past[p][j]
                 \/ Busy(p) /\ pub[p].view.arr = a /\ j = i
<1>1. past \in [Pub -> [1 .. Cells -> SUBSET Conn]]
    BY DEF HubTypeOK
<1>2. cells[a][i] \in Conn \cup {NoConn}
    <2>1. cells[a] \in [1 .. Cells -> Conn \cup {NoConn}]
        BY DEF HubTypeOK
    <2> QED BY <2>1
<1> DEFINE shed == {cells[a][i]} \ {NoConn}
<1>3. shed \in SUBSET Conn
    BY <1>2
<1>4. past' = [p \in Pub |-> IF Busy(p) /\ pub[p].view.arr = a
                             THEN [past[p] EXCEPT ![i] = @ \cup shed] ELSE past[p]]
    BY DEF Overwrites
<1> HIDE DEF shed
<1>5. ASSUME NEW p \in Pub
      PROVE  /\ past'[p] \in [1 .. Cells -> SUBSET Conn]
             /\ \A j \in 1 .. Cells :
                   \/ past'[p][j] = past[p][j]
                   \/ Busy(p) /\ pub[p].view.arr = a /\ j = i
    <2>1. CASE Busy(p) /\ pub[p].view.arr = a
        <3>1. past'[p] = [past[p] EXCEPT ![i] = past[p][i] \cup shed]
            BY <1>4, <2>1
        <3>2. past[p] \in [1 .. Cells -> SUBSET Conn] /\ past[p][i] \cup shed \in SUBSET Conn
            BY <1>1, <1>3
        <3> QED BY <2>1, <3>1, <3>2
    <2>2. CASE ~(Busy(p) /\ pub[p].view.arr = a)
        BY <1>1, <1>4, <2>2
    <2> QED BY <2>1, <2>2
<1>6. past' \in [Pub -> [1 .. Cells -> SUBSET Conn]]
    BY <1>4, <1>5
<1> QED BY <1>5, <1>6

LEMMA InPlaceAppends ==
    ASSUME HubInv, NEW c \in Conn, AppendInPlace(c)
    PROVE  Appended(c) /\ PastKept
<1>1. /\ list \in Slice /\ WithinMemory(list) /\ HubTypeOK
      /\ size \in [Arr -> 0 .. Cells]
      /\ cells \in [Arr -> [1 .. Cells -> Conn \cup {NoConn}]]
    BY DEF HubInv, HubTypeOK, ListSound
<1>2. /\ list.arr \in Arr \cup {NoConn} /\ list.len \in 0 .. Cells
      /\ list = [arr |-> list.arr, len |-> list.len]
    BY <1>1 DEF Slice
<1>3. list.arr \in Arr /\ list.len < size[list.arr] /\ size[list.arr] \in 0 .. Cells
    BY <1>1, <1>2 DEF AppendInPlace, Room
<1>4. list.len + 1 \in 1 .. Cells
    BY <1>2, <1>3, Bounds
<1>5. list' = [arr |-> list.arr, len |-> list.len + 1]
    BY <1>2 DEF AppendInPlace
<1>6. list' \in Slice
    BY <1>3, <1>4, <1>5, Bounds DEF Slice
<1>7. /\ cells' = [cells EXCEPT ![list.arr][list.len + 1] = c]
      /\ size' = size
      /\ Overwrites(list.arr, list.len + 1)
    BY DEF AppendInPlace
<1>8. cells' \in [Arr -> [1 .. Cells -> Conn \cup {NoConn}]]
    BY <1>1, <1>3, <1>4, <1>7
<1>9. \A a \in Arr : \A i \in 1 .. Cells :
         cells'[a][i] = IF a = list.arr /\ i = list.len + 1 THEN c ELSE cells[a][i]
    BY <1>1, <1>3, <1>4, <1>7
<1>10. \A i \in 1 .. list.len : i \in 1 .. Cells /\ i # list.len + 1
    BY <1>2, Bounds
<1>11. \A a \in Arr : size[a] \in 0 .. Cells /\ \A i \in 1 .. size[a] : i \in 1 .. Cells
    BY <1>1, Bounds
<1>12. Appended(c)
    BY <1>1, <1>2, <1>3, <1>4, <1>5, <1>6, <1>7, <1>8, <1>9, <1>10, <1>11 DEF Appended
<1>13. PastKept
    BY <1>1, <1>3, <1>4, <1>7, OverwritesTyped DEF PastKept
<1> QED BY <1>12, <1>13

LEMMA CopyAppends ==
    ASSUME HubInv, NEW c \in Conn, AppendCopy(c)
    PROVE  /\ Appended(c) /\ PastKept
           /\ \A a \in Arr : \A i \in 1 .. size[a] : cells'[a][i] = cells[a][i]
<1>1. /\ list \in Slice /\ WithinMemory(list) /\ HubTypeOK
      /\ size \in [Arr -> 0 .. Cells]
      /\ cells \in [Arr -> [1 .. Cells -> Conn \cup {NoConn}]]
      /\ past \in [Pub -> [1 .. Cells -> SUBSET Conn]]
    BY DEF HubInv, HubTypeOK, ListSound
<1>2. list.arr \in Arr \cup {NoConn} /\ list.len \in 0 .. Cells
    BY <1>1 DEF Slice
<1> DEFINE bigger == IF Room = 0 THEN 1 ELSE 2 * Room
<1>3. list.len = Room /\ bigger <= Cells /\ past' = past
    BY DEF AppendCopy
<1>4. Room \in 0 .. Cells
    BY <1>2, <1>3
<1>5. bigger \in 1 .. Cells /\ Room + 1 <= bigger
    BY <1>3, <1>4, Bounds
<1> HIDE DEF bigger
<1> DEFINE new == [i \in 1 .. Cells |-> IF i <= Room THEN cells[list.arr][i]
                                       ELSE IF i = Room + 1 THEN c ELSE NoConn]
<1>6. PICK a \in Arr :
        /\ \A b \in Arr : size[b] = 0 <=> b >= a
        /\ size' = [size EXCEPT ![a] = bigger]
        /\ cells' = [cells EXCEPT ![a] = new]
        /\ list' = [arr |-> a, len |-> Room + 1]
    BY DEF AppendCopy, bigger
<1>7. size[a] = 0
    BY <1>6, NoConnApart
<1>8. Room >= 1 => list.arr \in Arr
    BY <1>1, <1>2, <1>3, <1>4 DEF WithinMemory
<1>9. new \in [1 .. Cells -> Conn \cup {NoConn}]
    <2>1. ASSUME NEW i \in 1 .. Cells, i <= Room
          PROVE  cells[list.arr][i] \in Conn \cup {NoConn}
        <3>1. list.arr \in Arr
            BY <1>4, <1>8, <2>1
        <3>2. cells[list.arr] \in [1 .. Cells -> Conn \cup {NoConn}]
            BY <1>1, <3>1
        <3> QED BY <3>2
    <2> QED BY <2>1
<1>10. /\ new[Room + 1] = c
       /\ \A i \in 1 .. Room : new[i] = cells[list.arr][i]
    BY <1>4, <1>5, Bounds
<1> HIDE DEF new
<1>11. /\ cells' \in [Arr -> [1 .. Cells -> Conn \cup {NoConn}]]
       /\ cells'[a] = new
       /\ \A b \in Arr : b # a => cells'[b] = cells[b]
    BY <1>1, <1>6, <1>9
<1>12. /\ size' \in [Arr -> 0 .. Cells]
       /\ size'[a] = bigger
       /\ \A b \in Arr : b # a => size'[b] = size[b]
    BY <1>1, <1>5, <1>6
<1>13. list' \in Slice /\ list'.arr = a /\ list'.len = list.len + 1 /\ list'.len <= size'[list'.arr]
    <2>1. Room + 1 \in 0 .. Cells
        BY <1>4, <1>5, Bounds
    <2> QED BY <1>3, <1>5, <1>6, <1>12, <2>1 DEF Slice
<1>14. \A b \in Arr : size[b] <= size'[b]
    <2> SUFFICES ASSUME NEW b \in Arr PROVE size[b] <= size'[b]
        OBVIOUS
    <2>1. size[b] \in 0 .. Cells
        BY <1>1
    <2>2. CASE b # a
        BY <1>12, <2>1, <2>2, Bounds
    <2>3. CASE b = a
        BY <1>5, <1>7, <1>12, <2>3, Bounds
    <2> QED BY <2>2, <2>3
<1>15. \A b \in Arr : \A i \in 1 .. size[b] : cells'[b][i] = cells[b][i]
    <2> SUFFICES ASSUME NEW b \in Arr, NEW i \in 1 .. size[b] PROVE cells'[b][i] = cells[b][i]
        OBVIOUS
    <2>1. b # a
        BY <1>7
    <2> QED BY <1>11, <2>1
<1>16. /\ \A i \in 1 .. list.len : cells'[list'.arr][i] = cells[list.arr][i]
       /\ cells'[list'.arr][list.len + 1] = c
    BY <1>3, <1>10, <1>11, <1>13
<1>17. Appended(c)
    BY <1>11, <1>12, <1>13, <1>14, <1>15, <1>16 DEF Appended
<1>18. PastKept
    BY <1>1, <1>3 DEF PastKept
<1> QED BY <1>15, <1>17, <1>18

-----------------------------------------------------------------------------
(* Connections *)

LEMMA SubscribeKeeps ==
    ASSUME HubInv, NEW c \in Conn, Subscribe(c)
    PROVE  HubInv'
<1>1. Appended(c) /\ PastKept
    BY InPlaceAppends, CopyAppends DEF Subscribe
<1>2. /\ conn[c] = "new" /\ writer = NoConn
      /\ conn' = [conn EXCEPT ![c] = "on"]
      /\ UNCHANGED <<queued, writer, hole, pub, due, tried, disturbed>>
    BY DEF Subscribe
<1>3. HubTypeOK /\ ListSound /\ WriterSound /\ WalksSound /\ QuietSound /\ QuietPublishExact
    BY DEF HubInv
<1>4. /\ conn \in [Conn -> Progress]
      /\ size \in [Arr -> 0 .. Cells]
      /\ list.len \in 0 .. Cells /\ list.len \in Nat
    BY <1>3, Bounds DEF HubTypeOK, Slice
<1>5. /\ conn' \in [Conn -> Progress]
      /\ conn'[c] = "on"
      /\ \A d \in Conn : d # c => conn'[d] = conn[d]
    BY <1>2, <1>4 DEF Progress
<1>6. HubTypeOK'
    BY <1>1, <1>2, <1>3, <1>5 DEF HubTypeOK, Appended, PastKept
<1>7. /\ KeptCells = 1 .. list.len
      /\ KeptCells' = 1 .. list.len + 1
    BY <1>1, <1>2 DEF KeptCells, Appended
<1>8. ListSound'
    <2> DEFINE Old(i) == cells[list.arr][i]
               New(i) == cells'[list'.arr][i]
    <2>1. /\ \A i \in 1 .. list.len : New(i) = Old(i) /\ Old(i) \in Conn
          /\ New(list.len + 1) = c
          /\ \A i, j \in 1 .. list.len : Old(i) = Old(j) => i = j
          /\ \A d \in Conn : Connected(d) <=> \E i \in 1 .. list.len : Old(i) = d
        BY <1>1, <1>3, <1>7 DEF Appended, ListSound
    <2>2. /\ Connected(c)' /\ ~Connected(c)
          /\ \A d \in Conn : d # c => (Connected(d)' <=> Connected(d))
        BY <1>2, <1>5 DEF Connected
    <2>3. list'.arr # NoConn /\ list'.len = list.len + 1 /\ list'.len \in 1 .. size'[list'.arr]
        <3>1. size'[list'.arr] \in 0 .. Cells
            BY <1>1 DEF Appended
        <3> QED BY <1>1, <1>4, <3>1, NoConnApart, Bounds DEF Appended
    <2> HIDE DEF Old, New
    <2>4. \A i \in 1 .. list.len + 1 : i \in 1 .. list.len \/ i = list.len + 1
        BY <1>4
    <2>5. \A i \in 1 .. list.len : Old(i) # c
        BY <2>1, <2>2
    <2>6. \A i \in 1 .. list.len + 1 : New(i) \in Conn
        BY <2>1, <2>4
    <2>7. \A i, j \in 1 .. list.len + 1 : New(i) = New(j) => i = j
        BY <2>1, <2>4, <2>5
    <2>8. \A d \in Conn : Connected(d)' <=> \E i \in 1 .. list.len + 1 : New(i) = d
        <3> TAKE d \in Conn
        <3>1. list.len + 1 \in 1 .. list.len + 1 /\ 1 .. list.len \subseteq 1 .. list.len + 1
            BY <1>4
        <3>2. CASE d = c
            BY <2>1, <2>2, <3>1, <3>2
        <3>3. CASE d # c
            BY <2>1, <2>2, <2>4, <3>1, <3>3
        <3> QED BY <3>2, <3>3
    <2>9. WithinMemory(list)'
        BY <2>3 DEF WithinMemory
    <2> QED BY <1>7, <2>3, <2>6, <2>7, <2>8, <2>9 DEF ListSound, New
<1>9. WriterSound'
    BY <1>2, <1>3, <1>5, NoConnApart DEF WriterSound
<1>10. ASSUME NEW p \in Pub, Busy(p)
       PROVE  /\ pub[p].view.len \in Nat
              /\ WithinMemory(pub[p].view)'
              /\ \A i \in 1 .. pub[p].view.len :
                    /\ i \in 1 .. Cells
                    /\ cells[pub[p].view.arr][i] \in Conn
                    /\ \/ cells'[pub[p].view.arr][i] = cells[pub[p].view.arr][i]
                       \/ i = list.len + 1 /\ cells'[pub[p].view.arr][i] = c
    <2> DEFINE v == pub[p].view
    <2>1. v \in Slice /\ WithinMemory(v) /\ \A i \in 1 .. v.len : cells[v.arr][i] \in Conn
        BY <1>3, <1>10 DEF HubTypeOK, Walk, WalksSound, WalkSound
    <2> HIDE DEF v
    <2>2. /\ v.len \in Nat /\ v.len <= Cells
          /\ v.len >= 1 => v.arr \in Arr /\ v.len <= size[v.arr] /\ size[v.arr] \in 0 .. Cells
        BY <1>3, <2>1, SliceTyped
    <2>3. CASE v.len = 0
        <3>1. v.arr = NoConn
            <4>1. CASE v.arr # NoConn
                <5>1. v.len \in 1 .. size[v.arr]
                    BY <2>1, <4>1 DEF WithinMemory
                <5> QED BY <2>3, <5>1
            <4> QED BY <4>1
        <3>2. WithinMemory(v)'
            BY <1>2, <2>3, <3>1 DEF WithinMemory, v
        <3>3. ~\E i \in 1 .. v.len : TRUE
            BY <2>3
        <3> QED BY <2>2, <3>2, <3>3 DEF v
    <2>4. CASE v.len # 0
        <3>1. /\ v.arr \in Arr /\ v.arr # NoConn
              /\ v.len \in 1 .. size[v.arr] /\ size[v.arr] \in 0 .. Cells
            BY <2>2, <2>4, NoConnApart, Bounds
        <3>2. size[v.arr] <= size'[v.arr] /\ size'[v.arr] \in 0 .. Cells
            BY <1>1, <3>1 DEF Appended
        <3>3. v.len \in 1 .. size'[v.arr]
            BY <3>1, <3>2, Bounds
        <3>4. WithinMemory(v)'
            BY <1>2, <3>1, <3>3 DEF WithinMemory, v
        <3>5. \A i \in 1 .. v.len : i \in 1 .. Cells /\ i \in 1 .. size[v.arr]
            BY <2>2, <3>1, Bounds
        <3>6. \A i \in 1 .. v.len : \/ cells'[v.arr][i] = cells[v.arr][i]
                                    \/ i = list.len + 1 /\ cells'[v.arr][i] = c
            BY <1>1, <3>1, <3>5 DEF Appended
        <3> QED BY <1>2, <2>1, <2>2, <3>4, <3>5, <3>6 DEF v
    <2> QED BY <2>3, <2>4
<1>11. WalksSound'
    <2> SUFFICES ASSUME NEW p \in Pub, Busy(p)
                 PROVE  /\ WithinMemory(pub[p].view)'
                        /\ \A i \in 1 .. pub[p].view.len : cells'[pub[p].view.arr][i] \in Conn
        BY <1>2, <1>3 DEF WalksSound, WalkSound, Busy
    <2> QED BY <1>2, <1>10
<1>12. ASSUME NEW p \in Pub, Busy(p), QuietWalk(p)
       PROVE  QuietWalk(p)'
    <2> DEFINE v == pub[p].view
    <2>1. v.len \in Nat /\ v.len <= list.len
        BY <1>10, <1>12 DEF QuietWalk
    <2>2. /\ v.arr = pub'[p].view.arr /\ v.len = pub'[p].view.len
          /\ pub'[p] = pub[p]
          /\ \A i \in 1 .. v.len : i # list.len + 1 /\ i \in 1 .. list.len
        BY <1>2, <1>4, <2>1
    <2>3. \A i \in 1 .. v.len :
            /\ cells'[v.arr][i] = cells[v.arr][i]
            /\ cells[v.arr][i] = cells[list.arr][i]
            /\ cells'[list'.arr][i] = cells[list.arr][i]
            /\ past'[p][i] = {}
        <3> TAKE i \in 1 .. v.len
        <3>1. cells'[v.arr][i] = cells[v.arr][i] /\ i \in 1 .. Cells
            BY <1>10, <1>12, <2>2
        <3>2. past'[p][i] = past[p][i]
            BY <1>1, <2>2, <3>1 DEF PastKept
        <3>3. cells'[list'.arr][i] = cells[list.arr][i]
            BY <1>1, <2>2 DEF Appended
        <3> QED BY <1>12, <3>1, <3>2, <3>3 DEF QuietWalk
    <2>4. v.len <= list'.len
        BY <1>1, <1>4, <2>1 DEF Appended
    <2>5. \A d \in Conn : d \in due'[p] <=> \E i \in 1 .. v.len : cells'[v.arr][i] = d
        BY <1>2, <1>12, <2>3 DEF QuietWalk
    <2>6. /\ pub[p].i \in Nat /\ pub[p].i <= v.len + 1
          /\ pub[p].pc = "send" => pub[p].i \in 1 .. v.len
        BY <1>3, <1>12, <2>1, Bounds DEF WalksSound, WalkSound, HubTypeOK, Walk
    <2>7. \A j \in 1 .. pub[p].i - 1 : cells'[v.arr][j] = cells[v.arr][j]
        <3>1. \A j \in 1 .. pub[p].i - 1 : j \in 1 .. v.len
            BY <2>1, <2>6
        <3> QED BY <2>3, <3>1
    <2>8. SeenExactly(p)'
        BY <1>2, <1>12, <2>7 DEF QuietWalk, SeenExactly
    <2>9. pub[p].pc = "send" => pub[p].ch = cells'[v.arr][pub[p].i]
        BY <1>12, <2>3, <2>6 DEF QuietWalk
    <2> QED BY <1>2, <2>2, <2>3, <2>4, <2>5, <2>8, <2>9 DEF QuietWalk
<1>13. QuietSound'
    <2> SUFFICES ASSUME NEW p \in Pub
                 PROVE  /\ pub[p].pc = "idle" => \A i \in 1 .. Cells : past'[p][i] = {}
                        /\ ~disturbed[p] /\ Busy(p) => QuietWalk(p)'
        BY <1>2, <1>3 DEF QuietSound, UnseenOrQuiet, Busy
    <2>1. ASSUME pub[p].pc = "idle", NEW i \in 1 .. Cells
          PROVE  past'[p][i] = {}
        BY <1>1, <1>3, <2>1 DEF PastKept, QuietSound, UnseenOrQuiet, Busy
    <2>2. ASSUME ~disturbed[p], Busy(p)
          PROVE  QuietWalk(p)'
        BY <1>3, <1>12, <2>2 DEF QuietSound, UnseenOrQuiet
    <2> QED BY <2>1, <2>2
<1>14. QuietPublishExact'
    BY <1>2, <1>3 DEF QuietPublishExact
<1> QED BY <1>6, <1>8, <1>9, <1>11, <1>13, <1>14 DEF HubInv

LEMMA ReceiveKeeps ==
    ASSUME HubInv, NEW c \in Conn, Receive(c)
    PROVE  HubInv'
<1> USE DEF Receive
<1>1. HubTypeOK'
    <2>1. queued \in [Conn -> 0 .. Buffer] /\ queued[c] \in 0 .. Buffer /\ queued[c] > 0
        BY DEF HubInv, HubTypeOK
    <2>2. queued[c] - 1 \in 0 .. Buffer
        BY <2>1, Bounds
    <2>3. queued' \in [Conn -> 0 .. Buffer]
        BY <2>1, <2>2
    <2> QED BY <2>3 DEF HubInv, HubTypeOK
<1>2. ListSound' /\ WriterSound'
    BY DEF HubInv, ListSound, KeptCells, Connected, WithinMemory, WriterSound
<1>3. WalksSound'
    BY DEF HubInv, WalksSound, WalkSound, Busy, WithinMemory
<1>4. QuietSound'
    BY DEF HubInv, QuietSound, UnseenOrQuiet, QuietWalk, SeenExactly, Busy
<1>5. QuietPublishExact'
    BY DEF HubInv, QuietPublishExact
<1> QED BY <1>1, <1>2, <1>3, <1>4, <1>5 DEF HubInv

LEMMA HangUpKeeps ==
    ASSUME HubInv, NEW c \in Conn, HangUp(c)
    PROVE  HubInv'
<1>1. /\ conn[c] = "on"
      /\ conn' = [conn EXCEPT ![c] = "hung"]
      /\ UNCHANGED <<list, cells, size, queued, writer, hole, pub, past, due, tried, disturbed>>
    BY DEF HangUp
<1>2. conn \in [Conn -> Progress]
    BY DEF HubInv, HubTypeOK
<1>3. /\ conn' \in [Conn -> Progress]
      /\ \A d \in Conn : conn'[d] = IF d = c THEN "hung" ELSE conn[d]
    BY <1>1, <1>2 DEF Progress
<1>4. HubTypeOK'
    BY <1>1, <1>3 DEF HubInv, HubTypeOK
<1>5. \A d \in Conn : Connected(d)' <=> Connected(d)
    BY <1>1, <1>3 DEF Connected
<1>6. ListSound'
    BY <1>1, <1>5 DEF HubInv, ListSound, KeptCells, WithinMemory
<1>7. WriterSound'
    BY <1>1, <1>3 DEF HubInv, WriterSound
<1>8. WalksSound'
    BY <1>1 DEF HubInv, WalksSound, WalkSound, Busy, WithinMemory
<1>9. QuietSound'
    BY <1>1 DEF HubInv, QuietSound, UnseenOrQuiet, QuietWalk, SeenExactly, Busy
<1>10. QuietPublishExact'
    BY <1>1 DEF HubInv, QuietPublishExact
<1> QED BY <1>4, <1>6, <1>7, <1>8, <1>9, <1>10 DEF HubInv

-----------------------------------------------------------------------------
(* Leaving *)

\* Nobody leaves unnoticed by a Publish that is under way.
LEMMA LeavingDisturbs ==
    ASSUME HubInv, writer # NoConn, NEW p \in Pub, Busy(p)
    PROVE  disturbed[p]
BY DEF HubInv, QuietSound, UnseenOrQuiet, QuietWalk

LEMMA UnsubLockKeeps ==
    ASSUME HubInv, NEW c \in Conn, UnsubLock(c)
    PROVE  HubInv'
<1>1. /\ conn[c] = "hung" /\ writer = NoConn /\ writer' = c
      /\ conn' = [conn EXCEPT ![c] = "leaving"]
      /\ due' = [p \in Pub |-> IF Busy(p) THEN due[p] \ {c} ELSE due[p]]
      /\ disturbed' = [p \in Pub |-> disturbed[p] \/ Busy(p)]
      /\ UNCHANGED <<list, cells, size, queued, pub, past, tried>>
    BY DEF UnsubLock
<1>2. PICK i \in 1 .. list.len : cells[list.arr][i] = c /\ hole' = i
    BY DEF UnsubLock
<1>3. HubTypeOK /\ ListSound /\ WriterSound /\ WalksSound /\ QuietSound /\ QuietPublishExact
    BY DEF HubInv
<1>4. /\ conn' \in [Conn -> Progress]
      /\ \A d \in Conn : conn'[d] = IF d = c THEN "leaving" ELSE conn[d]
    BY <1>1, <1>3 DEF Progress, HubTypeOK
<1>5. list.len \in 0 .. Cells
    BY <1>3 DEF HubTypeOK, Slice
<1>6. HubTypeOK'
    <2>1. hole' \in 1 .. Cells
        BY <1>2, <1>5, Bounds
    <2>2. due' \in [Pub -> SUBSET Conn]
        BY <1>1, <1>3 DEF HubTypeOK
    <2>3. disturbed' \in [Pub -> BOOLEAN]
        BY <1>1
    <2>4. writer' \in Conn \cup {NoConn}
        BY <1>1
    <2> QED BY <1>1, <1>3, <1>4, <2>1, <2>2, <2>3, <2>4 DEF HubTypeOK
<1>7. /\ KeptCells = 1 .. list.len
      /\ KeptCells' = (1 .. list.len) \ {i}
    BY <1>1, <1>2, NoConnApart DEF KeptCells
<1>8. ListSound'
    <2> DEFINE Old(k) == cells[list.arr][k]
    <2>1. /\ \A j, k \in 1 .. list.len : Old(j) = Old(k) => j = k
          /\ \A d \in Conn : Connected(d) <=> \E k \in 1 .. list.len : Old(k) = d
          /\ \A k \in 1 .. list.len : Old(k) \in Conn
          /\ WithinMemory(list)
          /\ Old(i) = c
        BY <1>2, <1>3, <1>7 DEF ListSound
    <2>2. \A d \in Conn : Connected(d)' <=> Connected(d) /\ d # c
        BY <1>1, <1>4 DEF Connected
    <2>3. WithinMemory(list)'
        BY <1>1, <2>1 DEF WithinMemory
    <2> HIDE DEF Old
    <2>4. \A d \in Conn : Connected(d)' <=> \E k \in (1 .. list.len) \ {i} : Old(k) = d
        BY <2>1, <2>2
    <2>5. \A j, k \in (1 .. list.len) \ {i} : Old(j) = Old(k) => j = k
        BY <2>1
    <2> QED BY <1>1, <1>7, <2>1, <2>3, <2>4, <2>5 DEF ListSound, Old
<1>9. WriterSound'
    <2>1. \A d \in Conn : conn'[d] = "leaving" <=> d = c
        BY <1>1, <1>3, <1>4, NoConnApart DEF WriterSound
    <2> QED BY <1>1, <1>2, <2>1, NoConnApart DEF WriterSound
<1>10. WalksSound'
    BY <1>1, <1>3 DEF WalksSound, WalkSound, Busy, WithinMemory
<1>11. \A p \in Pub : disturbed'[p] <=> disturbed[p] \/ Busy(p)
    BY <1>1
<1>12. QuietSound'
    BY <1>1, <1>3, <1>11 DEF QuietSound, UnseenOrQuiet, Busy
<1>13. QuietPublishExact'
    <2> SUFFICES ASSUME NEW p \in Pub, ~disturbed'[p]
                 PROVE  /\ pub[p].pc # "panicked"
                        /\ pub[p].pc = "done" =>
                              \A d \in Conn : tried[p][d] = IF d \in due'[p] THEN 1 ELSE 0
        BY <1>1 DEF QuietPublishExact
    <2>1. ~disturbed[p] /\ ~Busy(p)
        BY <1>11
    <2>2. due'[p] = due[p]
        BY <1>1, <2>1
    <2> QED BY <1>3, <2>1, <2>2 DEF QuietPublishExact
<1> QED BY <1>6, <1>8, <1>9, <1>10, <1>12, <1>13 DEF HubInv

LEMMA UnsubShiftKeeps ==
    ASSUME HubInv, UnsubShift
    PROVE  HubInv'
<1>1. /\ writer # NoConn /\ hole < list.len
      /\ cells' = [cells EXCEPT ![list.arr][hole] = cells[list.arr][hole + 1]]
      /\ hole' = hole + 1
      /\ Overwrites(list.arr, hole)
      /\ UNCHANGED <<list, size, conn, queued, writer, pub, due, tried, disturbed>>
    BY DEF UnsubShift
<1>2. HubTypeOK /\ ListSound /\ WriterSound /\ WalksSound /\ QuietSound /\ QuietPublishExact
    BY DEF HubInv
<1>3. /\ hole \in 1 .. list.len /\ list.len \in 0 .. Cells
      /\ hole + 1 \in 1 .. list.len /\ hole \in 1 .. Cells /\ hole + 1 \in 1 .. Cells
    BY <1>1, <1>2, Bounds DEF WriterSound, HubTypeOK, Slice
<1>4. list.arr \in Arr
    <2>1. list \in Slice /\ WithinMemory(list) /\ list.len >= 1
        BY <1>2, <1>3, Bounds DEF HubTypeOK, ListSound
    <2> QED BY <1>2, <2>1, SliceTyped
<1>5. cells \in [Arr -> [1 .. Cells -> Conn \cup {NoConn}]]
    BY <1>2 DEF HubTypeOK
<1>6. cells[list.arr][hole + 1] \in Conn
    BY <1>2, <1>3 DEF ListSound
<1>7. /\ cells' \in [Arr -> [1 .. Cells -> Conn \cup {NoConn}]]
      /\ \A a \in Arr : \A i \in 1 .. Cells :
            cells'[a][i] = IF a = list.arr /\ i = hole THEN cells[list.arr][hole + 1] ELSE cells[a][i]
    BY <1>1, <1>3, <1>4, <1>5, <1>6
<1>8. /\ past' \in [Pub -> [1 .. Cells -> SUBSET Conn]]
      /\ \A p \in Pub : \A j \in 1 .. Cells : past'[p][j] = past[p][j] \/ Busy(p)
    BY <1>1, <1>2, <1>3, <1>4, OverwritesTyped
<1>9. HubTypeOK'
    BY <1>1, <1>2, <1>3, <1>7, <1>8 DEF HubTypeOK
<1>10. /\ KeptCells = (1 .. list.len) \ {hole}
       /\ KeptCells' = (1 .. list.len) \ {hole + 1}
    BY <1>1 DEF KeptCells
<1>11. ListSound'
    <2> DEFINE Old(i) == cells[list.arr][i]
               New(i) == cells'[list.arr][i]
    <2>1. \A i \in 1 .. list.len : Old(i) \in Conn /\ i \in 1 .. Cells
        BY <1>2, <1>3, Bounds DEF ListSound
    <2>2. /\ \A i, j \in KeptCells : Old(i) = Old(j) => i = j
          /\ \A d \in Conn : Connected(d) <=> \E i \in KeptCells : Old(i) = d
        BY <1>2 DEF ListSound
    <2>3. \A i \in 1 .. list.len : New(i) = IF i = hole THEN Old(hole + 1) ELSE Old(i)
        BY <1>4, <1>7, <2>1
    <2> HIDE DEF Old, New
    <2>4. \A i \in 1 .. list.len : New(i) \in Conn
        BY <1>3, <2>1, <2>3
    <2>5. hole # hole + 1
        BY <1>3
    <2>6. \A i, j \in KeptCells' : New(i) = New(j) => i = j
        BY <1>3, <1>10, <2>2, <2>3, <2>5
    <2>7. \A d \in Conn : (\E i \in KeptCells' : New(i) = d) <=> (\E i \in KeptCells : Old(i) = d)
        <3> TAKE d \in Conn
        <3>1. ASSUME NEW i \in KeptCells', New(i) = d
              PROVE  \E j \in KeptCells : Old(j) = d
            BY <1>3, <1>10, <2>3, <2>5, <3>1
        <3>2. ASSUME NEW i \in KeptCells, Old(i) = d
              PROVE  \E j \in KeptCells' : New(j) = d
            <4>1. CASE i = hole + 1
                BY <1>3, <1>10, <2>3, <2>5, <3>2, <4>1
            <4>2. CASE i # hole + 1
                BY <1>10, <2>3, <3>2, <4>2
            <4> QED BY <4>1, <4>2
        <3> QED BY <3>1, <3>2
    <2>8. \A d \in Conn : Connected(d)' <=> Connected(d)
        BY <1>1 DEF Connected
    <2>9. WithinMemory(list)'
        BY <1>1, <1>2 DEF WithinMemory, ListSound
    <2>10. \A d \in Conn : Connected(d)' <=> \E i \in KeptCells' : New(i) = d
        BY <2>2, <2>7, <2>8
    <2> QED BY <1>1, <2>4, <2>6, <2>9, <2>10 DEF ListSound, New
<1>12. WriterSound'
    BY <1>1, <1>2, <1>3 DEF WriterSound
<1>13. WalksSound'
    <2> SUFFICES ASSUME NEW p \in Pub, Busy(p), NEW i \in 1 .. pub[p].view.len
                 PROVE  cells'[pub[p].view.arr][i] \in Conn
        BY <1>1, <1>2 DEF WalksSound, WalkSound, Busy, WithinMemory
    <2> DEFINE v == pub[p].view
    <2>1. v \in Slice /\ WithinMemory(v) /\ cells[v.arr][i] \in Conn
        BY <1>2 DEF HubTypeOK, Walk, WalksSound, WalkSound
    <2> HIDE DEF v
    <2>2. /\ v.len \in Nat /\ v.len <= Cells
          /\ v.len >= 1 => v.arr \in Arr
        BY <1>2, <2>1, SliceTyped
    <2>3. i \in 1 .. v.len
        BY DEF v
    <2>4. i \in 1 .. Cells /\ v.arr \in Arr
        BY <2>2, <2>3, Bounds
    <2>5. cells'[v.arr][i] \in Conn
        BY <1>6, <1>7, <2>1, <2>4
    <2> QED BY <2>5 DEF v
<1>14. QuietSound'
    <2> SUFFICES ASSUME NEW p \in Pub
                 PROVE  /\ pub[p].pc = "idle" => \A i \in 1 .. Cells : past'[p][i] = {}
                        /\ ~(~disturbed[p] /\ Busy(p))
        BY <1>1, <1>2 DEF QuietSound, UnseenOrQuiet, Busy
    <2>1. ASSUME pub[p].pc = "idle", NEW i \in 1 .. Cells
          PROVE  past'[p][i] = {}
        BY <1>2, <1>8, <2>1 DEF QuietSound, UnseenOrQuiet, Busy
    <2>2. ~(~disturbed[p] /\ Busy(p))
        BY <1>1, LeavingDisturbs
    <2> QED BY <2>1, <2>2
<1>15. QuietPublishExact'
    BY <1>1, <1>2 DEF QuietPublishExact
<1> QED BY <1>9, <1>11, <1>12, <1>13, <1>14, <1>15 DEF HubInv

LEMMA UnsubDoneKeeps ==
    ASSUME HubInv, UnsubDone
    PROVE  HubInv'
<1>1. /\ writer # NoConn /\ hole = list.len
      /\ list' = Shorter(list)
      /\ conn' = [conn EXCEPT ![writer] = "gone"]
      /\ writer' = NoConn /\ hole' = 1
      /\ UNCHANGED <<cells, size, queued, pub, past, due, tried, disturbed>>
    BY DEF UnsubDone, Release
<1>2. HubTypeOK /\ ListSound /\ WriterSound /\ WalksSound /\ QuietSound /\ QuietPublishExact
    BY DEF HubInv
<1>3. /\ list.len \in 0 .. Cells /\ list.len >= 1 /\ list.len \in Nat
      /\ list.arr \in Arr \cup {NoConn}
      /\ list = [arr |-> list.arr, len |-> list.len]
    BY <1>1, <1>2, Bounds DEF WriterSound, HubTypeOK, Slice
<1>4. list.arr \in Arr /\ list.len <= size[list.arr] /\ size[list.arr] \in 0 .. Cells
    <2>1. list \in Slice /\ WithinMemory(list)
        BY <1>2 DEF HubTypeOK, ListSound
    <2> QED BY <1>2, <1>3, <2>1, SliceTyped
<1>5. writer \in Conn /\ conn[writer] = "leaving"
    BY <1>1, <1>2 DEF HubTypeOK, WriterSound
<1>6. /\ conn' \in [Conn -> Progress]
      /\ \A d \in Conn : conn'[d] = IF d = writer THEN "gone" ELSE conn[d]
    BY <1>1, <1>2, <1>5 DEF HubTypeOK, Progress
<1>7. /\ list' \in Slice
      /\ list'.len = list.len - 1
      /\ list'.len # 0 => list'.arr = list.arr
      /\ list'.len = 0 => list'.arr = NoConn
    <2>1. CASE list.len = 1
        BY <1>1, <1>3, <2>1, Bounds DEF Shorter, Nil, Slice
    <2>2. CASE list.len # 1
        <3>1. list' = [arr |-> list.arr, len |-> list.len - 1]
            BY <1>1, <1>3, <2>2 DEF Shorter
        <3>2. list.len - 1 \in 0 .. Cells /\ list.len - 1 # 0
            BY <1>3, <2>2, Bounds
        <3> QED BY <1>3, <3>1, <3>2 DEF Slice
    <2> QED BY <2>1, <2>2
<1>8. HubTypeOK'
    <2>1. hole' \in 1 .. Cells
        BY <1>1, Bounds
    <2> QED BY <1>1, <1>2, <1>6, <1>7, <2>1 DEF HubTypeOK
<1>9. /\ KeptCells = 1 .. list.len - 1
      /\ KeptCells' = 1 .. list.len - 1
      /\ \A i \in 1 .. list.len - 1 : i \in 1 .. list.len /\ list'.arr = list.arr
    <2>1. (1 .. list.len) \ {list.len} = 1 .. list.len - 1
        BY <1>3
    <2>2. KeptCells' = 1 .. list.len - 1
        BY <1>1, <1>7 DEF KeptCells
    <2>3. \A i \in 1 .. list.len - 1 : i \in 1 .. list.len /\ list'.len # 0
        BY <1>3, <1>7
    <2> QED BY <1>1, <1>7, <2>1, <2>2, <2>3 DEF KeptCells
<1>10. ListSound'
    <2>1. \A d \in Conn : Connected(d)' <=> Connected(d)
        BY <1>5, <1>6 DEF Connected
    <2>2. WithinMemory(list)'
        <3>1. CASE list.len = 1
            BY <1>7, <3>1 DEF WithinMemory
        <3>2. CASE list.len # 1
            <4>1. list'.arr = list.arr /\ list'.len \in 1 .. size[list.arr]
                BY <1>3, <1>4, <1>7, <3>2, Bounds
            <4> QED BY <1>1, <1>4, <4>1, NoConnApart DEF WithinMemory
        <3> QED BY <3>1, <3>2
    <2>3. /\ \A i \in 1 .. list.len - 1 : cells'[list'.arr][i] = cells[list.arr][i]
          /\ \A i \in 1 .. list.len - 1 : cells'[list'.arr][i] \in Conn
        BY <1>1, <1>2, <1>9 DEF ListSound
    <2>4. \A i, j \in 1 .. list.len - 1 : cells'[list'.arr][i] = cells'[list'.arr][j] => i = j
        BY <1>2, <1>9, <2>3 DEF ListSound
    <2>5. \A d \in Conn : Connected(d)' <=> \E i \in 1 .. list.len - 1 : cells'[list'.arr][i] = d
        BY <1>2, <1>9, <2>1, <2>3 DEF ListSound
    <2> QED BY <1>7, <1>9, <2>2, <2>3, <2>4, <2>5 DEF ListSound
<1>11. WriterSound'
    <2>1. \A d \in Conn : conn'[d] # "leaving"
        BY <1>2, <1>6 DEF WriterSound
    <2> QED BY <1>1, <2>1, NoConnApart DEF WriterSound
<1>12. WalksSound'
    BY <1>1, <1>2 DEF WalksSound, WalkSound, Busy, WithinMemory
<1>13. QuietSound'
    <2>1. \A p \in Pub : Busy(p) => disturbed[p]
        BY <1>1, LeavingDisturbs
    <2> QED BY <1>1, <1>2, <2>1 DEF QuietSound, UnseenOrQuiet, Busy
<1>14. QuietPublishExact'
    BY <1>1, <1>2 DEF QuietPublishExact
<1> QED BY <1>8, <1>10, <1>11, <1>12, <1>13, <1>14 DEF HubInv

-----------------------------------------------------------------------------
(* Publish *)

\* A step of p leaves the list, its memory and all other calls alone.
OnlyCall(p) ==
    /\ UNCHANGED <<list, cells, size, conn, writer, hole, past, disturbed>>
    /\ \A r \in Pub : r # p => /\ pub'[r] = pub[r]
                               /\ due'[r] = due[r]
                               /\ tried'[r] = tried[r]

\* What a Publish promises when it ends.
Exactly(p) ==
    ~disturbed[p] =>
        /\ pub[p].pc # "panicked"
        /\ pub[p].pc = "done" => \A c \in Conn : tried[p][c] = IF c \in due[p] THEN 1 ELSE 0

LEMMA WalkKeeps ==
    ASSUME HubInv, NEW p \in Pub, OnlyCall(p), HubTypeOK',
           WalkSound(p)', UnseenOrQuiet(p)', Exactly(p)'
    PROVE  HubInv'
<1>1. UNCHANGED <<list, cells, size, conn, writer, hole, past, disturbed>>
    BY DEF OnlyCall
<1>2. ListSound' /\ WriterSound'
    BY <1>1 DEF HubInv, ListSound, KeptCells, Connected, WithinMemory, WriterSound
<1>3. ASSUME NEW r \in Pub, r # p
      PROVE  WalkSound(r)' /\ UnseenOrQuiet(r)' /\ Exactly(r)'
    <2>1. pub'[r] = pub[r] /\ due'[r] = due[r] /\ tried'[r] = tried[r]
        BY <1>3 DEF OnlyCall
    <2>2. WalkSound(r) /\ UnseenOrQuiet(r) /\ Exactly(r)
        BY DEF HubInv, WalksSound, QuietSound, QuietPublishExact, Exactly
    <2>3. WalkSound(r)'
        BY <1>1, <2>1, <2>2 DEF WalkSound, Busy, WithinMemory
    <2>4. UnseenOrQuiet(r)'
        BY <1>1, <2>1, <2>2 DEF UnseenOrQuiet, QuietWalk, SeenExactly, Busy
    <2>5. Exactly(r)'
        BY <1>1, <2>1, <2>2 DEF Exactly
    <2> QED BY <2>3, <2>4, <2>5
<1>4. \A r \in Pub : WalkSound(r)' /\ UnseenOrQuiet(r)' /\ Exactly(r)'
    BY <1>3
<1>5. WalksSound' /\ QuietSound'
    BY <1>4 DEF WalksSound, QuietSound
<1>6. QuietPublishExact'
    BY <1>4 DEF QuietPublishExact, Exactly
<1> QED BY <1>2, <1>5, <1>6 DEF HubInv

LEMMA PublishBeginKeeps ==
    ASSUME HubInv, NEW p \in Pub, PublishBegin(p)
    PROVE  HubInv'
<1> DEFINE begun == [NoWalk EXCEPT !.pc = "read", !.view = list]
<1>1. /\ pub[p].pc = "idle" /\ writer = NoConn
      /\ pub' = [pub EXCEPT ![p] = begun]
      /\ due' = [due EXCEPT ![p] = {c \in Conn : conn[c] \in {"on", "hung"}}]
      /\ UNCHANGED <<list, cells, size, conn, queued, writer, hole, past, tried, disturbed>>
    BY DEF PublishBegin
<1>2. HubTypeOK /\ ListSound /\ WalksSound /\ QuietSound
    BY DEF HubInv
<1>3. begun \in Walk
    <2>1. NoWalk \in Walk /\ list \in Slice
        BY <1>2, Bounds DEF NoWalk, Nil, Walk, Slice, HubTypeOK
    <2> QED BY <2>1 DEF Walk
<1>4. begun.pc = "read" /\ begun.view = list /\ begun.i = 1
    BY DEF NoWalk
<1> HIDE DEF begun
<1>5. pub' \in [Pub -> Walk] /\ pub'[p] = begun /\ \A r \in Pub : r # p => pub'[r] = pub[r]
    BY <1>1, <1>2, <1>3 DEF HubTypeOK
<1>6. /\ due' \in [Pub -> SUBSET Conn]
      /\ due'[p] = {c \in Conn : Connected(c)}
      /\ \A r \in Pub : r # p => due'[r] = due[r]
    BY <1>1, <1>2 DEF HubTypeOK, Connected
<1>7. HubTypeOK'
    BY <1>1, <1>2, <1>5, <1>6 DEF HubTypeOK
<1>8. OnlyCall(p)
    BY <1>1, <1>5, <1>6 DEF OnlyCall
<1>9. /\ \A c \in Conn : tried[p][c] = 0
      /\ \A i \in 1 .. Cells : past[p][i] = {}
    BY <1>1, <1>2 DEF QuietSound, UnseenOrQuiet
<1>10. /\ list.len \in Nat /\ list.len <= Cells
       /\ \A i \in 1 .. list.len : i \in 1 .. Cells
    BY <1>2, Bounds DEF HubTypeOK, Slice
<1>11. WalkSound(p)'
    <2>1. 1 <= list.len + 1
        BY <1>10
    <2>2. \A c \in Conn : tried'[p][c] + 1 <= 1
        BY <1>1, <1>9
    <2>3. WithinMemory(pub[p].view)'
        BY <1>1, <1>2, <1>4, <1>5 DEF ListSound, WithinMemory
    <2> QED BY <1>1, <1>2, <1>4, <1>5, <2>1, <2>2, <2>3 DEF WalkSound, ListSound
<1>12. QuietWalk(p)'
    <2>1. KeptCells = 1 .. list.len
        BY <1>1 DEF KeptCells
    <2>2. \A c \in Conn : c \in due'[p] <=> \E i \in 1 .. list.len : cells[list.arr][i] = c
        BY <1>2, <1>6, <2>1 DEF ListSound
    <2>3. SeenExactly(p)'
        <3>1. ~\E j \in 1 .. 1 - 1 : TRUE
            OBVIOUS
        <3> QED BY <1>1, <1>4, <1>5, <1>9, <3>1 DEF SeenExactly
    <2> QED BY <1>1, <1>4, <1>5, <1>9, <1>10, <2>2, <2>3 DEF QuietWalk
<1>13. UnseenOrQuiet(p)'
    BY <1>4, <1>5, <1>12 DEF UnseenOrQuiet
<1>14. Exactly(p)'
    BY <1>4, <1>5 DEF Exactly
<1> QED BY <1>7, <1>8, <1>11, <1>13, <1>14, WalkKeeps

\* What the call knows of the element that is next.
LEMMA WalkTyped ==
    ASSUME HubInv, NEW p \in Pub, Busy(p)
    PROVE  /\ pub[p] \in Walk
           /\ pub[p].view \in Slice /\ pub[p].view.len \in Nat /\ pub[p].view.len <= Cells
           /\ pub[p].i \in Nat /\ pub[p].i >= 1 /\ pub[p].i <= pub[p].view.len + 1
           /\ pub[p].view.len >= 1 => pub[p].view.arr \in Arr
           /\ WalkSound(p) /\ UnseenOrQuiet(p)
           /\ \A c \in Conn : tried[p][c] \in Nat /\ tried[p][c] + 1 <= pub[p].i
<1>1. HubTypeOK /\ WalkSound(p) /\ UnseenOrQuiet(p)
    BY DEF HubInv, WalksSound, QuietSound
<1>2. pub[p] \in Walk
    BY <1>1 DEF HubTypeOK
<1>3. pub[p].view \in Slice /\ pub[p].i \in 1 .. Cells + 1
    BY <1>2 DEF Walk
<1>4. WithinMemory(pub[p].view) /\ pub[p].i <= pub[p].view.len + 1
    BY <1>1 DEF WalkSound
<1>5. /\ pub[p].view.len \in Nat /\ pub[p].view.len <= Cells
      /\ pub[p].view.len >= 1 => pub[p].view.arr \in Arr
    BY <1>1, <1>3, <1>4, SliceTyped
<1>6. \A c \in Conn : tried[p][c] \in 0 .. Cells
    <2>1. tried[p] \in [Conn -> 0 .. Cells]
        BY <1>1 DEF HubTypeOK
    <2> QED BY <2>1
<1>7. \A c \in Conn : tried[p][c] \in Nat /\ tried[p][c] + 1 <= pub[p].i
    BY <1>1, <1>6, Bounds DEF WalkSound
<1> QED BY <1>1, <1>2, <1>3, <1>4, <1>5, <1>7, Bounds

LEMMA PublishReadKeeps ==
    ASSUME HubInv, NEW p \in Pub, PublishRead(p)
    PROVE  HubInv'
<1> DEFINE q == pub[p]
<1>1. /\ q.pc = "read"
      /\ UNCHANGED <<list, cells, size, conn, queued, writer, hole, past, due, tried, disturbed>>
    BY DEF PublishRead
<1>2. Busy(p)
    BY <1>1 DEF Busy
<1>3. /\ q \in Walk
      /\ q.view \in Slice /\ q.view.len \in Nat /\ q.view.len <= Cells
      /\ q.i \in Nat /\ q.i >= 1 /\ q.i <= q.view.len + 1
      /\ q.view.len >= 1 => q.view.arr \in Arr
      /\ WalkSound(p) /\ UnseenOrQuiet(p)
    BY <1>2, WalkTyped
<1>4. HubTypeOK
    BY DEF HubInv
<1>5. CASE Exhausted(q)
    <2>1. pub' = [pub EXCEPT ![p].pc = "done"]
        BY <1>5 DEF PublishRead
    <2>2. pub' \in [Pub -> Walk] /\ \A r \in Pub : r # p => pub'[r] = pub[r]
        <3>1. pub \in [Pub -> Walk]
            BY <1>4 DEF HubTypeOK
        <3> QED BY <2>1, <3>1 DEF Walk
    <2>3. pub'[p].pc = "done" /\ pub'[p].i = q.i
        BY <1>3, <1>4, <2>1 DEF HubTypeOK, Walk
    <2>4. HubTypeOK'
        BY <1>1, <1>4, <2>2 DEF HubTypeOK
    <2>5. OnlyCall(p)
        BY <1>1, <2>2 DEF OnlyCall
    <2>6. WalkSound(p)'
        BY <1>1, <1>3, <2>3 DEF WalkSound, Busy
    <2>7. UnseenOrQuiet(p)'
        BY <2>3 DEF UnseenOrQuiet, Busy
    <2>8. Exactly(p)'
        <3> SUFFICES ASSUME ~disturbed[p], NEW c \in Conn
                     PROVE  tried[p][c] = IF c \in due[p] THEN 1 ELSE 0
            BY <1>1, <2>3 DEF Exactly
        <3>1. QuietWalk(p)
            BY <1>2, <1>3 DEF UnseenOrQuiet
        <3>2. q.i - 1 = q.view.len
            BY <1>3, <1>5 DEF Exhausted
        <3>3. c \in due[p] <=> \E i \in 1 .. q.i - 1 : cells[q.view.arr][i] = c
            BY <3>1, <3>2 DEF QuietWalk
        <3> QED BY <3>1, <3>3 DEF QuietWalk, SeenExactly
    <2> QED BY <2>4, <2>5, <2>6, <2>7, <2>8, WalkKeeps
<1>6. CASE ~Exhausted(q)
    <2>1. PICK c \in {cells[q.view.arr][q.i]} \cup past[p][q.i] :
             pub' = [pub EXCEPT ![p] = [q EXCEPT !.pc = "send", !.ch = c]]
        BY <1>6 DEF PublishRead
    <2>2. q.i \in 1 .. q.view.len /\ q.i \in 1 .. Cells /\ q.i <= q.view.len
        BY <1>3, <1>6, Bounds DEF Exhausted
    <2>3. c \in Conn
        <3>1. cells[q.view.arr][q.i] \in Conn
            BY <1>2, <1>3, <2>2 DEF WalkSound
        <3>2. past[p][q.i] \subseteq Conn
            <4>1. past[p] \in [1 .. Cells -> SUBSET Conn]
                BY <1>4 DEF HubTypeOK
            <4> QED BY <2>2, <4>1
        <3> QED BY <3>1, <3>2
    <2> DEFINE sending == [q EXCEPT !.pc = "send", !.ch = c]
    <2>4. /\ sending \in Walk
          /\ sending.pc = "send" /\ sending.ch = c
          /\ sending.view = q.view /\ sending.i = q.i
        BY <1>3, <2>3 DEF Walk
    <2> HIDE DEF sending
    <2>5. /\ pub' \in [Pub -> Walk]
          /\ pub'[p] = sending
          /\ \A r \in Pub : r # p => pub'[r] = pub[r]
        BY <1>4, <2>1, <2>4 DEF HubTypeOK, sending
    <2>6. HubTypeOK'
        BY <1>1, <1>4, <2>5 DEF HubTypeOK
    <2>7. OnlyCall(p)
        BY <1>1, <2>5 DEF OnlyCall
    <2>8. WalkSound(p)'
        BY <1>1, <1>2, <1>3, <2>2, <2>3, <2>4, <2>5 DEF WalkSound, Busy, WithinMemory
    <2>9. ASSUME ~disturbed[p]
          PROVE  QuietWalk(p)'
        <3>1. QuietWalk(p)
            BY <1>2, <1>3, <2>9 DEF UnseenOrQuiet
        <3>2. c = cells[q.view.arr][q.i]
            BY <2>1, <2>2, <3>1 DEF QuietWalk
        <3>3. SeenExactly(p)'
            BY <1>1, <2>4, <2>5, <3>1 DEF QuietWalk, SeenExactly
        <3> QED BY <1>1, <2>4, <2>5, <3>1, <3>2, <3>3 DEF QuietWalk
    <2>10. UnseenOrQuiet(p)'
        BY <1>1, <2>4, <2>5, <2>9 DEF UnseenOrQuiet
    <2>11. Exactly(p)'
        BY <2>4, <2>5 DEF Exactly
    <2> QED BY <2>6, <2>7, <2>8, <2>10, <2>11, WalkKeeps
<1> QED BY <1>5, <1>6

LEMMA PublishSendKeeps ==
    ASSUME HubInv, NEW p \in Pub, PublishSend(p)
    PROVE  HubInv'
<1> DEFINE q == pub[p]
<1>1. /\ q.pc = "send"
      /\ UNCHANGED <<list, cells, size, conn, writer, hole, past, due, disturbed>>
    BY DEF PublishSend
<1>2. Busy(p)
    BY <1>1 DEF Busy
<1>3. /\ q \in Walk
      /\ q.view \in Slice /\ q.view.len \in Nat /\ q.view.len <= Cells
      /\ q.i \in Nat /\ q.i >= 1 /\ q.i <= q.view.len + 1
      /\ q.view.len >= 1 => q.view.arr \in Arr
      /\ WalkSound(p) /\ UnseenOrQuiet(p)
      /\ \A c \in Conn : tried[p][c] \in Nat /\ tried[p][c] + 1 <= q.i
    BY <1>2, WalkTyped
<1>4. HubTypeOK
    BY DEF HubInv
<1>5. q.i <= q.view.len /\ q.ch \in Conn
    BY <1>1, <1>3 DEF WalkSound
\* In a quiet walk, the connection is in the list, and was not seen before.
<1>6. ASSUME ~disturbed[p]
      PROVE  /\ QuietWalk(p)
             /\ q.ch = cells[q.view.arr][q.i]
             /\ conn[q.ch] # "gone"
             /\ \A j \in 1 .. q.i - 1 : cells[q.view.arr][j] # q.ch
    <2>1. QuietWalk(p)
        BY <1>2, <1>3, <1>6 DEF UnseenOrQuiet
    <2>2. q.ch = cells[q.view.arr][q.i] /\ writer = NoConn /\ q.view.len <= list.len
        BY <1>1, <2>1 DEF QuietWalk
    <2>3. KeptCells = 1 .. list.len /\ list.len \in Nat
        BY <1>4, <2>2, Bounds DEF KeptCells, HubTypeOK, Slice
    <2>4. /\ q.i \in 1 .. q.view.len
          /\ \A j \in 1 .. q.i - 1 : j \in 1 .. q.view.len /\ j # q.i
          /\ \A j \in 1 .. q.view.len : j \in KeptCells
        BY <1>3, <1>5, <2>2, <2>3
    <2>5. \A j \in 1 .. q.view.len : cells[q.view.arr][j] = cells[list.arr][j]
        BY <2>1 DEF QuietWalk
    <2>6. \A i, j \in KeptCells : cells[list.arr][i] = cells[list.arr][j] => i = j
        BY DEF HubInv, ListSound
    <2>7. Connected(q.ch)
        <3>1. cells[list.arr][q.i] = q.ch /\ q.i \in KeptCells
            BY <2>2, <2>4, <2>5
        <3> QED BY <1>5, <3>1 DEF HubInv, ListSound
    <2>8. \A j \in 1 .. q.i - 1 : cells[q.view.arr][j] # q.ch
        BY <2>2, <2>4, <2>5, <2>6
    <2> QED BY <2>1, <2>2, <2>7, <2>8 DEF Connected
<1>7. CASE conn[q.ch] = "gone"
    <2>1. /\ pub' = [pub EXCEPT ![p].pc = "panicked"]
          /\ queued' = queued /\ tried' = tried
        BY <1>7 DEF PublishSend
    <2>2. pub' \in [Pub -> Walk] /\ \A r \in Pub : r # p => pub'[r] = pub[r]
        <3>1. pub \in [Pub -> Walk]
            BY <1>4 DEF HubTypeOK
        <3> QED BY <2>1, <3>1 DEF Walk
    <2>3. pub'[p].pc = "panicked" /\ pub'[p].i = q.i
        BY <1>3, <1>4, <2>1 DEF HubTypeOK, Walk
    <2>4. HubTypeOK'
        BY <1>1, <1>4, <2>1, <2>2 DEF HubTypeOK
    <2>5. OnlyCall(p)
        BY <1>1, <2>1, <2>2 DEF OnlyCall
    <2>6. WalkSound(p)'
        BY <2>1, <1>3, <2>3 DEF WalkSound, Busy
    <2>7. UnseenOrQuiet(p)'
        BY <2>3 DEF UnseenOrQuiet, Busy
    <2>8. Exactly(p)'
        BY <1>1, <1>6, <1>7 DEF Exactly
    <2> QED BY <2>4, <2>5, <2>6, <2>7, <2>8, WalkKeeps
<1>8. CASE conn[q.ch] # "gone"
    <2>1. /\ pub' = [pub EXCEPT ![p].pc = "read", ![p].i = q.i + 1]
          /\ queued' = [queued EXCEPT ![q.ch] = Enqueued(queued[q.ch])]
          /\ tried' = [tried EXCEPT ![p][q.ch] = tried[p][q.ch] + 1]
        BY <1>8 DEF PublishSend
    <2>2. q.i + 1 \in 1 .. Cells + 1 /\ q.i + 1 <= q.view.len + 1
        BY <1>3, <1>5, Bounds
    <2>3. /\ pub' \in [Pub -> Walk]
          /\ \A r \in Pub : r # p => pub'[r] = pub[r]
          /\ pub'[p].pc = "read" /\ pub'[p].i = q.i + 1 /\ pub'[p].view = q.view
        <3> DEFINE moved == [q EXCEPT !.pc = "read", !.i = q.i + 1]
        <3>1. /\ moved \in Walk
              /\ moved.pc = "read" /\ moved.i = q.i + 1 /\ moved.view = q.view
            BY <1>3, <2>2 DEF Walk
        <3>2. pub' = [pub EXCEPT ![p] = moved]
            BY <1>4, <2>1 DEF HubTypeOK
        <3> HIDE DEF moved
        <3> QED BY <1>4, <3>1, <3>2 DEF HubTypeOK
    <2>4. queued' \in [Conn -> 0 .. Buffer]
        <3>1. queued \in [Conn -> 0 .. Buffer] /\ queued[q.ch] \in 0 .. Buffer
            BY <1>4, <1>5 DEF HubTypeOK
        <3>2. Enqueued(queued[q.ch]) \in 0 .. Buffer
            BY <3>1, Bounds DEF Enqueued
        <3> QED BY <2>1, <3>1, <3>2
    <2>5. /\ tried' \in [Pub -> [Conn -> 0 .. Cells]]
          /\ \A r \in Pub : r # p => tried'[r] = tried[r]
          /\ \A c \in Conn : tried'[p][c] = IF c = q.ch THEN tried[p][c] + 1 ELSE tried[p][c]
        <3>1. tried \in [Pub -> [Conn -> 0 .. Cells]] /\ tried[p] \in [Conn -> 0 .. Cells]
            BY <1>4 DEF HubTypeOK
        <3>2. tried[p][q.ch] + 1 \in 0 .. Cells
            BY <1>3, <1>5, Bounds
        <3> DEFINE more == [tried[p] EXCEPT ![q.ch] = tried[p][q.ch] + 1]
        <3>3. /\ more \in [Conn -> 0 .. Cells]
              /\ \A c \in Conn : more[c] = IF c = q.ch THEN tried[p][c] + 1 ELSE tried[p][c]
            BY <1>5, <3>1, <3>2
        <3>4. tried' = [tried EXCEPT ![p] = more]
            BY <2>1, <3>1
        <3> HIDE DEF more
        <3> QED BY <3>1, <3>3, <3>4
    <2>6. HubTypeOK'
        BY <1>1, <1>4, <2>3, <2>4, <2>5 DEF HubTypeOK
    <2>7. OnlyCall(p)
        BY <1>1, <2>3, <2>5 DEF OnlyCall
    <2>8. WalkSound(p)'
        <3>1. \A c \in Conn : tried'[p][c] + 1 <= q.i + 1
            BY <1>3, <2>5
        <3>2. WithinMemory(pub[p].view)'
            BY <1>1, <1>2, <1>3, <2>3 DEF WalkSound, WithinMemory
        <3> QED BY <1>1, <1>2, <1>3, <2>2, <2>3, <3>1, <3>2 DEF WalkSound
    <2>9. ASSUME ~disturbed[p]
          PROVE  QuietWalk(p)'
        <3>1. /\ QuietWalk(p)
              /\ q.ch = cells[q.view.arr][q.i]
              /\ \A j \in 1 .. q.i - 1 : cells[q.view.arr][j] # q.ch
            BY <1>6, <2>9
        <3>2. SeenExactly(p)'
            <4> SUFFICES ASSUME NEW c \in Conn
                         PROVE  tried'[p][c] = IF \E j \in 1 .. q.i : cells[q.view.arr][j] = c
                                               THEN 1 ELSE 0
                <5>1. pub'[p].i - 1 = q.i
                    BY <1>3, <2>3
                <5> QED BY <1>1, <2>3, <5>1 DEF SeenExactly
            <4>1. tried[p][c] = IF \E j \in 1 .. q.i - 1 : cells[q.view.arr][j] = c THEN 1 ELSE 0
                BY <3>1 DEF QuietWalk, SeenExactly
            <4>2. \A j \in 1 .. q.i : j \in 1 .. q.i - 1 \/ j = q.i
                BY <1>3
            <4>3. q.i \in 1 .. q.i /\ \A j \in 1 .. q.i - 1 : j \in 1 .. q.i
                BY <1>3
            <4>4. CASE c = q.ch
                <5>1. tried[p][c] = 0
                    BY <3>1, <4>1, <4>4
                <5>2. tried'[p][c] = 1
                    BY <2>5, <4>4, <5>1
                <5> QED BY <3>1, <4>3, <4>4, <5>2
            <4>5. CASE c # q.ch
                <5>1. tried'[p][c] = tried[p][c]
                    BY <2>5, <4>5
                <5>2. (\E j \in 1 .. q.i : cells[q.view.arr][j] = c)
                         <=> \E j \in 1 .. q.i - 1 : cells[q.view.arr][j] = c
                    BY <3>1, <4>2, <4>3, <4>5
                <5> QED BY <4>1, <5>1, <5>2
            <4> QED BY <4>4, <4>5
        <3> QED BY <1>1, <2>3, <3>1, <3>2 DEF QuietWalk
    <2>10. UnseenOrQuiet(p)'
        BY <1>1, <2>3, <2>9 DEF UnseenOrQuiet
    <2>11. Exactly(p)'
        BY <2>3 DEF Exactly
    <2> QED BY <2>6, <2>7, <2>8, <2>10, <2>11, WalkKeeps
<1> QED BY <1>7, <1>8

-----------------------------------------------------------------------------

LEMMA HubInitInv == HubInit => HubInv
<1> SUFFICES ASSUME HubInit PROVE HubInv
    OBVIOUS
<1> USE DEF HubInit
<1>1. NoWalk \in Walk /\ Nil \in Slice
    BY Bounds DEF NoWalk, Nil, Walk, Slice
<1>2. NoWalk.pc = "idle" /\ NoWalk.i = 1 /\ Nil.arr = NoConn /\ Nil.len = 0
    BY DEF NoWalk, Nil
<1>3. HubTypeOK
    <2>1. pub \in [Pub -> Walk] /\ list \in Slice
        BY <1>1
    <2>2. size \in [Arr -> 0 .. Cells] /\ hole \in 1 .. Cells /\ queued \in [Conn -> 0 .. Buffer]
        BY Bounds
    <2>3. tried \in [Pub -> [Conn -> 0 .. Cells]]
        BY Bounds
    <2>4. past \in [Pub -> [1 .. Cells -> SUBSET Conn]]
        OBVIOUS
    <2> QED BY <2>1, <2>2, <2>3, <2>4 DEF HubTypeOK, Progress
<1>4. ~\E i \in 1 .. list.len : TRUE
    BY <1>2
<1>5. ListSound
    BY <1>2, <1>4 DEF ListSound, WithinMemory, KeptCells, Connected
<1>6. WriterSound
    BY NoConnApart DEF WriterSound
<1>7. WalksSound
    BY <1>2 DEF WalksSound, WalkSound, Busy
<1>8. QuietSound
    BY <1>2 DEF QuietSound, UnseenOrQuiet, Busy
<1>9. QuietPublishExact
    BY <1>2 DEF QuietPublishExact
<1> QED BY <1>3, <1>5, <1>6, <1>7, <1>8, <1>9 DEF HubInv

LEMMA HubNextKeeps == HubInv /\ [HubNext]_hubVars => HubInv'
<1> SUFFICES ASSUME HubInv, [HubNext]_hubVars PROVE HubInv'
    OBVIOUS
<1>1. ASSUME NEW c \in Conn, Subscribe(c) \/ Receive(c) \/ HangUp(c) \/ UnsubLock(c)
      PROVE  HubInv'
    BY <1>1, SubscribeKeeps, ReceiveKeeps, HangUpKeeps, UnsubLockKeeps
<1>2. CASE UnsubShift
    BY <1>2, UnsubShiftKeeps
<1>3. CASE UnsubDone
    BY <1>3, UnsubDoneKeeps
<1>4. ASSUME NEW p \in Pub, PublishBegin(p) \/ Publish(p)
      PROVE  HubInv'
    BY <1>4, PublishBeginKeeps, PublishReadKeeps, PublishSendKeeps DEF Publish
<1>5. CASE UNCHANGED hubVars
    <2> USE <1>5 DEF hubVars
    <2>1. HubTypeOK' /\ QuietPublishExact'
        BY DEF HubInv, HubTypeOK, QuietPublishExact
    <2>2. ListSound' /\ WriterSound'
        BY DEF HubInv, ListSound, KeptCells, Connected, WithinMemory, WriterSound
    <2>3. WalksSound'
        BY DEF HubInv, WalksSound, WalkSound, Busy, WithinMemory
    <2>4. QuietSound'
        BY DEF HubInv, QuietSound, UnseenOrQuiet, QuietWalk, SeenExactly, Busy
    <2> QED BY <2>1, <2>2, <2>3, <2>4 DEF HubInv
<1> QED BY <1>1, <1>2, <1>3, <1>4, <1>5 DEF HubNext

\* The inductive invariant of the hub: what of the shared memory the list, an
\* unsubscribe that shifts it and every Publish that walks it can rely on.
THEOREM HubInductive == HubSpec => []HubInv
BY HubInitInv, HubNextKeeps, PTL DEF HubSpec

\* While nobody unsubscribes, the list holds every connection whose channel is
\* open once and nothing else: no subscription and no Publish gets lost.
THEOREM RegistryCorrect == HubSpec => []RegistrySound
<1>1. HubInv => RegistrySound
    <2> SUFFICES ASSUME HubInv PROVE RegistrySound
        OBVIOUS
    <2>1. HubTypeOK /\ ListSound
        BY DEF HubInv
    <2>2. ASSUME writer = NoConn
          PROVE  /\ \A i, j \in 1 .. list.len : cells[list.arr][i] = cells[list.arr][j] => i = j
                 /\ \A c \in Conn : Listed(c) <=> conn[c] \in {"on", "hung"}
        <3>1. KeptCells = 1 .. list.len
            BY <2>2 DEF KeptCells
        <3> QED BY <2>1, <3>1 DEF ListSound, Listed, Connected
    <2> QED BY <2>1, <2>2 DEF RegistrySound
<1> QED BY <1>1, HubInductive, PTL

\* A Publish during which no connection of the user leaves tries each connection
\* it found exactly once, no other, and does not send on a closed channel.
THEOREM PublishCorrect == HubSpec => []QuietPublishExact
<1>1. HubInv => QuietPublishExact
    BY DEF HubInv
<1> QED BY <1>1, HubInductive, PTL

=============================================================================
