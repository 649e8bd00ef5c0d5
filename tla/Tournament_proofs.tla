------------------------- MODULE Tournament_proofs -------------------------
(***************************************************************************)
(* Proofs about Tournament, for every number of accounts, places and       *)
(* requests in flight.                                                     *)
(***************************************************************************)
EXTENDS Tournament, FiniteSetTheorems, TLAPS

USE TournamentAssumption

-----------------------------------------------------------------------------
(* Type correctness.                                                       *)

LEMMA IdleTyped == Idle \in Locals
BY DEF Idle, Locals, Step

LEMMA BeginsTyped ==
    /\ \A pc \in Step, u \in User \cup {None} : Asked(pc, u) \in Locals
    /\ \A pc \in Step, no \in 0 .. Draws, last \in BOOLEAN : Judging(pc, no, last) \in Locals
<1>1. ASSUME NEW pc \in Step, NEW u \in User \cup {None}
      PROVE  Asked(pc, u) \in Locals
  <2>1. 0 \in 0 .. Draws
    OBVIOUS
  <2> QED BY <2>1 DEF Asked, Idle, Locals
<1>2. ASSUME NEW pc \in Step, NEW no \in 0 .. Draws, NEW last \in BOOLEAN
      PROVE  Judging(pc, no, last) \in Locals
  BY DEF Judging, Idle, Locals
<1> QED BY <1>1, <1>2

LEMMA LocalsUpdates ==
    \A q \in Locals :
        /\ \A pc \in Step : At(q, pc) \in Locals
        /\ \A field \in SUBSET Seat : Placing(q, field) \in Locals
BY DEF Locals, At, Placing, Step, OfDesk

LEMMA FixturesUpdates ==
    /\ \A no \in 0 .. Draws, field \in SUBSET Seat : Drawn(no, field) \in Fixtures
    /\ \A d \in Fixtures, a, b \in BOOLEAN : Noted(d, a, b) \in Fixtures
BY DEF Fixtures, Drawn, Noted

LEMMA LocalsTyped ==
    ASSUME TypeOK, NEW r \in Slot
    PROVE  /\ req[r] \in Locals
           /\ req[r].user \in User \cup {None}
           /\ req[r].found \in SUBSET Seat
           /\ draw.no \in 0 .. Draws
           /\ draw.field \in SUBSET Seat
           /\ draw.reported \in BOOLEAN
           /\ draw.played \in BOOLEAN
BY DEF TypeOK, Locals, Fixtures

LEMMA ReplyTyped ==
    ASSUME TypeOK, NEW r \in Slot, Reply(r)
    PROVE  req' \in [Slot -> Locals]
BY IdleTyped DEF TypeOK, Reply

LEMMA GotoTyped ==
    ASSUME TypeOK, NEW r \in Slot, NEW pc \in Step, Goto(r, pc)
    PROVE  req' \in [Slot -> Locals]
BY LocalsUpdates DEF TypeOK, Goto

LEMMA ServeTyped ==
    ASSUME TypeOK, NEW r \in Slot, NEW q \in Locals, Serve(r, q)
    PROVE  TypeOK'
BY DEF TypeOK, Serve

LEMMA CheckTyped ==
    ASSUME TypeOK, NEW r \in Slot, NEW ok, NEW pc \in Step, Check(r, ok, pc)
    PROVE  TypeOK'
BY ReplyTyped, GotoTyped DEF TypeOK, Check

LEMMA PlayerTyped ==
    ASSUME TypeOK, NEW r \in Req, Player(r)
    PROVE  TypeOK'
<1>0. r \in Slot
  BY DEF Slot
<1>1. CASE \E u \in User : JoinBegin(r, u) \/ LeaveBegin(r, u)
  BY <1>0, <1>1, BeginsTyped, ServeTyped DEF JoinBegin, LeaveBegin, Step, OfPlayer
<1>2. CASE JoinProbe(r)
  BY <1>0, <1>2, CheckTyped DEF JoinProbe, Step, OfPlayer
<1>3. CASE JoinCount(r)
  BY <1>0, <1>3, CheckTyped DEF JoinCount, HasRoom, Step, OfPlayer
<1>4. CASE JoinInsert(r)
  BY <1>0, <1>4, ReplyTyped, LocalsTyped DEF JoinInsert, TypeOK
<1>5. CASE LeaveDelete(r)
  BY <1>0, <1>5, ReplyTyped DEF LeaveDelete, TypeOK
<1> QED BY <1>1, <1>2, <1>3, <1>4, <1>5 DEF Player

LEMMA OrganizerTyped ==
    ASSUME TypeOK, NEW d \in Desk, Organizer(d)
    PROVE  TypeOK'
<1>0. d \in Slot
  BY DEF Slot
<1>1. CASE LockBegin(d) \/ DrawBegin(d) \/ DeleteBegin(d)
  BY <1>0, <1>1, BeginsTyped, ServeTyped DEF LockBegin, DrawBegin, DeleteBegin, Step, OfDesk
<1>2. CASE LockCount(d)
  BY <1>0, <1>2, CheckTyped DEF LockCount, Step, OfDesk
<1>3. CASE LockWrite(d) \/ DrawOpen(d)
  BY <1>0, <1>3, ReplyTyped DEF LockWrite, DrawOpen, SetStatus, TypeOK, Status
<1>4. CASE DrawRead(d)
  BY <1>0, <1>4, ReplyTyped, LocalsUpdates DEF DrawRead, TypeOK
<1>5. CASE DrawReplace(d)
  <2>1. draw.no < Draws => draw.no + 1 \in 0 .. Draws
    BY <1>0, LocalsTyped
  <2> QED BY <1>0, <1>5, <2>1, ReplyTyped, GotoTyped, LocalsTyped, FixturesUpdates
             DEF DrawReplace, TypeOK, Step, OfDesk
<1>6. CASE DeleteWrite(d)
  BY <1>0, <1>6, ReplyTyped, LocalsTyped, FixturesUpdates DEF DeleteWrite, TypeOK, Status
<1> QED BY <1>1, <1>2, <1>3, <1>4, <1>5, <1>6 DEF Organizer

LEMMA ResultTyped ==
    ASSUME TypeOK, NEW r \in Slot, Result(r)
    PROVE  TypeOK'
<1>1. CASE SubmitBegin(r) \/ ConfirmBegin(r)
  BY <1>1, BeginsTyped, LocalsTyped, ServeTyped
     DEF SubmitBegin, ConfirmBegin, Step, OfResult
<1>2. CASE ReportWrite(r) \/ ClearWrite(r)
  BY <1>2, ReplyTyped, LocalsTyped, FixturesUpdates
     DEF ReportWrite, ClearWrite, SetDraw, TypeOK
<1>3. CASE CompleteWrite(r)
  BY <1>3, ReplyTyped, GotoTyped, LocalsTyped, FixturesUpdates
     DEF CompleteWrite, SetDraw, TypeOK, Step, OfResult
<1>4. CASE CrownWrite(r)
  BY <1>4, ReplyTyped DEF CrownWrite, SetStatus, TypeOK, Status
<1> QED BY <1>1, <1>2, <1>3, <1>4 DEF Result

LEMMA NextTyped == TypeOK /\ [Next]_vars => TypeOK'
<1> SUFFICES ASSUME TypeOK, [Next]_vars PROVE TypeOK'
  OBVIOUS
<1>1. ASSUME NEW r \in Slot, Die(r) PROVE TypeOK'
  BY <1>1, ReplyTyped DEF Die, TypeOK
<1>2. CASE UNCHANGED vars
  BY <1>2 DEF vars, TypeOK
<1> QED BY <1>1, <1>2, PlayerTyped, OrganizerTyped, ResultTyped DEF Next

LEMMA InitTyped == Init => TypeOK
BY IdleTyped, FixturesUpdates DEF Init, TypeOK, Status

\* Every variable of a tournament keeps its type.
THEOREM TypeCorrect == Spec => []TypeOK
<1> QED BY InitTyped, NextTyped, PTL DEF Spec

-----------------------------------------------------------------------------
(* What holds however requests interleave: Kept.                           *)

LEMMA FixturesFields ==
    /\ \A no \in 0 .. Draws, field \in SUBSET Seat :
        /\ Drawn(no, field).no = no
        /\ Drawn(no, field).field = field
        /\ Drawn(no, field).reported = FALSE
        /\ Drawn(no, field).played = FALSE
    /\ \A d \in Fixtures, a, b \in BOOLEAN :
        /\ Noted(d, a, b).no = d.no
        /\ Noted(d, a, b).field = d.field
        /\ Noted(d, a, b).reported = a
        /\ Noted(d, a, b).played = b
BY DEF Fixtures, Drawn, Noted

\* Only the slot that moves can enter or leave Admitted.
LEMMA AdmittedStep ==
    ASSUME TypeOK, NEW r \in Slot, NEW q, req' = [req EXCEPT ![r] = q]
    PROVE  /\ Admitted' \subseteq Admitted \cup {r}
           /\ q.pc # "joinInsert" => Admitted' = Admitted \ {r}
BY DEF TypeOK, Admitted, Slot

LEMMA PcAfter ==
    /\ Idle.pc = "idle"
    /\ \A q \in Locals, pc \in Step : At(q, pc).pc = pc
    /\ \A q \in Locals, field \in SUBSET Seat : Placing(q, field).pc = "drawReplace"
    /\ \A pc \in Step, u \in User \cup {None} : Asked(pc, u).pc = pc
    /\ \A pc \in Step, no \in 0 .. Draws, last \in BOOLEAN : Judging(pc, no, last).pc = pc
BY DEF Idle, Locals, At, Placing, Asked, Judging

LEMMA CountsFinite ==
    ASSUME TypeOK
    PROVE  /\ IsFiniteSet(roster) /\ Cardinality(roster) \in Nat
           /\ IsFiniteSet(Admitted) /\ Cardinality(Admitted) \in Nat
           /\ Cardinality(Admitted) <= Cardinality(Req)
           /\ Cardinality(Req) \in Nat
<1>1. roster \subseteq Seat /\ Admitted \subseteq Req
  BY DEF TypeOK, Admitted
<1> QED BY <1>1, FS_Subset, FS_CardinalityType

LEMMA PlacesShrink ==
    ASSUME TypeOK, RosterBounded, roster' \subseteq roster, Admitted' \subseteq Admitted
    PROVE  RosterBounded'
<1>1. /\ Cardinality(roster') \in Nat /\ Cardinality(roster') <= Cardinality(roster)
      /\ Cardinality(Admitted') \in Nat /\ Cardinality(Admitted') <= Cardinality(Admitted)
  BY CountsFinite, FS_Subset, FS_CardinalityType
<1> QED BY <1>1, CountsFinite DEF RosterBounded

\* A join that finds room takes one of the places below Max.
LEMMA PlacesTaken ==
    ASSUME TypeOK, TypeOK', Cardinality(roster) < Max, roster' = roster
    PROVE  RosterBounded'
<1>1. /\ Cardinality(Admitted') \in Nat
      /\ Cardinality(Admitted') <= Cardinality(Req)
  <2>1. Admitted' \subseteq Req
    BY DEF Admitted
  <2> QED BY <2>1, FS_Subset, FS_CardinalityType
<1> QED BY <1>1, CountsFinite DEF RosterBounded

\* The row a join adds fills the place it was counted for.
LEMMA PlacesFilled ==
    ASSUME TypeOK, RosterBounded, NEW r \in Admitted, NEW s,
           roster' = roster \cup {s}, Admitted' = Admitted \ {r}
    PROVE  RosterBounded'
<1>1. /\ Cardinality(roster') \in Nat
      /\ Cardinality(roster') <= Cardinality(roster) + 1
  <2>1. IsFiniteSet(roster \cup {s})
    BY CountsFinite, FS_AddElement
  <2>2. Cardinality(roster \cup {s}) \in {Cardinality(roster), Cardinality(roster) + 1}
    <3>1. CASE s \in roster
      <4>1. roster \cup {s} = roster
        BY <3>1
      <4> QED BY <4>1
    <3>2. CASE s \notin roster
      BY <3>2, CountsFinite, FS_AddElement
    <3> QED BY <3>1, <3>2
  <2> QED BY <2>2, CountsFinite
<1>2. Cardinality(Admitted') = Cardinality(Admitted) - 1
  BY CountsFinite, FS_RemoveElement
<1> QED BY <1>1, <1>2, CountsFinite DEF RosterBounded

Linked == FieldKept /\ DeletedIsGone

LEMMA PlayerKept ==
    ASSUME Kept, TypeOK', NEW r \in Req, Player(r)
    PROVE  Linked' /\ RosterBounded'
<1>0. TypeOK /\ RosterBounded /\ r \in Slot /\ req[r] \in Locals
  BY LocalsTyped DEF Kept, Slot
<1>1. CASE \E u \in User : JoinBegin(r, u) \/ LeaveBegin(r, u)
  <2>1. Admitted' = Admitted \ {r}
    BY <1>0, <1>1, AdmittedStep, PcAfter DEF JoinBegin, LeaveBegin, Serve, Step, OfPlayer
  <2>2. UNCHANGED <<status, roster, draw>>
    BY <1>1 DEF JoinBegin, LeaveBegin, Serve
  <2> QED BY <1>0, <2>1, <2>2, PlacesShrink DEF Kept, Linked, FieldKept, DeletedIsGone
<1>2. CASE JoinProbe(r)
  <2>1. Admitted' = Admitted \ {r}
    BY <1>0, <1>2, AdmittedStep, PcAfter DEF JoinProbe, Check, Goto, Reply, Step, OfPlayer
  <2>2. UNCHANGED <<status, roster, draw>>
    BY <1>2 DEF JoinProbe, Check
  <2> QED BY <1>0, <2>1, <2>2, PlacesShrink DEF Kept, Linked, FieldKept, DeletedIsGone
<1>3. CASE JoinCount(r)
  <2>1. UNCHANGED <<status, roster, draw>>
    BY <1>3 DEF JoinCount, Check
  <2>2. CASE Cardinality(roster) < Max
    BY <1>0, <2>1, <2>2, PlacesTaken DEF Kept, Linked, FieldKept, DeletedIsGone
  <2>3. CASE ~(Cardinality(roster) < Max)
    <3>1. Admitted' = Admitted \ {r}
      BY <1>0, <1>3, <2>3, AdmittedStep, PcAfter DEF JoinCount, HasRoom, Check, Reply
    <3> QED BY <1>0, <2>1, <3>1, PlacesShrink DEF Kept, Linked, FieldKept, DeletedIsGone
  <2> QED BY <2>2, <2>3
<1>4. CASE JoinInsert(r)
  <2>1. r \in Admitted /\ Admitted' = Admitted \ {r}
    BY <1>0, <1>4, AdmittedStep, PcAfter DEF JoinInsert, Reply, Running, Admitted
  <2>2. roster' = roster \/ \E s \in Seat : roster' = roster \cup {s}
    BY <1>4 DEF JoinInsert
  <2>3. RosterBounded'
    BY <1>0, <2>1, <2>2, PlacesShrink, PlacesFilled
  <2>4. Linked'
    BY <1>4 DEF JoinInsert, Insertable, Exists, Kept, Linked, FieldKept, DeletedIsGone
  <2> QED BY <2>3, <2>4
<1>5. CASE LeaveDelete(r)
  <2>1. Admitted' = Admitted \ {r}
    BY <1>0, <1>5, AdmittedStep, PcAfter DEF LeaveDelete, Reply
  <2>2. roster' \subseteq roster
    BY <1>5 DEF LeaveDelete
  <2>3. Linked'
    BY <1>5 DEF LeaveDelete, Removable, Referenced, Kept, Linked, FieldKept, DeletedIsGone
  <2> QED BY <1>0, <2>1, <2>2, <2>3, PlacesShrink
<1> QED BY <1>1, <1>2, <1>3, <1>4, <1>5 DEF Player

LEMMA OrganizerKept ==
    ASSUME Kept, NEW d \in Desk, Organizer(d)
    PROVE  Linked' /\ RosterBounded'
<1>0. /\ TypeOK /\ RosterBounded /\ d \in Slot /\ d \notin Req /\ req[d] \in Locals
      /\ draw.no \in 0 .. Draws /\ req[d].found \in SUBSET Seat
  BY LocalsTyped DEF Kept, Slot
\* A request of the organizer is no join.
<1>1. ASSUME NEW q, req' = [req EXCEPT ![d] = q]
      PROVE  Admitted' = Admitted
  BY <1>0, <1>1 DEF Admitted, TypeOK, Slot
<1>2. Admitted' = Admitted
  BY <1>1 DEF Organizer, LockBegin, LockCount, LockWrite, DrawBegin, DrawRead, DrawReplace,
              DrawOpen, DeleteBegin, DeleteWrite, Serve, Check, Goto, Reply
<1>3. roster' \subseteq roster
  BY DEF Organizer, LockBegin, LockCount, LockWrite, DrawBegin, DrawRead, DrawReplace,
         DrawOpen, DeleteBegin, DeleteWrite, Serve, Check
<1>4. Linked'
  <2>1. CASE LockBegin(d) \/ LockCount(d) \/ DrawBegin(d) \/ DrawRead(d) \/ DeleteBegin(d)
    BY <2>1 DEF LockBegin, LockCount, DrawBegin, DrawRead, DeleteBegin, Serve, Check,
                Kept, Linked, FieldKept, DeletedIsGone
  <2>2. CASE LockWrite(d) \/ DrawOpen(d)
    BY <2>2 DEF LockWrite, DrawOpen, SetStatus, Exists, Kept, Linked, FieldKept, DeletedIsGone
  <2>3. CASE DrawReplace(d)
    <3>1. draw.no < Draws => draw.no + 1 \in 0 .. Draws
      BY <1>0
    <3> QED BY <1>0, <2>3, <3>1, FixturesFields
               DEF DrawReplace, Exists, Kept, Linked, FieldKept, DeletedIsGone
  <2>4. CASE DeleteWrite(d)
    BY <1>0, <2>4, FixturesFields DEF DeleteWrite, Linked, FieldKept, DeletedIsGone
  <2> QED BY <2>1, <2>2, <2>3, <2>4 DEF Organizer
<1> QED BY <1>0, <1>2, <1>3, <1>4, PlacesShrink

\* What a result does to the fixtures: notes, but no players.
LEMMA ResultDraws ==
    ASSUME TypeOK, NEW r \in Slot, Result(r)
    PROVE  /\ draw'.field = draw.field /\ draw'.no = draw.no
           /\ draw.played => draw'.played
           /\ draw'.reported => draw.reported \/ req[r].pc \in OfResult
           /\ draw'.played => draw.played \/ req[r].pc \in OfResult
<1>0. draw \in Fixtures /\ draw.reported \in BOOLEAN /\ draw.played \in BOOLEAN
  BY DEF TypeOK, Fixtures
<1>1. CASE SubmitBegin(r) \/ ConfirmBegin(r) \/ CrownWrite(r)
  BY <1>1 DEF SubmitBegin, ConfirmBegin, CrownWrite, Serve
<1>2. ASSUME NEW a \in BOOLEAN, NEW b \in BOOLEAN, draw.played => b,
             draw' = draw \/ draw' = Noted(draw, a, b), req[r].pc \in OfResult
      PROVE  /\ draw'.field = draw.field /\ draw'.no = draw.no
             /\ draw.played => draw'.played
  BY <1>0, <1>2, FixturesFields
<1>3. CASE ReportWrite(r)
  <2>1. (draw' = draw \/ draw' = Noted(draw, TRUE, draw.played)) /\ req[r].pc \in OfResult
    BY <1>3 DEF ReportWrite, SetDraw, Running, OfResult
  <2> QED BY <1>0, <1>2, <2>1
<1>4. CASE ClearWrite(r)
  <2>1. PICK more \in {FALSE, draw.reported} : SetDraw(req[r].no, Noted(draw, more, draw.played))
    BY <1>4 DEF ClearWrite
  <2>2. (draw' = draw \/ draw' = Noted(draw, more, draw.played)) /\ req[r].pc \in OfResult
    BY <1>4, <2>1 DEF ClearWrite, SetDraw, Running, OfResult
  <2> QED BY <1>0, <1>2, <2>2
<1>5. CASE CompleteWrite(r)
  <2>1. PICK more \in {FALSE, draw.reported} : SetDraw(req[r].no, Noted(draw, more, TRUE))
    BY <1>5 DEF CompleteWrite
  <2>2. (draw' = draw \/ draw' = Noted(draw, more, TRUE)) /\ req[r].pc \in OfResult
    BY <1>5, <2>1 DEF CompleteWrite, SetDraw, Running, OfResult
  <2> QED BY <1>0, <1>2, <2>2
<1> QED BY <1>1, <1>3, <1>4, <1>5 DEF Result

LEMMA ResultKept ==
    ASSUME Kept, NEW r \in Slot, Result(r) \/ Die(r)
    PROVE  Linked' /\ RosterBounded'
<1>0. TypeOK /\ RosterBounded /\ req[r] \in Locals
  BY LocalsTyped DEF Kept
<1>1. Admitted' = Admitted \ {r}
  <2>1. CASE SubmitBegin(r) \/ ConfirmBegin(r)
    <3>1. PICK pc \in OfResult, last \in BOOLEAN, no \in 0 .. Draws : Serve(r, Judging(pc, no, last))
      BY <1>0, <2>1, LocalsTyped DEF SubmitBegin, ConfirmBegin, OfResult
    <3>2. Judging(pc, no, last).pc # "joinInsert"
      BY <1>0, LocalsTyped, PcAfter DEF Step, OfResult
    <3> QED BY <1>0, <3>1, <3>2, AdmittedStep DEF Serve
  <2>2. CASE ReportWrite(r) \/ ClearWrite(r) \/ CrownWrite(r) \/ Die(r)
    BY <1>0, <2>2, AdmittedStep, PcAfter DEF ReportWrite, ClearWrite, CrownWrite, Die, Reply
  <2>3. CASE CompleteWrite(r)
    BY <1>0, <2>3, AdmittedStep, PcAfter DEF CompleteWrite, Goto, Reply, Step, OfResult
  <2> QED BY <2>1, <2>2, <2>3 DEF Result
<1>2. roster' = roster
  BY DEF Result, SubmitBegin, ConfirmBegin, ReportWrite, ClearWrite, CompleteWrite, CrownWrite,
         Die, Serve
<1>3. draw'.field = draw.field
  BY <1>0, ResultDraws DEF Die
<1>4. status' = "DELETED" => status = "DELETED"
  BY DEF Result, SubmitBegin, ConfirmBegin, ReportWrite, ClearWrite, CompleteWrite, CrownWrite,
         Die, Serve, SetStatus
<1> QED BY <1>0, <1>1, <1>2, <1>3, <1>4, PlacesShrink
           DEF Kept, Linked, FieldKept, DeletedIsGone

LEMMA NextKept == Kept /\ [Next]_vars => Kept'
<1> SUFFICES ASSUME Kept, [Next]_vars PROVE Kept'
  OBVIOUS
<1>1. TypeOK'
  BY NextTyped DEF Kept
<1>2. CASE UNCHANGED vars
  BY <1>2 DEF vars, Kept, TypeOK, FieldKept, DeletedIsGone, RosterBounded, Admitted
<1>3. CASE Next
  BY <1>1, <1>3, PlayerKept, OrganizerKept, ResultKept DEF Next, Kept, Linked
<1> QED BY <1>2, <1>3

LEMMA InitKept == Init => Kept
<1> SUFFICES ASSUME Init PROVE Kept
  OBVIOUS
<1>1. TypeOK
  BY InitTyped
<1>2. roster = {} /\ Admitted = {}
  BY PcAfter DEF Init, Admitted, Slot
<1>3. RosterBounded
  BY <1>1, <1>2, CountsFinite, FS_EmptySet DEF RosterBounded
<1>4. FieldKept /\ DeletedIsGone
  BY FixturesFields DEF Init, FieldKept, DeletedIsGone
<1> QED BY <1>1, <1>3, <1>4 DEF Kept

\* The invariant that carries the next three theorems is inductive.
THEOREM KeptAlways == Spec => []Kept
<1> QED BY InitKept, NextKept, PTL DEF Spec

\* Joins that race overfill a tournament by fewer players than there are
\* requests in flight.
THEOREM RosterCorrect == Spec => []RosterBounded
<1>1. Kept => RosterBounded
  BY DEF Kept
<1> QED BY <1>1, KeptAlways, PTL

\* With one request in flight at a time, a tournament is never overfull.
THEOREM OneByOneCorrect ==
    ASSUME Cardinality(Req) = 1
    PROVE  Spec => [](Cardinality(roster) <= Max)
<1>1. Kept => Cardinality(roster) <= Max
  BY CountsFinite, TournamentAssumption DEF Kept, RosterBounded
<1> QED BY <1>1, KeptAlways, PTL

\* The players in the fixtures are still in the tournament.
THEOREM FieldCorrect == Spec => []FieldKept
<1>1. Kept => FieldKept
  BY DEF Kept
<1> QED BY <1>1, KeptAlways, PTL

\* A deleted tournament has no players and no fixtures, and gets none.
THEOREM DeletedCorrect == Spec => []DeletedIsGone
<1>1. Kept => DeletedIsGone
  BY DEF Kept
<1> QED BY <1>1, KeptAlways, PTL

-----------------------------------------------------------------------------
(* What holds when the organizer waits for each answer: Orderly.           *)

\* What a step of slot r leaves of the other slots.
LEMMA OnlySlot ==
    ASSUME TypeOK, NEW r \in Slot, NEW q, req' = [req EXCEPT ![r] = q]
    PROVE  req'[r] = q /\ \A s \in Slot : s # r => req'[s] = req[s]
BY DEF TypeOK

\* A request of a player changes neither the status nor the fixtures.
LEMMA PlayerOrderly ==
    ASSUME Orderly, NEW r \in Req, Player(r)
    PROVE  DeskSound' /\ ResultSound' /\ status' = status /\ draw' = draw
<1>0. TypeOK /\ r \in Slot /\ r \notin Desk /\ req[r] \in Locals
  BY LocalsTyped DEF Orderly, Slot
<1>1. status' = status /\ draw' = draw
  BY DEF Player, JoinBegin, JoinProbe, JoinCount, JoinInsert, LeaveBegin, LeaveDelete, Serve, Check
<1>2. req'[r].pc \notin OfResult /\ \A s \in Slot : s # r => req'[s] = req[s]
  <2>1. ASSUME Reply(r)
        PROVE  req'[r].pc \notin OfResult /\ \A s \in Slot : s # r => req'[s] = req[s]
    BY <1>0, <2>1, OnlySlot, PcAfter DEF Reply, OfResult
  <2>2. ASSUME NEW pc \in OfPlayer, Goto(r, pc)
        PROVE  req'[r].pc \notin OfResult /\ \A s \in Slot : s # r => req'[s] = req[s]
    <3>1. req'[r] = At(req[r], pc) /\ \A s \in Slot : s # r => req'[s] = req[s]
      BY <1>0, <2>2 DEF Goto, TypeOK
    <3> QED BY <1>0, <3>1, PcAfter DEF Step, OfPlayer, OfResult
  <2>3. CASE \E u \in User : JoinBegin(r, u) \/ LeaveBegin(r, u)
    BY <1>0, <2>3, OnlySlot, PcAfter DEF JoinBegin, LeaveBegin, Serve, Step, OfPlayer, OfResult
  <2>4. CASE JoinProbe(r) \/ JoinCount(r)
    BY <2>1, <2>2, <2>4 DEF JoinProbe, JoinCount, Check, OfPlayer
  <2>5. CASE JoinInsert(r) \/ LeaveDelete(r)
    BY <2>1, <2>5 DEF JoinInsert, LeaveDelete
  <2> QED BY <2>3, <2>4, <2>5 DEF Player
<1>3. \A d \in Desk : req'[d] = req[d]
  BY <1>0, <1>2 DEF Slot
<1> QED BY <1>1, <1>2, <1>3 DEF Orderly, DeskSound, ResultSound, Started

\* What the organizer's only request may do to the status and the fixtures.
LEMMA OrganizerOrderly ==
    ASSUME OneDesk, Orderly, NEW d \in Desk, Organizer(d)
    PROVE  /\ DeskSound' /\ ResultSound'
           /\ status' # status => <<status, status'>> \in Flow
           /\ draw.played => draw' = draw
<1>0. /\ TypeOK /\ d \in Slot /\ req[d] \in Locals
      /\ \A e \in Desk : e = d
      /\ draw.no \in 0 .. Draws /\ req[d].found \in SUBSET Seat
  BY LocalsTyped DEF Orderly, Slot, OneDesk
\* The two invariants follow from what becomes of d, the status and the fixtures.
<1>1. ASSUME req'[d].pc \notin OfResult, \A s \in Slot : s # d => req'[s] = req[s],
             req'[d].pc \in {"lockCount", "lockWrite"} => status' = "REGISTRATION",
             req'[d].pc \in {"drawRead", "drawReplace", "drawOpen"} => status' = "LOCKED",
             req'[d].pc = "deleteWrite" => status' \in {"REGISTRATION", "LOCKED"},
             Started => Started',
             (draw'.played \/ draw'.reported) => (draw.played \/ draw.reported)
      PROVE  DeskSound' /\ ResultSound'
  BY <1>0, <1>1 DEF Orderly, DeskSound, ResultSound, OfResult
<1>2. ASSUME Reply(d)
      PROVE  req'[d].pc = "idle" /\ \A s \in Slot : s # d => req'[s] = req[s]
  BY <1>0, <1>2, PcAfter DEF Reply, TypeOK
<1>3. ASSUME NEW pc \in Step, Goto(d, pc)
      PROVE  req'[d].pc = pc /\ \A s \in Slot : s # d => req'[s] = req[s]
  BY <1>0, <1>3, PcAfter DEF Goto, TypeOK
<1>4. CASE LockBegin(d) \/ DrawBegin(d) \/ DeleteBegin(d)
  <2>1. PICK pc \in {"lockCount", "drawRead", "deleteWrite"} :
            /\ Serve(d, Asked(pc, None))
            /\ pc = "lockCount" => status = "REGISTRATION"
            /\ pc = "drawRead" => status = "LOCKED"
            /\ pc = "deleteWrite" => status \in {"REGISTRATION", "LOCKED"}
    BY <1>4 DEF LockBegin, DrawBegin, DeleteBegin, MayLock, MayDraw
  <2>2. req'[d].pc = pc /\ \A s \in Slot : s # d => req'[s] = req[s]
    <3>1. Asked(pc, None).pc = pc
      BY PcAfter DEF Step, OfDesk
    <3> QED BY <1>0, <2>1, <3>1 DEF Serve, TypeOK
  <2> QED BY <1>1, <2>1, <2>2 DEF Serve, Started, OfResult
<1>5. CASE LockCount(d)
  <2>1. status = "REGISTRATION" /\ UNCHANGED <<status, draw>>
    BY <1>5 DEF LockCount, Check, Running, Orderly, DeskSound
  <2>2. req'[d].pc \in {"idle", "lockWrite"} /\ \A s \in Slot : s # d => req'[s] = req[s]
    BY <1>2, <1>3, <1>5 DEF LockCount, Check, Step, OfDesk
  <2> QED BY <1>1, <2>1, <2>2 DEF Started, OfResult
<1>6. CASE LockWrite(d) \/ DrawOpen(d)
  <2>1. /\ Reply(d) /\ draw' = draw
        /\ \/ status = "REGISTRATION" /\ status' = "LOCKED"
           \/ status = "LOCKED" /\ status' = "ONGOING"
    BY <1>6 DEF LockWrite, DrawOpen, Running, SetStatus, Exists, Orderly, DeskSound
  <2> QED BY <1>1, <1>2, <2>1 DEF Started, OfResult, Flow
<1>7. CASE DrawRead(d)
  <2>1. status = "LOCKED" /\ UNCHANGED <<status, draw>>
    BY <1>7 DEF DrawRead, Running, Orderly, DeskSound
  <2>2. req'[d].pc \in {"idle", "drawReplace"} /\ \A s \in Slot : s # d => req'[s] = req[s]
    <3>1. CASE Reply(d)
      BY <1>2, <3>1
    <3>2. CASE req' = [req EXCEPT ![d] = Placing(@, roster)]
      <4>1. req'[d] = Placing(req[d], roster) /\ \A s \in Slot : s # d => req'[s] = req[s]
        BY <1>0, <3>2 DEF TypeOK
      <4> QED BY <1>0, <4>1, PcAfter DEF TypeOK
    <3> QED BY <1>7, <3>1, <3>2 DEF DrawRead
  <2> QED BY <1>1, <2>1, <2>2 DEF Started, OfResult
<1>8. CASE DrawReplace(d)
  <2>1. status = "LOCKED" /\ UNCHANGED status
    BY <1>8 DEF DrawReplace, Running, Orderly, DeskSound
  <2>2. ~draw.played
    BY <2>1 DEF Orderly, ResultSound, Started
  <2>3. draw.no < Draws => draw.no + 1 \in 0 .. Draws
    BY <1>0
  <2>4. draw' = draw \/ (draw'.played = FALSE /\ draw'.reported = FALSE)
    BY <1>0, <1>8, <2>3, FixturesFields DEF DrawReplace
  <2>5. req'[d].pc \in {"idle", "drawOpen"} /\ \A s \in Slot : s # d => req'[s] = req[s]
    BY <1>2, <1>3, <1>8 DEF DrawReplace, Step, OfDesk
  <2> QED BY <1>1, <2>1, <2>2, <2>4, <2>5 DEF Started, OfResult
<1>9. CASE DeleteWrite(d)
  <2>1. /\ status \in {"REGISTRATION", "LOCKED"} /\ status' = "DELETED" /\ Reply(d)
        /\ draw'.played = FALSE /\ draw'.reported = FALSE
    BY <1>0, <1>9, FixturesFields DEF DeleteWrite, Running, Orderly, DeskSound
  <2>2. ~draw.played
    BY <2>1 DEF Orderly, ResultSound, Started
  <2> QED BY <1>1, <1>2, <2>1, <2>2 DEF Started, OfResult, Flow
<1> QED BY <1>4, <1>5, <1>6, <1>7, <1>8, <1>9 DEF Organizer

LEMMA ResultOrderly ==
    ASSUME Orderly, NEW r \in Slot, Result(r)
    PROVE  /\ DeskSound' /\ ResultSound'
           /\ status' # status => <<status, status'>> \in Flow
           /\ draw.played => draw'.played
           /\ draw'.no = draw.no
<1>0. TypeOK /\ req[r] \in Locals /\ draw.no \in 0 .. Draws
  BY LocalsTyped DEF Orderly
<1>1. Started
  BY DEF Result, SubmitBegin, ConfirmBegin, ReportWrite, ClearWrite, CompleteWrite, CrownWrite,
         Running, OfResult, Orderly, ResultSound, Started
<1>2. Started' /\ (status' # status => <<status, status'>> \in Flow)
  BY <1>1 DEF Result, SubmitBegin, ConfirmBegin, ReportWrite, ClearWrite, CompleteWrite,
              CrownWrite, Serve, SetStatus, Exists, Started, Flow
<1>3. req'[r].pc \in {"idle"} \cup OfResult /\ \A s \in Slot : s # r => req'[s] = req[s]
  <2>1. CASE Reply(r)
    BY <1>0, <2>1, OnlySlot, PcAfter DEF Reply
  <2>2. CASE Goto(r, "crownWrite")
    <3>1. req'[r] = At(req[r], "crownWrite") /\ \A s \in Slot : s # r => req'[s] = req[s]
      BY <1>0, <2>2 DEF Goto, TypeOK
    <3> QED BY <1>0, <3>1, PcAfter DEF Step, OfResult
  <2>3. CASE SubmitBegin(r) \/ ConfirmBegin(r)
    <3>1. PICK pc \in OfResult, last \in BOOLEAN, no \in 0 .. Draws : Serve(r, Judging(pc, no, last))
      BY <1>0, <2>3, LocalsTyped DEF SubmitBegin, ConfirmBegin, OfResult
    <3>2. Judging(pc, no, last).pc = pc
      BY PcAfter DEF Step
    <3> QED BY <1>0, <3>1, <3>2 DEF Serve, TypeOK
  <2> QED BY <2>1, <2>2, <2>3 DEF Result, ReportWrite, ClearWrite, CompleteWrite, CrownWrite
\* The tournament has started, so no request of the organizer is half way.
<1>4. \A d \in Desk : req[d].pc \notin OfDesk
  BY <1>1 DEF Orderly, DeskSound, Started, OfDesk
<1>5. \A d \in Desk : req'[d].pc \notin OfDesk
  BY <1>3, <1>4 DEF Slot, OfDesk, OfResult
<1>6. DeskSound'
  BY <1>5 DEF DeskSound, OfDesk
<1>7. ResultSound'
  BY <1>2 DEF ResultSound
<1> QED BY <1>0, <1>2, <1>6, <1>7, ResultDraws

LEMMA DieOrderly ==
    ASSUME Orderly, NEW r \in Slot, Die(r)
    PROVE  DeskSound' /\ ResultSound' /\ status' = status /\ draw' = draw
<1>1. TypeOK
  BY DEF Orderly
<1>2. req'[r].pc = "idle" /\ \A s \in Slot : s # r => req'[s] = req[s]
  BY <1>1, OnlySlot, PcAfter DEF Die, Reply
<1> QED BY <1>2 DEF Die, Orderly, DeskSound, ResultSound, Started, OfResult, Slot

LEMMA NextOrderly ==
    ASSUME OneDesk, Orderly, [Next]_vars
    PROVE  /\ Orderly'
           /\ status' # status => <<status, status'>> \in Flow
           /\ draw.played => draw'.played /\ draw'.no = draw.no
<1>1. TypeOK'
  BY NextTyped DEF Orderly
<1>2. CASE UNCHANGED vars
  BY <1>2 DEF vars, Orderly, TypeOK, DeskSound, ResultSound, Started
<1>3. ASSUME NEW r \in Req, Player(r)
      PROVE  Orderly' /\ status' = status /\ draw' = draw
  BY <1>1, <1>3, PlayerOrderly DEF Orderly
<1>4. ASSUME NEW d \in Desk, Organizer(d)
      PROVE  /\ Orderly' /\ (status' # status => <<status, status'>> \in Flow)
             /\ draw.played => draw' = draw
  BY <1>1, <1>4, OrganizerOrderly DEF Orderly
<1>5. ASSUME NEW r \in Slot, Result(r) \/ Die(r)
      PROVE  /\ Orderly' /\ (status' # status => <<status, status'>> \in Flow)
             /\ draw.played => draw'.played /\ draw'.no = draw.no
  BY <1>1, <1>5, ResultOrderly, DieOrderly DEF Orderly
<1> QED BY <1>2, <1>3, <1>4, <1>5 DEF Next

LEMMA InitOrderly == Init => Orderly
BY InitTyped, PcAfter, FixturesFields
   DEF Init, Orderly, DeskSound, ResultSound, Slot, OfResult

\* For an organizer who waits for each answer, what his request has read still
\* holds when it writes.
THEOREM OrderlyAlways == OneDesk => (Spec => []Orderly)
<1> SUFFICES ASSUME OneDesk PROVE Spec => []Orderly
  OBVIOUS
<1>1. Orderly /\ [Next]_vars => Orderly'
  BY NextOrderly
<1> QED BY <1>1, InitOrderly, PTL DEF Spec

\* Then the status moves forward one stage at a time, whatever the players do.
THEOREM FlowCorrect == OneDesk => (Spec => StatusFlows)
<1> SUFFICES ASSUME OneDesk PROVE Spec => StatusFlows
  OBVIOUS
<1>1. Orderly /\ [Next]_vars => [status' # status => <<status, status'>> \in Flow]_status
  BY NextOrderly
<1> QED BY <1>1, OrderlyAlways, PTL DEF Spec, StatusFlows

\* And completed matches are never wiped by another draw or by a deletion.
THEOREM HistoryCorrect == OneDesk => (Spec => HistoryKept)
<1> SUFFICES ASSUME OneDesk PROVE Spec => HistoryKept
  OBVIOUS
<1>1. Orderly /\ [Next]_vars
        => [draw.played => draw'.played /\ draw'.no = draw.no]_draw
  BY NextOrderly
<1> QED BY <1>1, OrderlyAlways, PTL DEF Spec, HistoryKept

=============================================================================
