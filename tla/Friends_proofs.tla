--------------------------- MODULE Friends_proofs ---------------------------
(***************************************************************************)
(* Proofs about Friends, for any accounts, rows, groups, devices, numbers  *)
(* of requests in flight and of late sign-outs.                            *)
(*                                                                         *)
(* TablesSound and FriendsByConsent are not inductive: a reopening writes  *)
(* the row it read, and a leave removes the member it read.  IInv adds     *)
(* what such a request still knows of its row (the pair never changes,     *)
(* though the row may be gone) or of its group (the owner never changes),  *)
(* and that a pending request has its sender's consent. UndoneBounded also *)
(* rests on counting the requests that reopen a row: none joins them while *)
(* the row is pending or accepted.                                         *)
(***************************************************************************)
EXTENDS Friends, FiniteSetTheorems, TLAPS

Held(i) == rows[i].state \in {"pending", "accepted", "rejected"}

Pair(i) == {rows[i].from, rows[i].to}

\* A row that is held is of two existing accounts; any other is empty.
RowsSound ==
    \A i \in Row :
        IF Held(i) THEN Pair(i) \subseteq live /\ rows[i].from # rows[i].to
        ELSE rows[i].from = None /\ rows[i].to = None

OneRow == \A i, j \in Row : Held(i) /\ Pair(i) = Pair(j) => i = j

Consent ==
    \A i \in Row :
        /\ rows[i].state = "pending" => rows[i].from \in willing[i]
        /\ rows[i].state = "accepted" => Pair(i) \subseteq willing[i]

GroupsSound ==
    /\ \A g \in Group : LiveGroup(g) => groups[g].owner \in live /\ <<g, groups[g].owner>> \in members
    /\ \A g \in Group : ~LiveGroup(g) => groups[g].owner = None
    /\ \A m \in members : LiveGroup(m[1]) /\ m[2] \in live

DevicesSound == \A d \in Device : devices[d] \in live \cup {None}

\* What a request knows of the row or the group it read
Knows(q) ==
    /\ q.at \in {"insert", "reopen"} => q.user \in Account /\ q.other \in Account /\ q.user # q.other
    /\ q.at = "reopen" =>
        /\ q.row \in Row
        /\ rows[q.row].state # "free"
        /\ Held(q.row) => Pair(q.row) = {q.user, q.other}
    /\ q.at \in {"add", "remove"} => q.user \in Account /\ q.group \in Group
    /\ q.at = "remove" => groups[q.group].state # "free" /\ groups[q.group].owner # q.user

RequestsSound == \A r \in Req : Knows(req[r])

IInv ==
    /\ TypeOK
    /\ RowsSound
    /\ OneRow
    /\ Consent
    /\ GroupsSound
    /\ DevicesSound
    /\ RequestsSound

-----------------------------------------------------------------------------
(* Requests *)

LEMMA AskedFields ==
    ASSUME NEW at, NEW u, NEW o, NEW i, NEW g
    PROVE  LET q == Asked(at, u, o, i, g) IN
           q.at = at /\ q.user = u /\ q.other = o /\ q.row = i /\ q.group = g
BY DEF Asked

LEMMA IdleTyped == Idle \in Request /\ Idle.at = "idle"
BY DEF Idle, Asked, Request

\* A request is over: the others are as they were.
LEMMA FinishEffect ==
    ASSUME TypeOK, NEW r \in Req, Finish(r)
    PROVE  /\ req' \in [Req -> Request]
           /\ \A q \in Req : req'[q] = IF q = r THEN Idle ELSE req[q]
BY IdleTyped DEF TypeOK, Finish

\* An idle request knows nothing.
LEMMA IdleKnows == Knows(Idle) /\ Knows(Idle)'
BY IdleTyped DEF Knows, Idle

\* Without a change of the tables, and one new request that knows what it must.
LEMMA RequestStep ==
    ASSUME IInv, UNCHANGED <<tables, leaving, history>>, NEW r \in Req, NEW q \in Request, Knows(q),
           req' = [req EXCEPT ![r] = q]
    PROVE  IInv'
<1>1. TypeOK'
    BY DEF IInv, TypeOK, tables, history
<1>2. \A k \in Req : req'[k] = IF k = r THEN q ELSE req[k]
    BY DEF IInv, TypeOK
<1>3. ASSUME NEW x, Knows(x) PROVE Knows(x)'
    BY <1>3 DEF Knows, tables, Held, Pair
<1>4. RequestsSound'
    <2>1. ASSUME NEW k \in Req PROVE Knows(req'[k])
        BY <1>2, <2>1 DEF IInv, RequestsSound
    <2> QED BY <2>1, <1>3 DEF RequestsSound, Knows, tables, Held, Pair
<1>5. /\ RowsSound' /\ OneRow' /\ Consent' /\ GroupsSound' /\ DevicesSound'
    BY DEF IInv, tables, history, RowsSound, OneRow, Consent, GroupsSound, DevicesSound, Held, Pair, LiveGroup
<1> QED BY <1>1, <1>4, <1>5 DEF IInv

LEMMA SendRequestKeeps ==
    ASSUME IInv, NEW r \in Req, NEW a \in Account, NEW b \in Account, SendRequest(r, a, b)
    PROVE  IInv'
<1>1. CASE Between(a, b) = {}
    <2> DEFINE q == Asked("insert", a, b, None, None)
    <2>1. q \in Request
        BY DEF Asked, Request
    <2>2. Knows(q)
        BY AskedFields DEF Knows, SendRequest
    <2> QED BY <1>1, <2>1, <2>2, RequestStep DEF SendRequest
<1>2. CASE Between(a, b) # {}
    <2>1. PICK i \in Between(a, b) : i = CHOOSE j \in Between(a, b) : TRUE
        BY <1>2
    <2> DEFINE q == Asked("reopen", a, b, i, None)
    <2>3. i \in Row /\ Pair(i) = {a, b} /\ rows[i].state = "rejected"
        BY <2>1 DEF Between, Pair, SendRequest, MayAsk
    <2>4. q \in Request
        BY <2>3 DEF Asked, Request
    <2>5. Knows(q)
        BY <2>3, AskedFields DEF Knows, SendRequest
    <2> QED BY <1>2, <2>1, <2>4, <2>5, RequestStep DEF SendRequest
<1> QED BY <1>1, <1>2

LEMMA IdleKeeps ==
    ASSUME IInv, NEW r \in Req, Finish(r), UNCHANGED <<tables, leaving, history>>
    PROVE  IInv'
BY IdleTyped, IdleKnows, RequestStep DEF Finish

LEMMA JoinGroupKeeps ==
    ASSUME IInv, NEW r \in Req, NEW a \in Account, NEW g \in Group, JoinGroup(r, a, g)
    PROVE  IInv'
<1> DEFINE q == Asked("add", a, None, None, g)
<1>1. q \in Request
    BY DEF Asked, Request
<1>2. Knows(q)
    BY AskedFields DEF Knows
<1> QED BY <1>1, <1>2, RequestStep DEF JoinGroup

LEMMA LeaveGroupKeeps ==
    ASSUME IInv, NEW r \in Req, NEW a \in Account, NEW g \in Group, LeaveGroup(r, a, g)
    PROVE  IInv'
<1> DEFINE q == Asked("remove", a, None, None, g)
<1>1. q \in Request
    BY DEF Asked, Request
<1>2. Knows(q)
    BY AskedFields DEF Knows, LeaveGroup, LiveGroup, MayLeave
<1> QED BY <1>1, <1>2, RequestStep DEF LeaveGroup

-----------------------------------------------------------------------------
(* Friend requests *)

LEMMA EntryFields ==
    ASSUME NEW state, NEW from, NEW to
    PROVE  LET e == Entry(state, from, to) IN e.state = state /\ e.from = from /\ e.to = to
BY DEF Entry

\* What a row may be overwritten with: it is sound, and a request that read the
\* row still finds the pair it read, or a row that is gone.
Fits(i, state, from, to, w) ==
    /\ state \in {"pending", "accepted", "rejected", "dropped"}
    /\ from \in Account \cup {None} /\ to \in Account \cup {None}
    /\ w \subseteq Account
    /\ state = "dropped" => from = None /\ to = None
    /\ state # "dropped" =>
        /\ from \in live /\ to \in live /\ from # to
        /\ \A j \in Row : Held(j) /\ Pair(j) = {from, to} => j = i
        /\ Held(i) => Pair(i) = {from, to}
        /\ rows[i].state # "dropped"
    /\ state = "pending" => from \in w
    /\ state = "accepted" => from \in w /\ to \in w

\* The row is written by a request, which is then over, or by a single statement.
WriteRow(i, state, from, to, w) ==
    /\ rows' = [rows EXCEPT ![i] = Entry(state, from, to)]
    /\ willing' = [willing EXCEPT ![i] = w]
    /\ undone' \in [Row -> Nat]
    /\ req' \in [Req -> Request]
    /\ \A k \in Req : req'[k] = req[k] \/ req'[k] = Idle
    /\ UNCHANGED <<live, groups, members, devices, leaving>>

LEMMA RowStep ==
    ASSUME IInv, NEW i \in Row, NEW state, NEW from, NEW to, NEW w,
           Fits(i, state, from, to, w), WriteRow(i, state, from, to, w)
    PROVE  IInv'
<1> USE DEF Fits, WriteRow
<1> DEFINE e == Entry(state, from, to)
<1>0. e.state = state /\ e.from = from /\ e.to = to
    BY EntryFields
<1>1. e \in Friendship
    BY DEF Entry, Friendship
<1> HIDE DEF e
<1>2. TypeOK'
    BY <1>1 DEF IInv, TypeOK, e
<1>3. \A j \in Row : rows'[j] = IF j = i THEN e ELSE rows[j]
    BY DEF IInv, TypeOK, e
<1>4. \A j \in Row : willing'[j] = IF j = i THEN w ELSE willing[j]
    BY DEF IInv, TypeOK
<1>5. Held(i)' <=> state # "dropped"
    BY <1>0, <1>3 DEF Held
<1>6. Pair(i)' = {from, to}
    BY <1>0, <1>3 DEF Pair
<1>7. \A j \in Row : j # i => (Held(j)' <=> Held(j)) /\ Pair(j)' = Pair(j)
    BY <1>3 DEF Held, Pair
<1>8. RowsSound'
    BY <1>0, <1>3, <1>5, <1>6, <1>7 DEF IInv, RowsSound
<1>9. OneRow'
    <2> SUFFICES ASSUME NEW j \in Row, NEW k \in Row, Held(j)', Pair(j)' = Pair(k)'
                 PROVE  j = k
        BY DEF OneRow
    <2>1. CASE j = i /\ k # i
        <3>1. Pair(k) = {from, to} /\ from \in live /\ from # None
            BY <2>1, <1>5, <1>6, <1>7, FriendsAssumption DEF IInv, TypeOK
        <3>2. Held(k)
            BY <3>1 DEF IInv, RowsSound, Pair
        <3> QED BY <3>1, <3>2, <2>1, <1>5
    <2>2. CASE j # i /\ k = i
        <3>1. Held(j) /\ Pair(j) = {from, to}
            BY <2>2, <1>6, <1>7
        <3>2. Pair(j) \subseteq Account
            BY <3>1 DEF IInv, TypeOK, RowsSound
        <3>3. state # "dropped"
            BY <3>1, <3>2, FriendsAssumption
        <3> QED BY <2>2, <3>1, <3>3
    <2>3. CASE j # i /\ k # i
        BY <2>3, <1>7 DEF IInv, OneRow
    <2> QED BY <2>1, <2>2, <2>3
<1>10. Consent'
    <2> SUFFICES ASSUME NEW j \in Row
                 PROVE  /\ rows'[j].state = "pending" => rows'[j].from \in willing'[j]
                        /\ rows'[j].state = "accepted" => Pair(j)' \subseteq willing'[j]
        BY DEF Consent
    <2>1. CASE j = i
        BY <2>1, <1>0, <1>3, <1>4, <1>6
    <2>2. CASE j # i
        BY <2>2, <1>3, <1>4, <1>7 DEF IInv, Consent
    <2> QED BY <2>1, <2>2
<1>11. GroupsSound' /\ DevicesSound'
    BY DEF IInv, GroupsSound, DevicesSound, LiveGroup
<1>12. RequestsSound'
    <2>1. ASSUME NEW k \in Req, NEW q, q = req'[k] PROVE Knows(q)'
        <3>1. CASE q = Idle
            BY <3>1, IdleTyped DEF Knows
        <3>2. CASE q = req[k]
            <4>1. Knows(q)
                BY <3>2 DEF IInv, RequestsSound
            <4>2. ASSUME NEW j \in Row, rows[j].state # "free"
                  PROVE  rows'[j].state # "free"
                BY <4>2, <1>0, <1>3
            <4>3. ASSUME NEW j \in Row, Held(j)', rows[j].state # "free"
                  PROVE  Held(j) /\ Pair(j)' = Pair(j)
                BY <4>3, <1>0, <1>3, <1>5, <1>6, <1>7 DEF Held, IInv, TypeOK, Friendship
            <4> QED BY <4>1, <4>2, <4>3 DEF Knows
        <3> QED BY <2>1, <3>1, <3>2
    <2> QED BY <2>1 DEF RequestsSound, Knows, Held, Pair
<1> QED BY <1>2, <1>8, <1>9, <1>10, <1>11, <1>12 DEF IInv

LEMMA InsertRequestKeeps ==
    ASSUME IInv, NEW r \in Req, NEW i \in Row, InsertRequest(r, i)
    PROVE  IInv'
<1>1. PICK f, t : f = req[r].user /\ t = req[r].other
    OBVIOUS
<1>2. f \in Account /\ t \in Account /\ f # t
    BY <1>1 DEF IInv, RequestsSound, Knows, InsertRequest
<1>3. {f, t} \subseteq live /\ \A j \in Row : Pair(j) # {f, t}
    BY <1>1 DEF InsertRequest, Insertable, Between, Pair
<1>4. ~Held(i) /\ rows[i].state # "dropped"
    BY DEF InsertRequest, Held
<1>5. Fits(i, "pending", f, t, {f})
    BY <1>2, <1>3, <1>4 DEF Fits
<1>6. WriteRow(i, "pending", f, t, {f})
    BY <1>1, FinishEffect DEF InsertRequest, WriteRow, IInv, TypeOK
<1> QED BY <1>5, <1>6, RowStep

LEMMA ReopenRequestKeeps ==
    ASSUME IInv, NEW r \in Req, ReopenRequest(r)
    PROVE  IInv'
<1>1. PICK f, t, i : f = req[r].user /\ t = req[r].other /\ i = req[r].row
    OBVIOUS
<1>2. /\ f \in Account /\ t \in Account /\ f # t
      /\ i \in Row /\ rows[i].state # "free"
      /\ Held(i) => Pair(i) = {f, t}
    BY <1>1 DEF IInv, RequestsSound, Knows, ReopenRequest
<1>3. CASE rows[i].state = "dropped"
    BY <1>1, <1>3, IdleKeeps DEF ReopenRequest, tables
<1>4. CASE rows[i].state # "dropped"
    <2>1. Held(i)
        BY <1>2, <1>4 DEF Held, IInv, TypeOK, Friendship
    <2>2. f \in live /\ t \in live
        BY <1>2, <2>1 DEF IInv, RowsSound
    <2>3. \A j \in Row : Held(j) /\ Pair(j) = {f, t} => j = i
        BY <1>2, <2>1 DEF IInv, OneRow
    <2>4. PICK w : w = willing[i] \cup {f}
        OBVIOUS
    <2>5. w \subseteq Account
        BY <1>2, <2>4 DEF IInv, TypeOK
    <2>6. Fits(i, "pending", f, t, w)
        BY <1>2, <1>4, <2>2, <2>3, <2>4, <2>5 DEF Fits
    <2>7. undone' \in [Row -> Nat]
        BY <1>1, <1>2, <1>4 DEF ReopenRequest, IInv, TypeOK
    <2>8. WriteRow(i, "pending", f, t, w)
        BY <1>1, <1>4, <2>4, <2>7, FinishEffect DEF ReopenRequest, WriteRow, IInv
    <2> QED BY <1>2, <2>6, <2>8, RowStep
<1> QED BY <1>3, <1>4

\* A held row, whose state is changed
LEMMA HeldFits ==
    ASSUME IInv, NEW i \in Row, Held(i), NEW f, NEW t, f = rows[i].from, t = rows[i].to
    PROVE  /\ f \in Account /\ t \in Account /\ f \in live /\ t \in live /\ f # t
           /\ Pair(i) = {f, t}
           /\ \A j \in Row : Held(j) /\ Pair(j) = {f, t} => j = i
           /\ rows[i].state # "dropped"
<1>1. Pair(i) \subseteq live /\ f # t
    BY DEF IInv, RowsSound
<1>2. Pair(i) = {f, t}
    BY DEF Pair
<1>3. live \subseteq Account
    BY DEF IInv, TypeOK
<1>4. \A j \in Row : Held(j) /\ Pair(j) = {f, t} => j = i
    BY <1>2 DEF IInv, OneRow
<1>5. rows[i].state # "dropped"
    BY DEF Held
<1> QED BY <1>1, <1>2, <1>3, <1>4, <1>5

LEMMA AcceptRequestKeeps ==
    ASSUME IInv, NEW a \in Account, NEW i \in Row, AcceptRequest(a, i)
    PROVE  IInv'
<1>1. PICK f, t, w : f = rows[i].from /\ t = rows[i].to /\ w = willing[i] \cup {a}
    OBVIOUS
<1>2. Held(i) /\ rows[i].state = "pending" /\ t = a
    BY <1>1 DEF AcceptRequest, MayDecide, Held
<1>3. f \in w /\ t \in w /\ w \subseteq Account
    BY <1>1, <1>2 DEF IInv, Consent, TypeOK
<1>4. Fits(i, "accepted", f, t, w)
    BY <1>1, <1>2, <1>3, HeldFits DEF Fits
<1>5. WriteRow(i, "accepted", f, t, w)
    BY <1>1 DEF AcceptRequest, WriteRow, IInv, TypeOK
<1> QED BY <1>4, <1>5, RowStep

LEMMA RejectRequestKeeps ==
    ASSUME IInv, NEW a \in Account, NEW i \in Row, RejectRequest(a, i)
    PROVE  IInv'
<1>1. PICK f, t : f = rows[i].from /\ t = rows[i].to
    OBVIOUS
<1>2. Held(i)
    BY DEF RejectRequest, MayDecide, Held
<1>3. Fits(i, "rejected", f, t, {})
    BY <1>1, <1>2, HeldFits DEF Fits
<1>4. WriteRow(i, "rejected", f, t, {})
    BY <1>1 DEF RejectRequest, WriteRow, IInv, TypeOK
<1> QED BY <1>3, <1>4, RowStep

LEMMA UnfriendKeeps ==
    ASSUME IInv, NEW a \in Account, NEW b \in Account, Unfriend(a, b)
    PROVE  IInv'
<1>1. PICK i \in Row : /\ rows[i].state = "accepted"
                       /\ rows' = [rows EXCEPT ![i] = Gone]
                       /\ willing' = [willing EXCEPT ![i] = {}]
                       /\ undone' = [undone EXCEPT ![i] = 0]
    BY DEF Unfriend, Between
<1>2. Fits(i, "dropped", None, None, {})
    BY DEF Fits
<1>3. WriteRow(i, "dropped", None, None, {})
    BY <1>1 DEF Unfriend, WriteRow, IInv, TypeOK, Gone
<1> QED BY <1>2, <1>3, RowStep

-----------------------------------------------------------------------------
(* Groups and devices *)

LEMMA GroupRowTyped ==
    ASSUME NEW state \in {"free", "live", "gone"}, NEW owner \in Account \cup {None}
    PROVE  /\ GroupRow(state, owner) \in
                [state : {"free", "live", "gone"}, owner : Account \cup {None}]
           /\ GroupRow(state, owner).state = state /\ GroupRow(state, owner).owner = owner
BY DEF GroupRow

\* Nothing is written but members and groups, which stay sound; a group keeps its
\* owner until it is gone.
LEMMA GroupStep ==
    ASSUME IInv, UNCHANGED <<live, rows, devices, leaving, history>>,
           members' \subseteq Group \X Account,
           groups' \in [Group -> [state : {"free", "live", "gone"}, owner : Account \cup {None}]],
           req' \in [Req -> Request],
           \A k \in Req : req'[k] = req[k] \/ req'[k] = Idle,
           GroupsSound',
           \A g \in Group : groups[g].state # "free" =>
                groups'[g] = groups[g] \/ (groups'[g].state = "gone" /\ groups'[g].owner = None)
    PROVE  IInv'
<1>1. TypeOK' /\ RowsSound' /\ OneRow' /\ Consent' /\ DevicesSound'
    BY DEF history, IInv, TypeOK, RowsSound, OneRow, Consent, DevicesSound, Held, Pair
<1>2. ASSUME NEW k \in Req, NEW q, q = req'[k] PROVE Knows(q)'
    <2>1. CASE q = Idle
        BY <2>1, IdleTyped DEF Knows
    <2>2. CASE q = req[k]
        <3>1. Knows(q)
            BY <2>2 DEF IInv, RequestsSound
        <3>2. \A g \in Group : groups[g].state # "free" => groups'[g].state # "free"
            OBVIOUS
        <3> QED BY <3>1, <3>2, FriendsAssumption DEF Knows, Held, Pair
    <2> QED BY <1>2, <2>1, <2>2
<1>3. RequestsSound'
    BY <1>2 DEF RequestsSound, Knows, Held, Pair
<1> QED BY <1>1, <1>3 DEF IInv

LEMMA CreateGroupKeeps ==
    ASSUME IInv, NEW a \in Account, NEW g \in Group, CreateGroup(a, g)
    PROVE  IInv'
<1>1. \A h \in Group : groups'[h] = IF h = g THEN GroupRow("live", a) ELSE groups[h]
    BY DEF CreateGroup, IInv, TypeOK
<1>2. groups' \in [Group -> [state : {"free", "live", "gone"}, owner : Account \cup {None}]]
    BY GroupRowTyped DEF CreateGroup, IInv, TypeOK
<1>3. members' \subseteq Group \X Account
    BY DEF CreateGroup, IInv, TypeOK
<1>4. GroupsSound'
    BY <1>1, GroupRowTyped DEF CreateGroup, IInv, GroupsSound, LiveGroup
<1>5. req' \in [Req -> Request] /\ \A k \in Req : req'[k] = req[k]
    BY DEF CreateGroup, IInv, TypeOK
<1> QED BY <1>1, <1>2, <1>3, <1>4, <1>5, GroupStep DEF CreateGroup

LEMMA DeleteGroupKeeps ==
    ASSUME IInv, NEW a \in Account, NEW g \in Group, DeleteGroup(a, g)
    PROVE  IInv'
<1>1. \A h \in Group : groups'[h] = IF h = g THEN GroupRow("gone", None) ELSE groups[h]
    BY DEF DeleteGroup, IInv, TypeOK
<1>2. groups' \in [Group -> [state : {"free", "live", "gone"}, owner : Account \cup {None}]]
    BY GroupRowTyped DEF DeleteGroup, IInv, TypeOK
<1>3. members' \subseteq Group \X Account
    BY DEF DeleteGroup, IInv, TypeOK
<1>4. GroupsSound'
    BY <1>1, GroupRowTyped DEF DeleteGroup, IInv, TypeOK, GroupsSound, LiveGroup
<1>5. req' \in [Req -> Request] /\ \A k \in Req : req'[k] = req[k]
    BY DEF DeleteGroup, IInv, TypeOK
<1>6. \A h \in Group : groups'[h] = groups[h] \/ (groups'[h].state = "gone" /\ groups'[h].owner = None)
    BY <1>1, GroupRowTyped
<1> QED BY <1>2, <1>3, <1>4, <1>5, <1>6, GroupStep DEF DeleteGroup

LEMMA AddMemberKeeps ==
    ASSUME IInv, NEW r \in Req, AddMember(r)
    PROVE  IInv'
<1>1. req[r].user \in Account /\ req[r].group \in Group
    BY DEF AddMember, IInv, RequestsSound, Knows
<1>2. groups' \in [Group -> [state : {"free", "live", "gone"}, owner : Account \cup {None}]]
    BY DEF AddMember, IInv, TypeOK
<1>3. members' \subseteq Group \X Account
    BY <1>1 DEF AddMember, IInv, TypeOK
<1>4. GroupsSound'
    BY <1>1 DEF AddMember, IInv, GroupsSound, LiveGroup
<1>5. req' \in [Req -> Request] /\ \A k \in Req : req'[k] = req[k] \/ req'[k] = Idle
    BY FinishEffect DEF AddMember, IInv
<1> QED BY <1>2, <1>3, <1>4, <1>5, GroupStep DEF AddMember

LEMMA RemoveMemberKeeps ==
    ASSUME IInv, NEW r \in Req, RemoveMember(r)
    PROVE  IInv'
<1>1. /\ req[r].user \in Account /\ req[r].group \in Group
      /\ groups[req[r].group].owner # req[r].user
    BY DEF RemoveMember, IInv, RequestsSound, Knows
<1>2. groups' \in [Group -> [state : {"free", "live", "gone"}, owner : Account \cup {None}]]
    BY DEF RemoveMember, IInv, TypeOK
<1>3. members' \subseteq Group \X Account
    BY DEF RemoveMember, IInv, TypeOK
<1>4. GroupsSound'
    <2>1. ASSUME NEW g \in Group, LiveGroup(g) PROVE <<g, groups[g].owner>> \in members'
        <3>1. <<g, groups[g].owner>> # <<req[r].group, req[r].user>>
            BY <1>1
        <3> QED BY <3>1, <2>1 DEF RemoveMember, IInv, GroupsSound
    <2> QED BY <2>1 DEF RemoveMember, IInv, GroupsSound, LiveGroup
<1>5. req' \in [Req -> Request] /\ \A k \in Req : req'[k] = req[k] \/ req'[k] = Idle
    BY FinishEffect DEF RemoveMember, IInv
<1> QED BY <1>2, <1>3, <1>4, <1>5, GroupStep DEF RemoveMember

\* Nothing is written but device tokens and sign-outs.
LEMMA DeviceStep ==
    ASSUME IInv, UNCHANGED <<live, rows, groups, members, req, history>>,
           devices' \in [Device -> Account \cup {None}], leaving' \subseteq Account \X Device,
           DevicesSound'
    PROVE  IInv'
BY DEF history, IInv, TypeOK, RowsSound, OneRow, Consent, GroupsSound, RequestsSound, Knows, Held,
       Pair, LiveGroup

LEMMA RegisterKeeps ==
    ASSUME IInv, NEW a \in Account, NEW d \in Device, Register(a, d)
    PROVE  IInv'
<1>1. devices' \in [Device -> Account \cup {None}] /\ DevicesSound'
    BY DEF Register, IInv, TypeOK, DevicesSound
<1> QED BY <1>1, DeviceStep DEF Register, IInv, TypeOK

LEMMA SignOutKeeps ==
    ASSUME IInv, NEW a \in Account, NEW d \in Device, SignOut(a, d)
    PROVE  IInv'
BY DeviceStep DEF SignOut, tables, IInv, TypeOK, DevicesSound

LEMMA UnregisterKeeps ==
    ASSUME IInv, NEW a \in Account, NEW d \in Device, Unregister(a, d)
    PROVE  IInv'
<1>1. devices' \in [Device -> Account \cup {None}] /\ DevicesSound'
    BY DEF Unregister, IInv, TypeOK, DevicesSound
<1> QED BY <1>1, DeviceStep DEF Unregister, IInv, TypeOK

-----------------------------------------------------------------------------
(* Deleted accounts *)

LEMMA DeleteAccountKeeps ==
    ASSUME IInv, NEW a \in Account, DeleteAccount(a)
    PROVE  IInv'
<1>1. \A i \in Row : /\ rows'[i] = IF a \in Pair(i) THEN Gone ELSE rows[i]
                     /\ willing'[i] = IF a \in Pair(i) THEN {} ELSE willing[i]
    BY DEF DeleteAccount, Pair
<1>2. \A g \in Group : groups'[g] = IF groups[g].owner = a THEN GroupRow("gone", None) ELSE groups[g]
    BY DEF DeleteAccount
<1>3. Gone \in Friendship /\ Gone.state = "dropped" /\ Gone.from = None /\ Gone.to = None
    BY DEF Gone, Entry, Friendship
<1>4. TypeOK'
    <2>1. /\ rows' \in [Row -> Friendship] /\ willing' \in [Row -> SUBSET Account]
          /\ undone' \in [Row -> Nat]
        BY <1>3 DEF DeleteAccount, IInv, TypeOK
    <2>2. groups' \in [Group -> [state : {"free", "live", "gone"}, owner : Account \cup {None}]]
        BY GroupRowTyped DEF DeleteAccount, IInv, TypeOK
    <2>3. live' \subseteq Account /\ members' \subseteq Group \X Account
        BY DEF DeleteAccount, IInv, TypeOK
    <2>4. devices' \in [Device -> Account \cup {None}]
        BY DEF DeleteAccount, IInv, TypeOK
    <2> QED BY <2>1, <2>2, <2>3, <2>4 DEF DeleteAccount, IInv, TypeOK
<1>5. \A i \in Row : a \in Pair(i) => ~Held(i)' /\ rows'[i].from = None /\ rows'[i].to = None
    BY <1>1, <1>3 DEF Held
<1>6. \A i \in Row : a \notin Pair(i) => (Held(i)' <=> Held(i)) /\ Pair(i)' = Pair(i)
    BY <1>1 DEF Held, Pair
<1>7. RowsSound'
    <2> SUFFICES ASSUME NEW i \in Row
                 PROVE  IF Held(i)' THEN Pair(i)' \subseteq live' /\ rows'[i].from # rows'[i].to
                        ELSE rows'[i].from = None /\ rows'[i].to = None
        BY DEF RowsSound
    <2>1. CASE a \in Pair(i)
        BY <2>1, <1>5
    <2>2. CASE a \notin Pair(i)
        <3>1. rows'[i] = rows[i]
            BY <2>2, <1>1
        <3>2. live' = live \ {a}
            BY DEF DeleteAccount
        <3> QED BY <2>2, <3>1, <3>2, <1>6 DEF IInv, RowsSound
    <2> QED BY <2>1, <2>2
<1>8. OneRow'
    <2> SUFFICES ASSUME NEW i \in Row, NEW j \in Row, Held(i)', Pair(i)' = Pair(j)'
                 PROVE  i = j
        BY DEF OneRow
    <2>1. a \notin Pair(i) /\ Held(i) /\ Pair(i)' = Pair(i)
        BY <1>5, <1>6
    <2>2. Pair(i) \subseteq Account
        BY <2>1 DEF IInv, TypeOK, RowsSound
    <2>3. CASE a \in Pair(j)
        <3>1. None \in Pair(j)'
            BY <2>3, <1>5 DEF Pair
        <3> QED BY <3>1, <2>1, <2>2, FriendsAssumption
    <2>4. CASE a \notin Pair(j)
        BY <2>1, <2>4, <1>6 DEF IInv, OneRow
    <2> QED BY <2>3, <2>4
<1>9. Consent'
    <2> SUFFICES ASSUME NEW i \in Row
                 PROVE  /\ rows'[i].state = "pending" => rows'[i].from \in willing'[i]
                        /\ rows'[i].state = "accepted" => Pair(i)' \subseteq willing'[i]
        BY DEF Consent
    <2>1. CASE a \in Pair(i)
        BY <2>1, <1>1, <1>3
    <2>2. CASE a \notin Pair(i)
        BY <2>2, <1>1, <1>6 DEF IInv, Consent
    <2> QED BY <2>1, <2>2
<1>10. GroupsSound'
    <2>1. members' = {m \in members : m[2] # a /\ groups[m[1]].owner # a} /\ live' = live \ {a}
        BY DEF DeleteAccount
    <2>2. ASSUME NEW g \in Group, groups[g].owner = a
          PROVE  groups'[g].state = "gone" /\ groups'[g].owner = None
        BY <2>2, <1>2, GroupRowTyped
    <2>3. ASSUME NEW g \in Group, groups[g].owner # a PROVE groups'[g] = groups[g]
        BY <2>3, <1>2
    <2>4. ASSUME NEW g \in Group, groups'[g].state = "live"
          PROVE  groups'[g].owner \in live' /\ <<g, groups'[g].owner>> \in members'
        <3>1. groups[g].owner # a /\ groups'[g] = groups[g]
            BY <2>2, <2>3, <2>4
        <3>2. groups[g].owner \in live /\ <<g, groups[g].owner>> \in members
            BY <3>1, <2>4 DEF IInv, GroupsSound, LiveGroup
        <3> QED BY <3>1, <3>2, <2>1
    <2>5. ASSUME NEW g \in Group, groups'[g].state # "live" PROVE groups'[g].owner = None
        BY <2>2, <2>3, <2>5 DEF IInv, GroupsSound, LiveGroup
    <2>6. ASSUME NEW m \in members' PROVE groups'[m[1]].state = "live" /\ m[2] \in live'
        <3>1. m \in members /\ m[2] # a /\ groups[m[1]].owner # a /\ m[1] \in Group
            BY <2>1, <2>6 DEF IInv, TypeOK
        <3> QED BY <3>1, <2>1, <2>3 DEF IInv, GroupsSound, LiveGroup
    <2> QED BY <2>4, <2>5, <2>6 DEF GroupsSound, LiveGroup
<1>11. DevicesSound'
    BY DEF DeleteAccount, IInv, TypeOK, DevicesSound
<1>12. ASSUME NEW k \in Req, NEW q, q = req'[k] PROVE Knows(q)'
    <2>1. Knows(q)
        BY <1>12 DEF DeleteAccount, IInv, RequestsSound
    <2>2. \A i \in Row : rows[i].state # "free" => rows'[i].state # "free"
        BY <1>1, <1>3
    <2>3. \A i \in Row : Held(i)' => Held(i) /\ Pair(i)' = Pair(i)
        BY <1>5, <1>6
    <2>4. \A g \in Group : /\ groups[g].state # "free" => groups'[g].state # "free"
                           /\ groups'[g].owner \in {groups[g].owner, None}
        BY <1>2, GroupRowTyped
    <2> QED BY <2>1, <2>2, <2>3, <2>4, FriendsAssumption DEF Knows
<1>13. RequestsSound'
    BY <1>12 DEF RequestsSound, Knows, Held, Pair
<1> QED BY <1>4, <1>7, <1>8, <1>9, <1>10, <1>11, <1>13 DEF IInv

-----------------------------------------------------------------------------
(* The invariant *)

LEMMA InitIInv == Init => IInv
<1> SUFFICES ASSUME Init PROVE IInv
    OBVIOUS
<1>1. \A i \in Row : rows[i].state = "free" /\ rows[i].from = None /\ rows[i].to = None
    BY DEF Init, Entry
<1>2. \A g \in Group : groups[g].state = "free" /\ groups[g].owner = None
    BY GroupRowTyped DEF Init
<1>3. \A i \in Row : ~Held(i)
    BY <1>1 DEF Held
<1>4. TypeOK
    BY IdleTyped, GroupRowTyped DEF Init, TypeOK, Entry, Friendship
<1>5. RowsSound /\ OneRow /\ Consent
    BY <1>1, <1>3 DEF RowsSound, OneRow, Consent
<1>6. GroupsSound /\ DevicesSound
    BY <1>2 DEF Init, GroupsSound, DevicesSound, LiveGroup
<1>7. RequestsSound
    BY IdleKnows DEF Init, RequestsSound
<1> QED BY <1>4, <1>5, <1>6, <1>7 DEF IInv

LEMMA StepKeeps ==
    ASSUME IInv, NEW r \in Req, Step(r)
    PROVE  IInv'
<1>1. CASE \E a, b \in Account : SendRequest(r, a, b)
    BY <1>1, SendRequestKeeps
<1>2. CASE \E i \in Row : InsertRequest(r, i)
    BY <1>2, InsertRequestKeeps
<1>3. CASE InsertRefused(r)
    BY <1>3, IdleKeeps DEF InsertRefused
<1>4. CASE ReopenRequest(r)
    BY <1>4, ReopenRequestKeeps
<1>5. CASE \E a \in Account, g \in Group : JoinGroup(r, a, g) \/ LeaveGroup(r, a, g)
    BY <1>5, JoinGroupKeeps, LeaveGroupKeeps
<1>6. CASE AddMember(r)
    BY <1>6, AddMemberKeeps
<1>7. CASE RemoveMember(r)
    BY <1>7, RemoveMemberKeeps
<1>8. CASE Die(r)
    BY <1>8, IdleKeeps DEF Die
<1> QED BY <1>1, <1>2, <1>3, <1>4, <1>5, <1>6, <1>7, <1>8 DEF Step

LEMMA NextKeeps == IInv /\ [Next]_vars => IInv'
<1> SUFFICES ASSUME IInv, [Next]_vars PROVE IInv'
    OBVIOUS
<1>1. CASE UNCHANGED vars
    BY <1>1 DEF vars, tables, history, IInv, TypeOK, RowsSound, OneRow, Consent, GroupsSound, DevicesSound,
                RequestsSound, Knows, Held, Pair, LiveGroup
<1>2. CASE \E r \in Req : Step(r)
    BY <1>2, StepKeeps
<1>3. CASE \E a \in Account, i \in Row : AcceptRequest(a, i) \/ RejectRequest(a, i)
    BY <1>3, AcceptRequestKeeps, RejectRequestKeeps
<1>4. CASE \E a, b \in Account : Unfriend(a, b)
    BY <1>4, UnfriendKeeps
<1>5. CASE \E a \in Account, g \in Group : CreateGroup(a, g) \/ DeleteGroup(a, g)
    BY <1>5, CreateGroupKeeps, DeleteGroupKeeps
<1>6. CASE \E a \in Account, d \in Device : Register(a, d) \/ SignOut(a, d) \/ Unregister(a, d)
    BY <1>6, RegisterKeeps, SignOutKeeps, UnregisterKeeps
<1>7. CASE \E a \in Account : DeleteAccount(a)
    BY <1>7, DeleteAccountKeeps
<1> QED BY <1>1, <1>2, <1>3, <1>4, <1>5, <1>6, <1>7 DEF Next

\* IInv holds of every reachable state: what requests know of the rows and groups
\* they read stays true until they write (internal/modules/social).
THEOREM Inductive == Spec => []IInv
<1>1. Init => IInv
    BY InitIInv
<1>2. IInv /\ [Next]_vars => IInv'
    BY NextKeeps
<1> QED BY <1>1, <1>2, PTL DEF Spec

-----------------------------------------------------------------------------
(* Properties *)

\* Nobody is a friend without having asked or accepted, for any number of
\* accounts and of overlapping requests.
THEOREM ConsentCorrect == Spec => []FriendsByConsent
<1>1. IInv => FriendsByConsent
    BY DEF IInv, Consent, FriendsByConsent, Pair
<1> QED BY <1>1, Inductive, PTL

LEMMA BetweenOne ==
    ASSUME IInv, NEW a \in Account, NEW b \in Account
    PROVE  /\ Between(a, b) = Between(b, a)
           /\ \A i \in Between(a, b) : i \in Row /\ Held(i) /\ Pair(i) = {a, b}
           /\ \A i, j \in Between(a, b) : i = j
           /\ \A i \in Row : Held(i) /\ Pair(i) = {a, b} => i \in Between(a, b)
<1>1. {a, b} = {b, a}
    OBVIOUS
<1>2. Between(a, b) = Between(b, a)
    BY <1>1 DEF Between
<1>3. ASSUME NEW i \in Between(a, b) PROVE i \in Row /\ Held(i) /\ Pair(i) = {a, b}
    <2>1. i \in Row /\ Pair(i) = {a, b}
        BY DEF Between, Pair
    <2>2. rows[i].from # None
        BY <2>1, FriendsAssumption DEF Pair
    <2> QED BY <2>1, <2>2 DEF IInv, RowsSound
<1>4. \A i, j \in Between(a, b) : i = j
    BY <1>3 DEF IInv, OneRow
<1> QED BY <1>2, <1>3, <1>4 DEF Between, Pair

\* One row at most: what is between two accounts is nothing or a single row.
LEMMA BetweenSingle ==
    ASSUME IInv, NEW a \in Account, NEW b \in Account, Between(a, b) # {}
    PROVE  \E i : Between(a, b) = {i}
<1>1. PICK i \in Between(a, b) : TRUE
    OBVIOUS
<1>2. \A j \in Between(a, b) : j = i
    BY BetweenOne
<1>3. Between(a, b) = {i}
    BY <1>1, <1>2
<1> QED BY <1>3

\* One row for two accounts makes all views of it agree.
LEMMA ViewsFromIInv ==
    ASSUME IInv, NEW a \in Account, NEW b \in Account, a # b
    PROVE  ViewsAgree(a, b)
<1>1. CASE Between(a, b) = {}
    <2>1. Between(b, a) = {}
        BY <1>1, BetweenOne
    <2>2. StatusFor(a, b) = "none" /\ StatusFor(b, a) = "none"
        BY <1>1, <2>1 DEF StatusFor
    <2>3. ~Friends(a, b) /\ ~Friends(b, a)
        BY <1>1, <2>1 DEF Friends
    <2>4. a \notin ListIncoming(b) /\ b \notin ListFriends(a)
        BY <1>1 DEF ListIncoming, ListFriends, Between
    <2> QED BY <2>2, <2>3, <2>4 DEF ViewsAgree
<1>2. CASE Between(a, b) # {}
    <2>1. PICK i : Between(a, b) = {i}
        BY <1>2, BetweenSingle
    <2>2. Between(b, a) = {i}
        BY <2>1, BetweenOne
    <2>3. i \in Row /\ Held(i) /\ Pair(i) = {a, b}
        BY <2>1, BetweenOne
    <2>4. (CHOOSE j \in Between(a, b) : TRUE) = i /\ (CHOOSE j \in Between(b, a) : TRUE) = i
        BY <2>1, <2>2
    <2>5. StatusFor(a, b) = DeriveStatus(i, a) /\ StatusFor(b, a) = DeriveStatus(i, b)
        BY <2>1, <2>2, <2>4 DEF StatusFor
    <2>6. \/ rows[i].from = a /\ rows[i].to = b
          \/ rows[i].from = b /\ rows[i].to = a
        BY <2>3 DEF Pair
    <2>7. (Friends(a, b) <=> rows[i].state = "accepted") /\ (Friends(b, a) <=> rows[i].state = "accepted")
        BY <2>1, <2>2 DEF Friends
    <2>8. \A j \in Row : {rows[j].from, rows[j].to} = {a, b} => j = i
        BY <2>1 DEF Between
    <2>9. a \in ListIncoming(b) <=> rows[i].state = "pending" /\ rows[i].from = a
        BY <2>3, <2>6, <2>8 DEF ListIncoming
    <2>10. b \in ListFriends(a) <=> rows[i].state = "accepted"
        BY <2>3, <2>6, <2>8 DEF ListFriends
    <2>11. (DeriveStatus(i, a) = "pending_sent") <=> (rows[i].state = "pending" /\ rows[i].from = a)
        BY DEF DeriveStatus
    <2>12. (DeriveStatus(i, b) = "pending_received") <=> (rows[i].state = "pending" /\ rows[i].from # b)
        BY DEF DeriveStatus
    <2>13. (DeriveStatus(i, a) = "accepted") <=> rows[i].state = "accepted"
        BY DEF DeriveStatus
    <2> QED BY <2>5, <2>6, <2>7, <2>9, <2>10, <2>11, <2>12, <2>13 DEF ViewsAgree
<1> QED BY <1>1, <1>2

\* Requests that cross and deleted accounts and groups leave the tables sound, and
\* both sides of a friendship see the same, for any number of accounts and groups.
THEOREM TablesCorrect == Spec => []TablesSound
<1>1. ASSUME IInv PROVE TablesSound
    <2>1. ASSUME NEW a \in Account, NEW b \in Account, a # b
          PROVE  Cardinality(Between(a, b)) <= 1
        <3>1. CASE Between(a, b) = {}
            <4>1. Cardinality(Between(a, b)) = 0
                BY <3>1, FS_EmptySet
            <4> QED BY <4>1
        <3>2. CASE Between(a, b) # {}
            <4>1. PICK i : Between(a, b) = {i}
                BY <3>2, <1>1, BetweenSingle
            <4>2. Cardinality({i}) = 1
                BY FS_Singleton
            <4>3. Cardinality(Between(a, b)) = 1
                BY <4>1, <4>2
            <4> QED BY <4>3
        <3> QED BY <3>1, <3>2
    <2>2. \A a, b \in Account : a # b => ViewsAgree(a, b)
        BY <1>1, ViewsFromIInv
    <2>3. \A i \in Row : rows[i].state \in {"pending", "accepted", "rejected"} =>
                /\ {rows[i].from, rows[i].to} \subseteq live
                /\ rows[i].from # rows[i].to
        BY <1>1 DEF IInv, RowsSound, Held, Pair
    <2>4. /\ \A m \in members : LiveGroup(m[1]) /\ m[2] \in live
          /\ \A g \in Group : LiveGroup(g) => <<g, groups[g].owner>> \in members
          /\ \A d \in Device : devices[d] \in live \cup {None}
        BY <1>1 DEF IInv, GroupsSound, DevicesSound
    <2> QED BY <1>1, <2>1, <2>2, <2>3, <2>4 DEF TablesSound, IInv
<1> QED BY <1>1, Inductive, PTL

\* What undone counts: nothing before the first reopening after a rejection, and
\* then less than the requests that had read the rejection.
Counted(i) ==
    /\ rows[i].state \in {"free", "rejected"} => undone[i] = 0
    /\ rows[i].state \in {"pending", "accepted"} =>
            undone[i] + Cardinality(Reopening(i)) < Cardinality(Req)

CountInv == \A i \in Row : Counted(i)

LEMMA ReopeningCard ==
    ASSUME NEW i \in Row
    PROVE  /\ IsFiniteSet(Reopening(i)) /\ Cardinality(Reopening(i)) \in Nat
           /\ Cardinality(Req) \in Nat /\ Cardinality(Reopening(i)) <= Cardinality(Req)
<1>1. IsFiniteSet(Req) /\ Reopening(i) \subseteq Req
    BY FriendsAssumption DEF Reopening
<1>2. IsFiniteSet(Reopening(i)) /\ Cardinality(Reopening(i)) <= Cardinality(Req)
    BY <1>1, FS_Subset
<1> QED BY <1>1, <1>2, FS_CardinalityType

\* A step that leaves row i and what undone counts of it
LEMMA CountedStays ==
    ASSUME IInv, NEW i \in Row, Counted(i),
           rows'[i].state = rows[i].state, undone'[i] = undone[i],
           rows[i].state \in {"pending", "accepted"} => Reopening(i)' \subseteq Reopening(i)
    PROVE  Counted(i)'
<1>1. CASE rows[i].state \in {"pending", "accepted"}
    <2>1. PICK S : S = Reopening(i)'
        OBVIOUS
    <2>2. IsFiniteSet(S) /\ Cardinality(S) <= Cardinality(Reopening(i))
        BY <1>1, <2>1, ReopeningCard, FS_Subset
    <2>3. Cardinality(S) \in Nat
        BY <2>2, FS_CardinalityType
    <2>4. undone[i] \in Nat
        BY DEF IInv, TypeOK
    <2>5. undone[i] + Cardinality(S) < Cardinality(Req)
        BY <1>1, <2>2, <2>3, <2>4, ReopeningCard DEF Counted
    <2> QED BY <1>1, <2>1, <2>5 DEF Counted
<1>2. CASE rows[i].state \notin {"pending", "accepted"}
    BY <1>2 DEF Counted
<1> QED BY <1>1, <1>2

\* Requests that go on or are over reopen no more rows than before.
LEMMA ReopeningShrinks ==
    ASSUME NEW i \in Row, \A k \in Req : req'[k] = req[k] \/ req'[k].at # "reopen"
    PROVE  Reopening(i)' \subseteq Reopening(i)
BY DEF Reopening

\* A reopening takes itself out of the count before it adds an undone friendship.
LEMMA ReopenCounted ==
    ASSUME IInv, NEW r \in Req, NEW i \in Row, Counted(i), ReopenRequest(r)
    PROVE  Counted(i)'
<1>1. \A k \in Req : req'[k] = IF k = r THEN Idle ELSE req[k]
    BY FinishEffect DEF ReopenRequest, IInv
<1>2. \A k \in Req : req'[k] = req[k] \/ req'[k].at # "reopen"
    BY <1>1, IdleTyped
<1>3. Reopening(i)' \subseteq Reopening(i)
    BY <1>2, ReopeningShrinks
<1>4. CASE req[r].row # i \/ rows[req[r].row].state = "dropped"
    <2>1. rows'[i] = rows[i] /\ undone'[i] = undone[i]
        BY <1>4 DEF ReopenRequest, history, IInv, TypeOK
    <2> QED BY <1>3, <2>1, CountedStays
<1>5. CASE req[r].row = i /\ rows[i].state # "dropped"
    <2>1. r \in Reopening(i) /\ r \notin Reopening(i)'
        BY <1>1, <1>5, IdleTyped DEF Reopening, ReopenRequest
    <2>2. PICK S : S = Reopening(i)'
        OBVIOUS
    <2>3. S \subseteq Reopening(i) \ {r}
        BY <1>3, <2>1, <2>2
    <2>4. /\ IsFiniteSet(Reopening(i) \ {r})
          /\ Cardinality(Reopening(i) \ {r}) = Cardinality(Reopening(i)) - 1
        BY <2>1, ReopeningCard, FS_RemoveElement
    <2>5. IsFiniteSet(S) /\ Cardinality(S) <= Cardinality(Reopening(i)) - 1
        BY <2>3, <2>4, FS_Subset
    <2>6. Cardinality(S) \in Nat
        BY <2>5, FS_CardinalityType
    <2>7. undone[i] \in Nat /\ rows[i].state \in {"pending", "accepted", "rejected"}
        <3>1. rows[i].state # "free"
            BY <1>5 DEF IInv, RequestsSound, Knows, ReopenRequest
        <3> QED BY <3>1, <1>5 DEF IInv, TypeOK, Friendship
    <2>8. rows'[i].state = "pending"
        BY <1>5, EntryFields DEF ReopenRequest, IInv, TypeOK
    <2>9. undone'[i] = IF rows[i].state = "accepted" THEN undone[i] + 1 ELSE undone[i]
        BY <1>5 DEF ReopenRequest, IInv, TypeOK
    <2>10. undone'[i] + Cardinality(S) < Cardinality(Req)
        <3>1. CASE rows[i].state = "rejected"
            <4>1. undone[i] = 0 /\ undone'[i] = 0
                BY <3>1, <2>9 DEF Counted
            <4> QED BY <4>1, <2>5, <2>6, ReopeningCard
        <3>2. CASE rows[i].state \in {"pending", "accepted"}
            <4>1. undone[i] + Cardinality(Reopening(i)) < Cardinality(Req)
                BY <3>2 DEF Counted
            <4>2. undone'[i] \in Nat /\ undone'[i] <= undone[i] + 1
                BY <2>7, <2>9
            <4> QED BY <4>1, <4>2, <2>5, <2>6, <2>7, ReopeningCard
        <3> QED BY <2>7, <3>1, <3>2
    <2> QED BY <2>2, <2>8, <2>10 DEF Counted
<1> QED BY <1>4, <1>5

\* A new row has no reopening yet.
LEMMA InsertCounted ==
    ASSUME IInv, NEW r \in Req, NEW j \in Row, NEW i \in Row, Counted(i), InsertRequest(r, j)
    PROVE  Counted(i)'
<1>1. \A k \in Req : req'[k] = req[k] \/ req'[k].at # "reopen"
    BY FinishEffect, IdleTyped DEF InsertRequest, IInv
<1>2. Reopening(i)' \subseteq Reopening(i)
    BY <1>1, ReopeningShrinks
<1>3. undone'[i] = undone[i]
    BY DEF InsertRequest
<1>4. CASE i # j
    <2>1. rows'[i] = rows[i]
        BY <1>4 DEF InsertRequest, IInv, TypeOK
    <2> QED BY <1>2, <1>3, <2>1, CountedStays
<1>5. CASE i = j
    <2>1. rows[i].state = "free" /\ undone'[i] = 0
        BY <1>3, <1>5 DEF InsertRequest, Counted
    <2>2. Reopening(i) = {}
        BY <2>1 DEF Reopening, IInv, RequestsSound, Knows
    <2>3. PICK S : S = Reopening(i)'
        OBVIOUS
    <2>4. Cardinality(S) = 0
        BY <1>2, <2>2, <2>3, FS_EmptySet
    <2>5. Cardinality(Req) \in Nat /\ Cardinality(Req) # 0
        <3>1. IsFiniteSet(Req) /\ Req # {}
            BY FriendsAssumption
        <3> QED BY <3>1, FS_CardinalityType, FS_EmptySet
    <2>6. rows'[i].state = "pending"
        BY <1>5, EntryFields DEF InsertRequest, IInv, TypeOK
    <2>7. undone'[i] + Cardinality(S) < Cardinality(Req)
        BY <2>1, <2>4, <2>5
    <2> QED BY <2>3, <2>6, <2>7 DEF Counted
<1> QED BY <1>4, <1>5

\* The row a request is sent for again is a rejected one.
LEMMA SendCounted ==
    ASSUME IInv, NEW r \in Req, NEW a \in Account, NEW b \in Account, NEW i \in Row, Counted(i),
           SendRequest(r, a, b)
    PROVE  Counted(i)'
<1>1. rows'[i] = rows[i] /\ undone'[i] = undone[i]
    BY DEF SendRequest, tables, history
<1>2. CASE Between(a, b) = {}
    <2>1. \A k \in Req : req'[k] = req[k] \/ req'[k].at # "reopen"
        BY <1>2, AskedFields DEF SendRequest, IInv, TypeOK
    <2> QED BY <1>1, <2>1, ReopeningShrinks, CountedStays
<1>3. CASE Between(a, b) # {}
    <2>1. PICK j \in Between(a, b) : j = CHOOSE h \in Between(a, b) : TRUE
        BY <1>3
    <2>2. rows[j].state = "rejected"
        BY <2>1 DEF SendRequest, MayAsk
    <2>3. \A k \in Req : req'[k] = IF k = r THEN Asked("reopen", a, b, j, None) ELSE req[k]
        BY <1>3, <2>1 DEF SendRequest, IInv, TypeOK
    <2>4. rows[i].state \in {"pending", "accepted"} => Reopening(i)' \subseteq Reopening(i)
        BY <2>2, <2>3, AskedFields DEF Reopening
    <2> QED BY <1>1, <2>4, CountedStays
<1> QED BY <1>2, <1>3

\* The statements that decide or end a friendship
LEMMA DecisionCounted ==
    ASSUME IInv, NEW i \in Row, Counted(i), NEW a \in Account,
           \/ \E j \in Row : AcceptRequest(a, j) \/ RejectRequest(a, j)
           \/ \E b \in Account : Unfriend(a, b)
           \/ DeleteAccount(a)
    PROVE  Counted(i)'
<1>1. Reopening(i)' = Reopening(i)
    BY DEF Reopening, AcceptRequest, RejectRequest, Unfriend, DeleteAccount
<1>2. undone[i] \in Nat
    BY DEF IInv, TypeOK
<1>3. ASSUME NEW j \in Row, AcceptRequest(a, j) PROVE Counted(i)'
    <2>1. undone'[i] = undone[i]
        BY <1>3 DEF AcceptRequest
    <2>2. CASE i # j
        <3>1. rows'[i] = rows[i]
            BY <2>2, <1>3 DEF AcceptRequest, IInv, TypeOK
        <3> QED BY <1>1, <2>1, <3>1, CountedStays
    <2>3. CASE i = j
        <3>1. rows[i].state = "pending" /\ rows'[i].state = "accepted"
            BY <2>3, <1>3, EntryFields DEF AcceptRequest, MayDecide, IInv, TypeOK
        <3> QED BY <1>1, <2>1, <3>1 DEF Counted
    <2> QED BY <2>2, <2>3
<1>4. ASSUME NEW j \in Row, RejectRequest(a, j) PROVE Counted(i)'
    <2>1. CASE i # j
        <3>1. rows'[i] = rows[i] /\ undone'[i] = undone[i]
            BY <2>1, <1>4 DEF RejectRequest, IInv, TypeOK
        <3> QED BY <1>1, <3>1, CountedStays
    <2>2. CASE i = j
        <3>1. rows'[i].state = "rejected" /\ undone'[i] = 0
            BY <2>2, <1>4, EntryFields DEF RejectRequest, IInv, TypeOK
        <3> QED BY <3>1 DEF Counted
    <2> QED BY <2>1, <2>2
<1>5. Gone.state = "dropped"
    BY DEF Gone, Entry
<1>6. ASSUME NEW b \in Account, Unfriend(a, b) PROVE Counted(i)'
    <2>1. PICK j \in Row : /\ rows' = [rows EXCEPT ![j] = Gone]
                           /\ undone' = [undone EXCEPT ![j] = 0]
        BY <1>6 DEF Unfriend, Between
    <2>2. CASE i # j
        <3>1. rows'[i] = rows[i] /\ undone'[i] = undone[i]
            BY <2>1, <2>2 DEF IInv, TypeOK
        <3> QED BY <1>1, <3>1, CountedStays
    <2>3. CASE i = j
        <3>1. rows'[i].state = "dropped"
            BY <2>1, <2>3, <1>5 DEF IInv, TypeOK
        <3> QED BY <3>1 DEF Counted
    <2> QED BY <2>2, <2>3
<1>7. CASE DeleteAccount(a)
    <2>1. CASE a \in {rows[i].from, rows[i].to}
        <3>1. rows'[i].state = "dropped"
            BY <2>1, <1>5, <1>7 DEF DeleteAccount
        <3> QED BY <3>1 DEF Counted
    <2>2. CASE a \notin {rows[i].from, rows[i].to}
        <3>1. rows'[i] = rows[i] /\ undone'[i] = undone[i]
            BY <2>2, <1>7 DEF DeleteAccount
        <3> QED BY <1>1, <3>1, CountedStays
    <2> QED BY <2>1, <2>2
<1> QED BY <1>3, <1>4, <1>6, <1>7

LEMMA CountStep ==
    ASSUME IInv, NEW i \in Row, Counted(i), [Next]_vars
    PROVE  Counted(i)'
<1>1. CASE /\ rows'[i] = rows[i] /\ undone'[i] = undone[i]
           /\ \A k \in Req : req'[k] = req[k] \/ req'[k].at # "reopen"
    BY <1>1, ReopeningShrinks, CountedStays
<1>2. CASE UNCHANGED vars
    BY <1>1, <1>2 DEF vars, tables, history
<1>3. ASSUME NEW r \in Req, Step(r) PROVE Counted(i)'
    <2>1. CASE \E a, b \in Account : SendRequest(r, a, b)
        BY <2>1, SendCounted
    <2>2. CASE \E j \in Row : InsertRequest(r, j)
        BY <2>2, InsertCounted
    <2>3. CASE ReopenRequest(r)
        BY <2>3, ReopenCounted
    <2>4. CASE InsertRefused(r) \/ AddMember(r) \/ RemoveMember(r) \/ Die(r)
        <3>1. rows'[i] = rows[i] /\ undone'[i] = undone[i] /\ Finish(r)
            BY <2>4 DEF InsertRefused, AddMember, RemoveMember, Die, tables, history
        <3>2. \A k \in Req : req'[k] = req[k] \/ req'[k].at # "reopen"
            BY <3>1, FinishEffect, IdleTyped DEF IInv
        <3> QED BY <3>1, <3>2, <1>1
    <2>5. CASE \E a \in Account, g \in Group : JoinGroup(r, a, g) \/ LeaveGroup(r, a, g)
        <3>1. rows'[i] = rows[i] /\ undone'[i] = undone[i]
            BY <2>5 DEF JoinGroup, LeaveGroup, tables, history
        <3>2. \A k \in Req : req'[k] = req[k] \/ req'[k].at # "reopen"
            BY <2>5, AskedFields DEF JoinGroup, LeaveGroup, IInv, TypeOK
        <3> QED BY <3>1, <3>2, <1>1
    <2> QED BY <1>3, <2>1, <2>2, <2>3, <2>4, <2>5 DEF Step
<1>4. ASSUME NEW a \in Account,
             \/ \E j \in Row : AcceptRequest(a, j) \/ RejectRequest(a, j)
             \/ \E b \in Account : Unfriend(a, b)
             \/ DeleteAccount(a)
      PROVE  Counted(i)'
    BY <1>4, DecisionCounted
<1>5. ASSUME NEW a \in Account, NEW g \in Group, CreateGroup(a, g) \/ DeleteGroup(a, g)
      PROVE  Counted(i)'
    BY <1>1, <1>5 DEF CreateGroup, DeleteGroup, history
<1>6. ASSUME NEW a \in Account, NEW d \in Device, Register(a, d) \/ SignOut(a, d) \/ Unregister(a, d)
      PROVE  Counted(i)'
    BY <1>1, <1>6 DEF Register, SignOut, Unregister, tables, history
<1> QED BY <1>2, <1>3, <1>4, <1>5, <1>6 DEF Next

\* Between two rejections a friendship is undone less often than there are
\* requests at a time, for any number of accounts, rows and requests.
THEOREM UndoneFew == Spec => []UndoneBounded
<1>1. Init => CountInv
    <2> SUFFICES ASSUME Init, NEW i \in Row PROVE Counted(i)
        BY DEF CountInv
    <2>1. rows[i].state = "free" /\ undone[i] = 0
        BY EntryFields DEF Init
    <2> QED BY <2>1 DEF Counted
<1>2. IInv /\ CountInv /\ [Next]_vars => CountInv'
    BY CountStep DEF CountInv
<1>3. CountInv => UndoneBounded
    BY DEF CountInv, Counted, UndoneBounded
<1> QED BY <1>1, <1>2, <1>3, Inductive, PTL DEF Spec

\* Only a sign-out of the account that a token belongs to, or the end of that
\* account, takes the token away, for any number of accounts and devices.
THEOREM DevicesKept == Spec => DeviceKept
<1>1. ASSUME TypeOK, [Next]_vars, NEW d \in Device, devices[d] # None, devices'[d] = None
      PROVE  <<devices[d], d>> \in leaving \/ devices[d] \notin live'
    <2> USE <1>1 DEF TypeOK
    <2>1. CASE UNCHANGED devices
        BY <2>1
    <2>2. ASSUME NEW a \in Account, NEW e \in Device, Register(a, e) PROVE FALSE
        BY <2>2, FriendsAssumption DEF Register
    <2>3. ASSUME NEW a \in Account, NEW e \in Device, Unregister(a, e)
          PROVE  <<devices[d], d>> \in leaving
        BY <2>3 DEF Unregister, Removes
    <2>4. ASSUME NEW a \in Account, DeleteAccount(a) PROVE devices[d] \notin live'
        <3>1. devices[d] = a
            BY <2>4 DEF DeleteAccount
        <3>2. live' = live \ {a}
            BY <2>4 DEF DeleteAccount
        <3> QED BY <3>1, <3>2
    <2>5. ASSUME NEW r \in Req, Step(r) PROVE UNCHANGED devices
        BY <2>5 DEF Step, SendRequest, InsertRequest, InsertRefused, ReopenRequest, JoinGroup,
                    LeaveGroup, AddMember, RemoveMember, Die, tables
    <2>6. ASSUME NEW a \in Account, NEW i \in Row, AcceptRequest(a, i) \/ RejectRequest(a, i)
          PROVE  UNCHANGED devices
        BY <2>6 DEF AcceptRequest, RejectRequest
    <2>7. ASSUME NEW a \in Account, NEW b \in Account, Unfriend(a, b) PROVE UNCHANGED devices
        BY <2>7 DEF Unfriend
    <2>8. ASSUME NEW a \in Account, NEW g \in Group, CreateGroup(a, g) \/ DeleteGroup(a, g)
          PROVE  UNCHANGED devices
        BY <2>8 DEF CreateGroup, DeleteGroup
    <2>9. ASSUME NEW a \in Account, NEW e \in Device, SignOut(a, e) PROVE UNCHANGED devices
        BY <2>9 DEF SignOut, tables
    <2> QED BY <2>1, <2>2, <2>3, <2>4, <2>5, <2>6, <2>7, <2>8, <2>9 DEF Next, vars, tables
<1>2. TypeOK /\ [Next]_vars =>
        [\A d \in Device : devices[d] # None /\ devices'[d] = None =>
            <<devices[d], d>> \in leaving \/ devices[d] \notin live']_vars
    BY <1>1
<1>3. IInv => TypeOK
    BY DEF IInv
<1> QED BY <1>2, <1>3, Inductive, PTL DEF Spec, DeviceKept

=============================================================================
