------------------------------- MODULE Friends -------------------------------
(***************************************************************************)
(* internal/modules/social and internal/modules/notify: friendships,       *)
(* groups and the device tokens that pushes go to.                         *)
(*                                                                         *)
(* A request runs one SQL statement or one transaction per step.  Sending  *)
(* a friend request, joining and leaving a group read first and write what *)
(* they decided later; accept, reject, unfriend and the rest are a single  *)
(* statement.  Sign-out calls of the app are sent without waiting for the  *)
(* answer and may arrive after the phone belongs to somebody else.         *)
(***************************************************************************)
EXTENDS Naturals, FiniteSets

CONSTANTS
    Account, \* ids of users
    Row,     \* ids of friendships
    Group,   \* ids of groups
    Device,  \* push tokens: an installation of the app
    Req,     \* bound: requests between their read and their write
    Late,    \* bound: sign-outs on their way
    None

ASSUME FriendsAssumption ==
    /\ None \notin Account \cup Row \cup Group
    /\ Late \in Nat
    /\ IsFiniteSet(Req)

VARIABLES
    live,    \* table users: the accounts that exist
    rows,    \* table friendships
    groups,  \* table groups: state and owner
    members, \* table group_members
    devices, \* table device_tokens: the account of each token
    req,     \* what each request in flight writes next
    leaving, \* sign-outs on their way: account and device
    willing, \* history: who asked for or accepted each friendship since its last rejection
    undone   \* history: how often since then it went back from accepted to pending

tables == <<live, rows, groups, members, devices>>
history == <<willing, undone>>
vars == <<tables, req, leaving, history>>

Friendship == [state : {"free", "pending", "accepted", "rejected", "dropped"},
               from : Account \cup {None}, to : Account \cup {None}]

Request == [at : {"idle", "insert", "reopen", "add", "remove"}, user : Account \cup {None},
            other : Account \cup {None}, row : Row \cup {None}, group : Group \cup {None}]

Asked(at, user, other, row, group) ==
    [at |-> at, user |-> user, other |-> other, row |-> row, group |-> group]

Idle == Asked("idle", None, None, None, None)

Entry(state, from, to) == [state |-> state, from |-> from, to |-> to]

Gone == Entry("dropped", None, None)

GroupRow(state, owner) == [state |-> state, owner |-> owner]

TypeOK ==
    /\ live \subseteq Account
    /\ rows \in [Row -> Friendship]
    /\ groups \in [Group -> [state : {"free", "live", "gone"}, owner : Account \cup {None}]]
    /\ members \subseteq Group \X Account
    /\ devices \in [Device -> Account \cup {None}]
    /\ req \in [Req -> Request]
    /\ leaving \subseteq Account \X Device
    /\ willing \in [Row -> SUBSET Account]
    /\ undone \in [Row -> Nat]

Init ==
    /\ live = Account
    /\ rows = [i \in Row |-> Entry("free", None, None)]
    /\ groups = [g \in Group |-> GroupRow("free", None)]
    /\ members = {}
    /\ devices = [d \in Device |-> None]
    /\ req = [r \in Req |-> Idle]
    /\ leaving = {}
    /\ willing = [i \in Row |-> {}]
    /\ undone = [i \in Row |-> 0]

\* findBetween: the row of two accounts, whoever asked
Between(a, b) == {i \in Row : {rows[i].from, rows[i].to} = {a, b}}

Finish(r) == req' = [req EXCEPT ![r] = Idle]

-----------------------------------------------------------------------------
(* Friend requests *)

\* Broken variant of MayAsk: a pending request may be sent again.
AskedAgain(a, b) == \A i \in Between(a, b) : rows[i].state \in {"pending", "rejected"}

\* There is no row of the two, or a rejected one.
MayAsk(a, b) == \A i \in Between(a, b) : rows[i].state = "rejected"

\* SendRequest: the addressee exists; what it read decides what is written later.
SendRequest(r, a, b) ==
    /\ req[r].at = "idle"
    /\ a # b /\ b \in live
    /\ MayAsk(a, b)
    /\ req' = [req EXCEPT ![r] =
                 IF Between(a, b) = {}
                 THEN Asked("insert", a, b, None, None)
                 ELSE Asked("reopen", a, b, CHOOSE i \in Between(a, b) : TRUE, None)]
    /\ UNCHANGED <<tables, leaving, history>>

\* Broken variant of Insertable: two requests that cross make two rows.
InsertableTwice(a, b) == {a, b} \subseteq live

\* The foreign keys and uq_friendships_pair
Insertable(a, b) == {a, b} \subseteq live /\ Between(a, b) = {}

InsertRequest(r, i) ==
    LET q == req[r] IN
    /\ q.at = "insert"
    /\ Insertable(q.user, q.other)
    /\ rows[i].state = "free"
    /\ rows' = [rows EXCEPT ![i] = Entry("pending", q.user, q.other)]
    /\ willing' = [willing EXCEPT ![i] = {q.user}]
    /\ Finish(r)
    /\ UNCHANGED <<live, groups, members, devices, leaving, undone>>

InsertRefused(r) ==
    /\ req[r].at = "insert"
    /\ ~Insertable(req[r].user, req[r].other)
    /\ Finish(r)
    /\ UNCHANGED <<tables, leaving, history>>

\* UPDATE ... WHERE id: whatever the row has become, unless it is gone
ReopenRequest(r) ==
    LET q == req[r] IN
    /\ req[r].at = "reopen"
    /\ IF rows[q.row].state = "dropped"
       THEN UNCHANGED <<rows, history>>
       ELSE /\ rows' = [rows EXCEPT ![q.row] = Entry("pending", q.user, q.other)]
            /\ willing' = [willing EXCEPT ![q.row] = @ \cup {q.user}]
            /\ undone' = IF rows[q.row].state = "accepted"
                         THEN [undone EXCEPT ![q.row] = @ + 1] ELSE undone
    /\ Finish(r)
    /\ UNCHANGED <<live, groups, members, devices, leaving>>

\* Broken variant of MayDecide: the requester decides too.
DecidedByEither(i, a) == rows[i].state = "pending" /\ a \in {rows[i].from, rows[i].to}

\* The WHERE of updateStatus: a pending request, by its addressee
MayDecide(i, a) == rows[i].state = "pending" /\ rows[i].to = a

AcceptRequest(a, i) ==
    /\ MayDecide(i, a)
    /\ rows' = [rows EXCEPT ![i] = Entry("accepted", rows[i].from, rows[i].to)]
    /\ willing' = [willing EXCEPT ![i] = @ \cup {a}]
    /\ UNCHANGED <<live, groups, members, devices, req, leaving, undone>>

RejectRequest(a, i) ==
    /\ MayDecide(i, a)
    /\ rows' = [rows EXCEPT ![i] = Entry("rejected", rows[i].from, rows[i].to)]
    /\ willing' = [willing EXCEPT ![i] = {}]
    /\ undone' = [undone EXCEPT ![i] = 0]
    /\ UNCHANGED <<live, groups, members, devices, req, leaving>>

\* deleteAccepted
Unfriend(a, b) ==
    /\ \E i \in Between(a, b) : /\ rows[i].state = "accepted"
                                /\ rows' = [rows EXCEPT ![i] = Gone]
                                /\ willing' = [willing EXCEPT ![i] = {}]
                                /\ undone' = [undone EXCEPT ![i] = 0]
    /\ UNCHANGED <<live, groups, members, devices, req, leaving>>

-----------------------------------------------------------------------------
(* What the lists and the profile show *)

Friends(a, b) == \E i \in Between(a, b) : rows[i].state = "accepted"

\* listFriends: a UNION of both directions
ListFriends(a) ==
    {rows[i].to : i \in {j \in Row : rows[j].from = a /\ rows[j].state = "accepted"}}
    \cup {rows[i].from : i \in {j \in Row : rows[j].to = a /\ rows[j].state = "accepted"}}

ListIncoming(a) == {rows[i].from : i \in {j \in Row : rows[j].to = a /\ rows[j].state = "pending"}}

\* deriveStatus, of each row that the search joins
DeriveStatus(i, viewer) ==
    CASE rows[i].state = "accepted" -> "accepted"
      [] rows[i].state = "pending" -> IF rows[i].from = viewer THEN "pending_sent" ELSE "pending_received"
      [] OTHER -> "none"

\* GetUserProfile
StatusFor(viewer, target) ==
    IF viewer = target THEN "self"
    ELSE IF Between(viewer, target) = {} THEN "none"
    ELSE DeriveStatus(CHOOSE i \in Between(viewer, target) : TRUE, viewer)

-----------------------------------------------------------------------------
(* Groups *)

LiveGroup(g) == groups[g].state = "live"

\* insertGroup: the group and its owner's membership in one transaction
CreateGroup(a, g) ==
    /\ a \in live
    /\ groups[g].state = "free"
    /\ groups' = [groups EXCEPT ![g] = GroupRow("live", a)]
    /\ members' = members \cup {<<g, a>>}
    /\ UNCHANGED <<live, rows, devices, req, leaving, history>>

\* The group of the code is read ...
JoinGroup(r, a, g) ==
    /\ req[r].at = "idle"
    /\ LiveGroup(g)
    /\ req' = [req EXCEPT ![r] = Asked("add", a, None, None, g)]
    /\ UNCHANGED <<tables, leaving, history>>

\* ... and the member inserted, if the foreign keys still hold.
AddMember(r) ==
    LET q == req[r] IN
    /\ q.at = "add"
    /\ members' = IF LiveGroup(q.group) /\ q.user \in live
                  THEN members \cup {<<q.group, q.user>>} ELSE members
    /\ Finish(r)
    /\ UNCHANGED <<live, rows, groups, devices, leaving, history>>

\* The owner deletes the group instead.
MayLeave(a, g) == groups[g].owner # a /\ <<g, a>> \in members

LeaveGroup(r, a, g) ==
    /\ req[r].at = "idle"
    /\ LiveGroup(g)
    /\ MayLeave(a, g)
    /\ req' = [req EXCEPT ![r] = Asked("remove", a, None, None, g)]
    /\ UNCHANGED <<tables, leaving, history>>

RemoveMember(r) ==
    /\ req[r].at = "remove"
    /\ members' = members \ {<<req[r].group, req[r].user>>}
    /\ Finish(r)
    /\ UNCHANGED <<live, rows, groups, devices, leaving, history>>

\* The owner of a group never changes: the test and the DELETE are one step.
DeleteGroup(a, g) ==
    /\ LiveGroup(g) /\ groups[g].owner = a
    /\ groups' = [groups EXCEPT ![g] = GroupRow("gone", None)]
    /\ members' = {m \in members : m[1] # g}
    /\ UNCHANGED <<live, rows, devices, req, leaving, history>>

-----------------------------------------------------------------------------
(* Device tokens *)

\* upsert: a token that another account registered moves to this one.
Register(a, d) ==
    /\ a \in live
    /\ devices' = [devices EXCEPT ![d] = a]
    /\ UNCHANGED <<live, rows, groups, members, req, leaving, history>>

\* The app signs out; the call may take its time, or never arrive.
SignOut(a, d) ==
    /\ devices[d] = a
    /\ Cardinality(leaving) < Late
    /\ leaving' = leaving \cup {<<a, d>>}
    /\ UNCHANGED <<tables, req, history>>

\* Broken variant of Removes: DELETE ... WHERE token
RemovesAnyones(a, d) == devices[d] # None

\* DELETE ... WHERE user_id AND token
Removes(a, d) == devices[d] = a

Unregister(a, d) ==
    /\ <<a, d>> \in leaving
    /\ devices' = IF Removes(a, d) THEN [devices EXCEPT ![d] = None] ELSE devices
    /\ leaving' = leaving \ {<<a, d>>}
    /\ UNCHANGED <<live, rows, groups, members, req, history>>

-----------------------------------------------------------------------------

\* A request dies between its read and its write.
Die(r) ==
    /\ req[r].at # "idle"
    /\ Finish(r)
    /\ UNCHANGED <<tables, leaving, history>>

\* The rows that refer to a deleted account go with it, its groups and their
\* members too.
DeleteAccount(a) ==
    /\ a \in live
    /\ live' = live \ {a}
    /\ rows' = [i \in Row |-> IF a \in {rows[i].from, rows[i].to} THEN Gone ELSE rows[i]]
    /\ willing' = [i \in Row |-> IF a \in {rows[i].from, rows[i].to} THEN {} ELSE willing[i]]
    /\ undone' = [i \in Row |-> IF a \in {rows[i].from, rows[i].to} THEN 0 ELSE undone[i]]
    /\ groups' = [g \in Group |-> IF groups[g].owner = a THEN GroupRow("gone", None)
                                  ELSE groups[g]]
    /\ members' = {m \in members : m[2] # a /\ groups[m[1]].owner # a}
    /\ devices' = [d \in Device |-> IF devices[d] = a THEN None ELSE devices[d]]
    /\ UNCHANGED <<req, leaving>>

Step(r) ==
    \/ \E a, b \in Account : SendRequest(r, a, b)
    \/ \E i \in Row : InsertRequest(r, i)
    \/ InsertRefused(r)
    \/ ReopenRequest(r)
    \/ \E a \in Account, g \in Group : JoinGroup(r, a, g) \/ LeaveGroup(r, a, g)
    \/ AddMember(r)
    \/ RemoveMember(r)
    \/ Die(r)

Next ==
    \/ \E r \in Req : Step(r)
    \/ \E a \in Account, i \in Row : AcceptRequest(a, i) \/ RejectRequest(a, i)
    \/ \E a, b \in Account : Unfriend(a, b)
    \/ \E a \in Account, g \in Group : CreateGroup(a, g) \/ DeleteGroup(a, g)
    \/ \E a \in Account, d \in Device : Register(a, d) \/ SignOut(a, d) \/ Unregister(a, d)
    \/ \E a \in Account : DeleteAccount(a)

Spec == Init /\ [][Next]_vars

-----------------------------------------------------------------------------
(* Properties *)

\* "pending_sent" and "pending_received" are the two sides of one request; the
\* profile, both lists and areFriends tell the same.
ViewsAgree(a, b) ==
    /\ (StatusFor(a, b) = "pending_sent") <=> (StatusFor(b, a) = "pending_received")
    /\ (StatusFor(a, b) = "pending_sent") <=> (a \in ListIncoming(b))
    /\ (StatusFor(a, b) = "accepted") <=> Friends(b, a)
    /\ Friends(a, b) <=> b \in ListFriends(a)

\* Requests that cross, a join that overtakes the end of a group and deleted
\* accounts leave one row for two accounts, nothing of an account or a group that
\* is gone, and no group without its owner among its members; both sides of a
\* friendship see the same of it.
TablesSound ==
    /\ TypeOK
    /\ \A a, b \in Account : a # b => Cardinality(Between(a, b)) <= 1 /\ ViewsAgree(a, b)
    /\ \A i \in Row : rows[i].state \in {"pending", "accepted", "rejected"} =>
                        /\ {rows[i].from, rows[i].to} \subseteq live
                        /\ rows[i].from # rows[i].to
    /\ \A m \in members : LiveGroup(m[1]) /\ m[2] \in live
    /\ \A g \in Group : LiveGroup(g) => <<g, groups[g].owner>> \in members
    /\ \A d \in Device : devices[d] \in live \cup {None}

\* Nobody is a friend of somebody who did not ask or accept since the last time
\* one of them said no, however requests that read an old row overlap.
FriendsByConsent ==
    \A i \in Row : rows[i].state = "accepted" => {rows[i].from, rows[i].to} \subseteq willing[i]

\* The requests that will reopen row i, whatever it has become
Reopening(i) == {r \in Req : req[r].at = "reopen" /\ req[r].row = i}

\* "turns a rejected row back": a reopening that read the rejection may come when
\* the two are friends again, and undoes it.  Between two rejections that happens
\* less often than there are requests at a time (with one at a time, never): all
\* that can undo it had read the rejection, and one of them spent itself on the
\* request that was accepted.
UndoneBounded ==
    \A i \in Row : rows[i].state \in {"pending", "accepted"} =>
                        undone[i] + Cardinality(Reopening(i)) < Cardinality(Req)

\* A token that moved to another account is not removed by the late sign-out of
\* the one before: only its own account's call takes it away.
DeviceKept ==
    [][\A d \in Device : devices[d] # None /\ devices'[d] = None =>
            <<devices[d], d>> \in leaving \/ devices[d] \notin live']_vars

=============================================================================
