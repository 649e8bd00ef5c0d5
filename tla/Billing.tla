------------------------------- MODULE Billing -------------------------------
(***************************************************************************)
(* internal/modules/billing: subscriptions that the app links to accounts  *)
(* and that notifications of the two stores keep up to date.               *)
(*                                                                         *)
(* An Apple report is a signed transaction, which says what was true when  *)
(* Apple signed it: reports may come late, twice or in another order; and  *)
(* a payload whose signature does not verify is read like one that does.   *)
(* A notification of Google only says that something happened: the handler *)
(* asks the store, and what it learns may be old when it is written.       *)
(* Each request runs one call to a store or to the database per step, and  *)
(* may die between two of them.                                            *)
(***************************************************************************)
EXTENDS Naturals, Sequences

CONSTANTS
    Account,    \* ids of users
    Purchase,   \* subscriptions bought in a store
    Horizon,    \* bound: the number of periods that pass
    Changes,    \* bound: what the store has to say of a purchase
    Unverified, \* bound: what payloads say whose signature does not verify
    Req,        \* bound: requests in flight at a time
    None

\* What a store says of a purchase: the order of its period (0: it has none), the
\* end of that period (0: it is left out), and the state; other is a state that
\* the code does not know, such as a pending or a paused purchase.
Report == [order : 0..Changes, until : Nat, state : {"active", "other", "grace", "expired", "revoked"}]

ASSUME BillingAssumption ==
    /\ None \notin Account \cup Purchase
    /\ Horizon \in Nat /\ Changes \in Nat
    /\ Unverified \subseteq {u \in Report : u.state # "grace"}

VARIABLES
    now,       \* the time, in billing periods; a grace period is as long
    storeOf,   \* the store of each purchase
    reports,   \* what each store has said of the purchase, the last being true
    live,      \* table users: the accounts that exist
    subs,      \* table subscriptions, by store and original_txn_id
    req,       \* what each request in flight does next, and its locals
    last,      \* history: the report each row was written from, 0 for an unverified payload
    handled,   \* history: the newest report of each transaction that was handled
    overtaken, \* history: transactions of which a newer report was handled before an older one
    linkers,   \* history: the accounts that have linked each transaction
    linker,    \* history: the last of them, while it exists
    crossed,   \* history: transactions linked while a notification had another owner in mind
    unreported \* history: until when readings of a purchase granted more than its reports name

external == <<now, storeOf, reports>>
history == <<last, handled, overtaken, linkers, linker, crossed, unreported>>
vars == <<external, live, subs, req, history>>

\* A transaction: the purchase and, with Google, the order of the period
Txn == Purchase \X (0..Changes)

\* VerifiedSub and Sub; grace is 0 without a grace period
Sub == [txn : Txn, status : {"active", "grace", "expired", "revoked"}, until : Nat, grace : Nat]

Row == [user : Account, status : {"active", "grace", "expired", "revoked"}, until : Nat, grace : Nat]

Request == [at : {"find", "upsert"}, of : Purchase, sub : Sub, version : 0..Changes,
            user : Account \cup {None}, links : BOOLEAN]

ASSUME NoneAssumption == None \notin Row \cup Request

TypeOK ==
    /\ now \in 0..Horizon
    /\ storeOf \in [Purchase -> {"apple", "google"}]
    /\ \A p \in Purchase : /\ Len(reports[p]) <= Changes
                           /\ \A v \in 1..Len(reports[p]) : reports[p][v] \in Report
    /\ live \subseteq Account
    /\ subs \in [Txn -> Row \cup {None}]
    /\ req \in [Req -> Request \cup {None}]
    /\ last \in [Txn -> 0..Changes]
    /\ handled \in [Txn -> 0..Changes]
    /\ overtaken \subseteq Txn
    /\ linkers \in [Txn -> SUBSET Account]
    /\ linker \in [Txn -> Account \cup {None}]
    /\ crossed \subseteq Txn
    /\ unreported \in [Purchase -> Nat]

Init ==
    /\ now = 0
    /\ storeOf \in [Purchase -> {"apple", "google"}]
    /\ reports = [p \in Purchase |-> <<>>]
    /\ live = Account
    /\ subs = [k \in Txn |-> None]
    /\ req = [r \in Req |-> None]
    /\ last = [k \in Txn |-> 0]
    /\ handled = [k \in Txn |-> 0]
    /\ overtaken = {}
    /\ linkers = [k \in Txn |-> {}]
    /\ linker = [k \in Txn |-> None]
    /\ crossed = {}
    /\ unreported = [p \in Purchase |-> 0]

Google(p) == storeOf[p] = "google"

-----------------------------------------------------------------------------
(* The stores *)

Latest(p) == reports[p][Len(reports[p])]

\* Google may leave the end of the period out.
Says(p, report) ==
    /\ Len(reports[p]) < Changes
    /\ \E until \in {report.until} \cup (IF Google(p) THEN {0} ELSE {}) :
          reports' = [reports EXCEPT ![p] = Append(@, [report EXCEPT !.until = until])]
    /\ UNCHANGED <<now, storeOf, live, subs, req, history>>

Buy(p) ==
    /\ reports[p] = <<>>
    /\ Says(p, [order |-> 1, until |-> now + 1, state |-> "active"])

\* A purchase that waits for its payment has no order yet.
Reserve(p) ==
    /\ Google(p)
    /\ reports[p] = <<>>
    /\ Says(p, [order |-> 0, until |-> now + 1, state |-> "other"])

Running(p) == reports[p] # <<>> /\ Latest(p).state # "revoked"

\* A period more, the first one of a purchase that waited. Google gives it an
\* order of its own.
Renew(p) ==
    LET old == Latest(p) IN
    /\ Running(p)
    /\ Says(p, [order |-> old.order + 1, until |-> (IF old.until < now THEN now ELSE old.until) + 1,
                state |-> "active"])

EnterGrace(p) ==
    /\ Google(p)
    /\ Running(p) /\ Latest(p).state = "active" /\ Latest(p).until <= now
    /\ Says(p, [Latest(p) EXCEPT !.state = "grace"])

\* Paused, or put on hold
Hold(p) ==
    /\ Google(p)
    /\ Running(p) /\ Latest(p).state \in {"active", "grace"}
    /\ Says(p, [Latest(p) EXCEPT !.state = "other"])

RunOut(p) ==
    /\ Google(p)
    /\ Running(p) /\ Latest(p).state # "expired" /\ Latest(p).until <= now
    /\ Says(p, [Latest(p) EXCEPT !.state = "expired"])

Revoke(p) ==
    /\ Running(p)
    /\ Says(p, [Latest(p) EXCEPT !.state = "revoked"])

TimePasses ==
    /\ now < Horizon
    /\ now' = now + 1
    /\ UNCHANGED <<storeOf, reports, live, subs, req, history>>

-----------------------------------------------------------------------------
(* Reading a report *)

\* Broken variant of Readable: a notification of Google is believed as it is.
ReadableLate(p) == 1..Len(reports[p])

\* Google's answer is of now; Apple's transactions keep.
Readable(p) == IF Google(p) THEN {Len(reports[p])} \ {0} ELSE 1..Len(reports[p])

\* What a link or a notification of p may carry. The version is 0 where Apple never
\* signed it: it is decoded all the same.
Payloads(p) ==
    {[version |-> v, says |-> reports[p][v]] : v \in Readable(p)}
    \cup {[version |-> 0, says |-> u] : u \in {u \in Unverified : ~Google(p)}}

\* original_txn_id: Apple's is of the purchase; Google's is LatestOrderId, or the
\* purchase token as long as there is no order.
TxnOf(p, report) == <<p, IF Google(p) THEN report.order ELSE 0>>

\* Where Google leaves it out: 30 days from now
Expires(p, report) == IF Google(p) /\ report.until = 0 THEN now + 1 ELSE report.until

\* A state that the code does not know counts as active.
Status(p, report) ==
    IF report.state \in {"grace", "expired", "revoked"} THEN report.state
    ELSE IF Expires(p, report) > now THEN "active" ELSE "expired"

\* Broken variant of GraceUntil: it starts when the report is read.
GraceFromNow(p, report) == IF report.state = "grace" THEN now + 1 ELSE 0

\* The grace period starts when the subscription runs out.
GraceUntil(p, report) == IF report.state = "grace" THEN Expires(p, report) + 1 ELSE 0

\* googlePurchaseToSub, and VerifyApple or ParseAppleASN
Verified(p, report) ==
    [txn |-> TxnOf(p, report), status |-> Status(p, report), until |-> Expires(p, report),
     grace |-> GraceUntil(p, report)]

-----------------------------------------------------------------------------
(* Requests *)

\* The report names the period it is about.
Dated(p, report) == Google(p) => report.until # 0

\* Until when a payload of p grants what no report names
Beyond(p, payload) ==
    IF payload.version = 0 THEN payload.says.until
    ELSE IF Dated(p, payload.says) THEN 0
    ELSE now + (IF payload.says.state = "grace" THEN 2 ELSE 1)

\* A payload of p is read, the start of a link or of a notification.
Begin(r, p, payload, at, a) ==
    /\ req[r] = None
    /\ req' = [req EXCEPT ![r] = [at |-> at, of |-> p, sub |-> Verified(p, payload.says),
                                  version |-> payload.version, user |-> a, links |-> a # None]]
    /\ unreported' = [unreported EXCEPT ![p] = IF @ < Beyond(p, payload) THEN Beyond(p, payload) ELSE @]
    /\ UNCHANGED <<external, live, subs, last, handled, overtaken, linkers, linker, crossed>>

\* POST /v1/billing/google/verify and /v1/billing/apple/verify
Link(r, a, p, payload) == Begin(r, p, payload, "upsert", a)

\* HandleGoogleRTDN and HandleAppleASN
Notify(r, p, payload) == Begin(r, p, payload, "find", None)

Finish(r) == req' = [req EXCEPT ![r] = None]

\* Another request has asked Google for the same transaction before.
Outruns(r) ==
    /\ Google(req[r].of)
    /\ \E s \in Req : /\ req[s] # None /\ req[s].sub.txn = req[r].sub.txn
                      /\ req[s].version < req[r].version

Handled(r) ==
    LET k == req[r].sub.txn IN
    /\ handled' = [handled EXCEPT ![k] = IF @ < req[r].version THEN req[r].version ELSE @]
    /\ overtaken' = IF Outruns(r) THEN overtaken \cup {k}
                    ELSE IF handled[k] <= req[r].version THEN overtaken \ {k} ELSE overtaken

\* byOriginalTxn: a purchase that nobody linked is ignored.
FindOwner(r) ==
    /\ req[r] # None /\ req[r].at = "find"
    /\ LET row == subs[req[r].sub.txn] IN
       IF row = None
       THEN Finish(r) /\ Handled(r)
       ELSE /\ req' = [req EXCEPT ![r].at = "upsert", ![r].user = row.user]
            /\ UNCHANGED <<handled, overtaken>>
    /\ UNCHANGED <<external, live, subs, last, linkers, linker, crossed, unreported>>

\* Broken variant of Written: the first account to link keeps the row.
WrittenForFirst(q, old) ==
    [user |-> IF old = None THEN q.user ELSE old.user, status |-> q.sub.status,
     until |-> q.sub.until, grace |-> q.sub.grace]

\* The row that INSERT ... ON CONFLICT DO UPDATE leaves
Written(q, old) ==
    [user |-> q.user, status |-> q.sub.status, until |-> q.sub.until, grace |-> q.sub.grace]

\* A notification has read another owner of the transaction that r links.
Crosses(r) ==
    \E s \in Req : /\ req[s] # None /\ req[s].sub.txn = req[r].sub.txn
                   /\ req[s].at = "upsert" /\ ~req[s].links /\ req[s].user # req[r].user

Linked(r) ==
    LET k == req[r].sub.txn IN
    /\ linkers' = [linkers EXCEPT ![k] = @ \cup {req[r].user}]
    /\ linker' = [linker EXCEPT ![k] = req[r].user]
    /\ crossed' = IF Crosses(r) THEN crossed \cup {k} ELSE crossed \ {k}

Upsert(r) ==
    LET q == req[r] IN
    /\ q # None /\ q.at = "upsert"
    /\ q.user \in live
    /\ subs' = [subs EXCEPT ![q.sub.txn] = Written(q, @)]
    /\ last' = [last EXCEPT ![q.sub.txn] = q.version]
    /\ IF q.links THEN Linked(r) ELSE UNCHANGED <<linkers, linker, crossed>>
    /\ Finish(r)
    /\ Handled(r)
    /\ UNCHANGED <<external, live, unreported>>

UpsertRefused(r) ==
    /\ req[r] # None /\ req[r].at = "upsert"
    /\ req[r].user \notin live
    /\ Finish(r)
    /\ UNCHANGED <<external, live, subs, history>>

Die(r) ==
    /\ req[r] # None
    /\ Finish(r)
    /\ UNCHANGED <<external, live, subs, history>>

\* The subscriptions of a deleted account go with it.
DeleteAccount(a) ==
    /\ a \in live
    /\ live' = live \ {a}
    /\ subs' = [k \in Txn |-> IF subs[k] # None /\ subs[k].user = a THEN None ELSE subs[k]]
    /\ linker' = [k \in Txn |-> IF linker[k] = a THEN None ELSE linker[k]]
    /\ UNCHANGED <<external, req, last, handled, overtaken, linkers, crossed, unreported>>

Next ==
    \/ TimePasses
    \/ \E p \in Purchase : \/ Buy(p) \/ Reserve(p) \/ Renew(p) \/ EnterGrace(p) \/ Hold(p)
                           \/ RunOut(p) \/ Revoke(p)
    \/ \E r \in Req, p \in Purchase : \E payload \in Payloads(p) :
          Notify(r, p, payload) \/ \E a \in Account : Link(r, a, p, payload)
    \/ \E r \in Req : FindOwner(r) \/ Upsert(r) \/ UpsertRefused(r) \/ Die(r)
    \/ \E a \in Account : DeleteAccount(a)

Spec == Init /\ [][Next]_vars

-----------------------------------------------------------------------------
(* What the rest of the program asks *)

\* The WHERE of activeForUser
Entitles(row) == row.status \in {"active", "grace"} /\ (row.until > now \/ row.grace > now)

\* Load: the account is Pro
IsPro(a) == \E k \in Txn : subs[k] # None /\ subs[k].user = a /\ Entitles(subs[k])

-----------------------------------------------------------------------------
(* Properties *)

\* A subscription belongs to an account that linked it and that exists: nothing of
\* a deleted account comes back.  It is the account that linked it last, unless a
\* notification had read the owner before that link and wrote it back after.
OwnerIsLinker ==
    /\ TypeOK
    /\ \A k \in Txn :
          /\ subs[k] # None => subs[k].user \in linkers[k] \cap live
          /\ k \notin crossed =>
                linker[k] = IF subs[k] = None THEN None ELSE subs[k].user

\* What a report that names its period grants now
Covers(report) ==
    \/ report.state \notin {"expired", "revoked"} /\ report.until > now
    \/ report.state = "grace" /\ report.until + 1 > now

\* A row entitles exactly in the period that the report names which was handled last,
\* in whatever order reports come.  With Google, where the store is asked each time,
\* that is the newest report handled, unless it was handled while a request that had
\* asked before was still on its way.
RowsAsReported ==
    \A k \in Txn : subs[k] # None =>
        /\ last[k] # 0 /\ Dated(k[1], reports[k[1]][last[k]]) =>
              (Entitles(subs[k]) <=> Covers(reports[k[1]][last[k]]))
        /\ Google(k[1]) /\ k \notin overtaken => last[k] = handled[k]

\* Nobody is Pro in a period that no report names, however late, repeated or reordered
\* the reports are, but for what comes of a reading without an end (a period from
\* then) and of a payload whose signature does not verify (what it says).
ProAccounted ==
    \A a \in Account : IsPro(a) =>
        \E p \in Purchase :
            \/ unreported[p] > now
            \/ \E v \in 1..Len(reports[p]) : Dated(p, reports[p][v]) /\ Covers(reports[p][v])

\* The purchase is paid for or in its grace period.
Paid(p) == Running(p) /\ Latest(p).state \in {"active", "grace"} /\ Covers(Latest(p))

\* "unknown purchase; ignore webhook until a client links it": a purchase that a
\* client linked is known: once its newest report is handled, it is Pro.
LinkedIsKnown ==
    \A p \in Purchase :
        /\ Google(p) /\ reports[p] # <<>> /\ handled[TxnOf(p, Latest(p))] = Len(reports[p])
        /\ TxnOf(p, Latest(p)) \notin overtaken
        /\ \E k \in Txn : k[1] = p /\ subs[k] # None /\ subs[k].status = "active"
        => (Paid(p) => \E a \in Account : IsPro(a))

=============================================================================
