--------------------------- MODULE Billing_proofs ---------------------------
(***************************************************************************)
(* Proofs about Billing, for any accounts, purchases, requests in flight,  *)
(* and any number of periods and reports.                                  *)
(*                                                                         *)
(* None of the three properties is inductive.  IInv adds where each row    *)
(* and each request in flight has its values from (a report, or what no    *)
(* report names); for a transaction that is not crossed, that a            *)
(* notification in flight still knows its owner; and for one that is not   *)
(* overtaken, that no request in flight is older than what was handled.    *)
(***************************************************************************)
EXTENDS Billing, TLAPS

\* A store numbers its periods in turn.
ReportsSound ==
    /\ reports \in [Purchase -> Seq(Report)]
    /\ \A p \in Purchase : \A v \in 1 .. Len(reports[p]) : reports[p][v].order <= v

\* s holds what the report says, but for its end being noticed or not.
Tells(s, report) ==
    /\ s.until = report.until
    /\ s.grace = IF report.state = "grace" THEN report.until + 1 ELSE 0
    /\ IF report.state \in {"grace", "expired", "revoked"} THEN s.status = report.state
       ELSE s.status = "active" \/ (s.status = "expired" /\ report.until <= now)

\* s, a row or a part of a request, was read from version v of p.
Told(p, s, v) ==
    IF v = 0 THEN ~Google(p) /\ s.until <= unreported[p] /\ s.grace <= unreported[p]
    ELSE /\ v <= Len(reports[p])
         /\ IF Dated(p, reports[p][v]) THEN Tells(s, reports[p][v])
            ELSE s.until <= unreported[p] /\ s.grace <= unreported[p]

RequestSound(q) ==
    /\ q \in Request
    /\ q.sub.txn[1] = q.of
    /\ Told(q.of, q.sub, q.version)
    /\ q.at = "find" => ~q.links
    /\ q.at = "upsert" => q.user \in Account
    /\ q.at = "upsert" /\ ~q.links => q.user \in linkers[q.sub.txn]

RequestsSound == \A r \in Req : req[r] # None => RequestSound(req[r])

RowsSound ==
    \A k \in Txn : subs[k] # None =>
        /\ subs[k].user \in linkers[k] \cap live
        /\ Told(k[1], subs[k], last[k])

\* A notification of k that has read an owner, and has the last one in mind
Faithful(q, k) ==
    q # None /\ q.sub.txn = k /\ q.at = "upsert" /\ ~q.links =>
        q.user = linker[k] \/ q.user \notin live

Owned ==
    \A k \in Txn : k \notin crossed =>
        /\ linker[k] = IF subs[k] = None THEN None ELSE subs[k].user
        /\ \A r \in Req : Faithful(req[r], k)

HandledSound == \A k \in Txn : handled[k] <= Len(reports[k[1]])

InOrder ==
    \A k \in Txn : Google(k[1]) /\ k \notin overtaken =>
        /\ subs[k] # None => last[k] = handled[k]
        /\ \A r \in Req : req[r] # None /\ req[r].sub.txn = k => handled[k] <= req[r].version

IInv ==
    /\ TypeOK
    /\ ReportsSound
    /\ RequestsSound
    /\ RowsSound
    /\ Owned
    /\ HandledSound
    /\ InOrder

-----------------------------------------------------------------------------
(* Time and reports *)

\* What was said, granted and linked stays so.
Later ==
    /\ UNCHANGED storeOf
    /\ now <= now'
    /\ \A k \in Txn : linkers[k] \subseteq linkers'[k]
    /\ \A p \in Purchase :
          /\ unreported[p] <= unreported'[p]
          /\ Len(reports[p]) <= Len(reports'[p])
          /\ \A v \in 1 .. Len(reports[p]) : reports'[p][v] = reports[p][v]

LEMMA Typed ==
    ASSUME TypeOK, ReportsSound, NEW p \in Purchase
    PROVE  /\ now \in Nat /\ unreported[p] \in Nat /\ Changes \in Nat /\ Horizon \in Nat
           /\ reports[p] \in Seq(Report) /\ Len(reports[p]) \in Nat
           /\ \A v \in 1 .. Len(reports[p]) : /\ reports[p][v] \in Report
                                              /\ reports[p][v].until \in Nat
<1>1. Changes \in Nat /\ Horizon \in Nat
    BY BillingAssumption
<1>2. now \in Nat /\ unreported[p] \in Nat
    BY <1>1 DEF TypeOK
<1>3. reports[p] \in Seq(Report)
    BY DEF ReportsSound
<1>4. Len(reports[p]) \in Nat
    BY <1>3
<1>5. ASSUME NEW v \in 1 .. Len(reports[p])
      PROVE  reports[p][v] \in Report /\ reports[p][v].until \in Nat
    BY DEF TypeOK, Report
<1> QED BY <1>1, <1>2, <1>3, <1>4, <1>5

\* What was read stays what was read.
LEMMA ToldStays ==
    ASSUME IInv, TypeOK', ReportsSound', Later, NEW p \in Purchase, NEW v \in 0 .. Changes,
           NEW s, s.until \in Nat, s.grace \in Nat, Told(p, s, v)
    PROVE  Told(p, s, v)'
<1>1. /\ now \in Nat /\ unreported[p] \in Nat /\ Changes \in Nat /\ Len(reports[p]) \in Nat
      /\ \A w \in 1 .. Len(reports[p]) : reports[p][w].until \in Nat
    BY Typed DEF IInv
<1>2. now' \in Nat /\ unreported'[p] \in Nat /\ Len(reports'[p]) \in Nat
    <2>1. unreported'[p] \in Nat /\ now' \in Nat
        BY BillingAssumption DEF TypeOK
    <2>2. reports'[p] \in Seq(Report)
        BY DEF ReportsSound
    <2> QED BY <2>1, <2>2
<1>3. /\ now <= now' /\ unreported[p] <= unreported'[p] /\ storeOf' = storeOf
      /\ Len(reports[p]) <= Len(reports'[p])
    BY DEF Later
<1>4. CASE v = 0
    BY <1>1, <1>2, <1>3, <1>4 DEF Told, Google
<1>5. CASE v # 0
    <2>1. v \in 1 .. Len(reports[p]) /\ v <= Len(reports'[p])
        BY <1>1, <1>2, <1>3, <1>5 DEF Told
    <2>2. reports'[p][v] = reports[p][v] /\ reports[p][v].until \in Nat
        BY <1>1, <2>1 DEF Later
    <2>3. Dated(p, reports[p][v])' <=> Dated(p, reports[p][v])
        BY <1>3, <2>2 DEF Dated, Google
    <2>4. CASE Dated(p, reports[p][v])
        <3>1. Tells(s, reports[p][v])
            BY <1>5, <2>4 DEF Told
        <3>2. Tells(s, reports[p][v])'
            BY <1>1, <1>2, <1>3, <2>2, <3>1 DEF Tells
        <3> QED BY <1>5, <2>1, <2>3, <2>4, <3>2 DEF Told
    <2>5. CASE ~Dated(p, reports[p][v])
        <3>1. s.until <= unreported[p] /\ s.grace <= unreported[p]
            BY <1>5, <2>5 DEF Told
        <3>2. s.until <= unreported'[p] /\ s.grace <= unreported'[p]
            BY <1>1, <1>2, <1>3, <3>1
        <3> QED BY <1>5, <2>1, <2>3, <2>5, <3>2 DEF Told
    <2> QED BY <2>4, <2>5
<1> QED BY <1>4, <1>5

\* So does a request in flight.
LEMMA RequestStays ==
    ASSUME IInv, TypeOK', ReportsSound', Later, NEW q, RequestSound(q)
    PROVE  RequestSound(q)'
<1>1. q \in Request /\ q.of \in Purchase /\ q.version \in 0 .. Changes /\ q.sub.txn \in Txn
      /\ q.sub.until \in Nat /\ q.sub.grace \in Nat
    BY DEF RequestSound, Request, Sub
<1>2. Told(q.of, q.sub, q.version)
    BY DEF RequestSound
<1>3. Told(q.of, q.sub, q.version)'
    BY <1>1, <1>2, ToldStays
<1>4. linkers[q.sub.txn] \subseteq linkers'[q.sub.txn]
    BY <1>1 DEF Later
<1> QED BY <1>1, <1>3, <1>4 DEF RequestSound

\* And so does a row, as long as its account exists.
LEMMA RowStays ==
    ASSUME IInv, TypeOK', ReportsSound', Later, NEW k \in Txn, subs[k] # None,
           subs'[k] = subs[k], last'[k] = last[k], subs[k].user \in live'
    PROVE  /\ subs'[k].user \in linkers'[k] \cap live'
           /\ Told(k[1], subs[k], last[k])'
<1>1. /\ k[1] \in Purchase /\ last[k] \in 0 .. Changes
      /\ subs[k].until \in Nat /\ subs[k].grace \in Nat
    BY DEF IInv, TypeOK, Txn, Row
<1>2. PICK s : s = subs[k]
    OBVIOUS
<1>3. PICK v : v = last[k]
    OBVIOUS
<1>4. Told(k[1], s, v)
    BY <1>2, <1>3 DEF IInv, RowsSound
<1>5. Told(k[1], s, v)'
    BY <1>1, <1>2, <1>3, <1>4, ToldStays
<1>6. subs[k].user \in linkers[k] /\ linkers[k] \subseteq linkers'[k]
    BY DEF IInv, RowsSound, Later
<1> QED BY <1>2, <1>3, <1>5, <1>6 DEF Told, Tells, Dated, Google

\* Rows and requests that stay are still from what they were read from.
LEMMA AllStay ==
    ASSUME IInv, TypeOK', ReportsSound', Later, UNCHANGED <<live, subs, req, last>>
    PROVE  RowsSound' /\ RequestsSound'
<1>1. RowsSound'
    <2>1. ASSUME NEW k \in Txn, subs'[k] # None
          PROVE  /\ subs'[k].user \in linkers'[k] \cap live'
                 /\ Told(k[1], subs[k], last[k])'
        <3>1. subs[k] # None /\ subs[k].user \in live'
            BY <2>1 DEF IInv, RowsSound
        <3> QED BY <3>1, RowStays
    <2> QED BY <2>1 DEF RowsSound
<1>2. RequestsSound'
    <2>1. ASSUME NEW r \in Req, req'[r] # None
          PROVE  RequestSound(req[r])'
        <3>1. PICK q : q = req[r]
            OBVIOUS
        <3>2. RequestSound(q)
            BY <2>1, <3>1 DEF IInv, RequestsSound
        <3>3. RequestSound(q)'
            BY <3>2, RequestStays
        <3> QED BY <3>1, <3>3 DEF RequestSound, Told, Tells, Dated, Google
    <2> QED BY <2>1 DEF RequestsSound
<1> QED BY <1>1, <1>2

\* Time and the stores touch nothing else.
LEMMA OutsideKeeps ==
    ASSUME IInv, TypeOK', ReportsSound', Later, UNCHANGED <<live, subs, req, history>>
    PROVE  IInv'
<1>1. RowsSound' /\ RequestsSound'
    BY AllStay DEF history
<1>2. Owned'
    BY DEF IInv, Owned, Faithful, history
<1>3. HandledSound'
    <2>1. ASSUME NEW k \in Txn PROVE handled[k] <= Len(reports'[k[1]])
        <3>1. k[1] \in Purchase /\ handled[k] \in 0 .. Changes
            BY DEF IInv, TypeOK, Txn
        <3>2. Len(reports[k[1]]) \in Nat /\ Changes \in Nat
            BY <3>1, Typed DEF IInv
        <3>3. reports'[k[1]] \in Seq(Report)
            BY <3>1 DEF ReportsSound
        <3>4. Len(reports'[k[1]]) \in Nat
            BY <3>3
        <3>5. handled[k] <= Len(reports[k[1]]) /\ Len(reports[k[1]]) <= Len(reports'[k[1]])
            BY <3>1 DEF IInv, HandledSound, Later
        <3> QED BY <3>1, <3>2, <3>4, <3>5
    <2> QED BY <2>1 DEF HandledSound, history
<1>4. InOrder'
    BY DEF IInv, InOrder, Google, Later, history
<1> QED BY <1>1, <1>2, <1>3, <1>4 DEF IInv

LEMMA TimePassesKeeps ==
    ASSUME IInv, TimePasses
    PROVE  IInv'
<1> USE DEF TimePasses
<1>1. now \in 0 .. Horizon /\ now' \in 0 .. Horizon /\ now <= now'
    BY BillingAssumption DEF IInv, TypeOK
<1>2. TypeOK' /\ ReportsSound'
    BY <1>1 DEF IInv, TypeOK, ReportsSound, history
<1>3. ASSUME NEW p \in Purchase PROVE unreported[p] \in Nat /\ Len(reports[p]) \in Nat
    BY Typed DEF IInv
<1>4. Later
    BY <1>1, <1>3 DEF Later, history
<1> QED BY <1>2, <1>4, OutsideKeeps

LEMMA LatestTyped ==
    ASSUME IInv, NEW p \in Purchase, reports[p] # <<>>
    PROVE  /\ Len(reports[p]) \in 1 .. Len(reports[p])
           /\ Latest(p) \in Report
           /\ Latest(p).order <= Len(reports[p])
<1>1. reports[p] \in Seq(Report)
    BY DEF IInv, ReportsSound
<1>2. Len(reports[p]) \in 1 .. Len(reports[p])
    BY <1>1
<1> QED BY <1>1, <1>2 DEF IInv, ReportsSound, Latest

\* A store says something new of a purchase.
LEMMA SaysKeeps ==
    ASSUME IInv, NEW p \in Purchase, NEW report \in Report, Says(p, report),
           report.order <= Len(reports[p]) + 1
    PROVE  IInv'
<1> USE DEF Says
<1>0. Changes \in Nat /\ Len(reports[p]) < Changes
    BY BillingAssumption
<1>1. /\ reports \in [Purchase -> Seq(Report)]
      /\ \A x \in Purchase : reports[x] \in Seq(Report) /\ Len(reports[x]) \in Nat
    BY DEF IInv, ReportsSound
<1>2. PICK until \in {report.until} \cup (IF Google(p) THEN {0} ELSE {}) :
         reports' = [reports EXCEPT ![p] = Append(@, [report EXCEPT !.until = until])]
    OBVIOUS
<1> DEFINE added == [report EXCEPT !.until = until]
<1>3. until \in Nat
    BY <1>2 DEF Report
<1>4. added \in Report /\ added.order = report.order
    BY <1>3 DEF Report
<1>5. reports' = [reports EXCEPT ![p] = Append(@, added)]
    BY <1>2
<1> HIDE DEF added
<1>6. /\ reports'[p] = Append(reports[p], added)
      /\ \A x \in Purchase : x # p => reports'[x] = reports[x]
    BY <1>1, <1>5
<1>7. /\ Len(reports'[p]) = Len(reports[p]) + 1
      /\ \A v \in 1 .. Len(reports[p]) : reports'[p][v] = reports[p][v]
      /\ reports'[p][Len(reports[p]) + 1] = added
    BY <1>1, <1>4, <1>6
<1>8. ReportsSound'
    <2>1. reports' \in [Purchase -> Seq(Report)]
        BY <1>1, <1>4, <1>5
    <2>2. ASSUME NEW x \in Purchase, NEW v \in 1 .. Len(reports'[x])
          PROVE  reports'[x][v].order <= v
        <3>1. CASE x # p
            BY <1>6, <2>2, <3>1 DEF IInv, ReportsSound
        <3>2. CASE x = p /\ v \in 1 .. Len(reports[p])
            BY <1>7, <3>2 DEF IInv, ReportsSound
        <3>3. CASE x = p /\ v = Len(reports[p]) + 1
            BY <1>4, <1>7, <3>3
        <3> QED BY <1>1, <1>7, <2>2, <3>1, <3>2, <3>3
    <2> QED BY <2>1, <2>2 DEF ReportsSound
<1>9. TypeOK'
    <2>1. ASSUME NEW x \in Purchase
          PROVE  /\ Len(reports'[x]) <= Changes
                 /\ \A v \in 1 .. Len(reports'[x]) : reports'[x][v] \in Report
        <3>1. reports'[x] \in Seq(Report)
            BY <1>8 DEF ReportsSound
        <3>2. Len(reports'[x]) <= Changes
            BY <1>0, <1>1, <1>6, <1>7 DEF IInv, TypeOK
        <3> QED BY <3>1, <3>2
    <2> QED BY <2>1 DEF IInv, TypeOK, history
<1>10. Later
    <2>1. ASSUME NEW x \in Purchase
          PROVE  /\ unreported[x] <= unreported'[x] /\ Len(reports[x]) <= Len(reports'[x])
                 /\ \A v \in 1 .. Len(reports[x]) : reports'[x][v] = reports[x][v]
        <3>1. unreported[x] \in Nat /\ unreported'[x] = unreported[x]
            BY Typed DEF IInv, history
        <3> QED BY <1>1, <1>6, <1>7, <3>1
    <2>2. now \in Nat /\ now' = now
        BY Typed DEF IInv, TypeOK
    <2> QED BY <2>1, <2>2 DEF Later, history
<1> QED BY <1>8, <1>9, <1>10, OutsideKeeps

LEMMA BuyKeeps ==
    ASSUME IInv, NEW p \in Purchase, Buy(p) \/ Reserve(p)
    PROVE  IInv'
<1> DEFINE bought == [order |-> 1, until |-> now + 1, state |-> "active"]
           waits == [order |-> 0, until |-> now + 1, state |-> "other"]
<1>1. now \in Nat /\ Changes \in Nat
    BY Typed DEF IInv
<1>2. Len(reports[p]) = 0 /\ 0 < Changes
    BY DEF Buy, Reserve, Says
<1>3. bought \in Report /\ waits \in Report /\ bought.order = 1 /\ waits.order = 0
    BY <1>1, <1>2 DEF Report
<1>4. Says(p, bought) \/ Says(p, waits)
    BY DEF Buy, Reserve
<1> HIDE DEF bought, waits
<1> QED BY <1>2, <1>3, <1>4, SaysKeeps

LEMMA RenewKeeps ==
    ASSUME IInv, NEW p \in Purchase, Renew(p)
    PROVE  IInv'
<1> DEFINE old == Latest(p)
           report == [order |-> old.order + 1, until |-> (IF old.until < now THEN now ELSE old.until) + 1,
                      state |-> "active"]
<1>1. now \in Nat /\ Changes \in Nat
    BY Typed DEF IInv
<1>2. reports[p] # <<>> /\ Len(reports[p]) < Changes
    BY DEF Renew, Running, Says
<1>3. /\ Len(reports[p]) \in Nat
      /\ old.order \in 0 .. Changes /\ old.until \in Nat /\ old.order <= Len(reports[p])
    BY <1>1, <1>2, LatestTyped DEF Report
<1>4. Says(p, report)
    BY DEF Renew
<1> HIDE DEF old
<1>5. report \in Report
    BY <1>1, <1>2, <1>3 DEF Report
<1>6. report.order <= Len(reports[p]) + 1
    BY <1>1, <1>2, <1>3
<1> HIDE DEF report
<1> QED BY <1>4, <1>5, <1>6, SaysKeeps

\* The latest report with another state
LEMMA RestateKeeps ==
    ASSUME IInv, NEW p \in Purchase, NEW state \in {"active", "other", "grace", "expired", "revoked"},
           reports[p] # <<>>, Says(p, [Latest(p) EXCEPT !.state = state])
    PROVE  IInv'
<1> DEFINE report == [Latest(p) EXCEPT !.state = state]
<1>1. /\ Latest(p) \in Report /\ Len(reports[p]) \in Nat
      /\ Latest(p).order <= Len(reports[p])
    BY LatestTyped
<1>2. report \in Report /\ report.order = Latest(p).order
    BY <1>1 DEF Report
<1>3. Latest(p).order \in Nat
    BY <1>1, BillingAssumption DEF Report
<1>4. Says(p, report)
    OBVIOUS
<1> HIDE DEF report
<1>5. report.order <= Len(reports[p]) + 1
    BY <1>1, <1>2, <1>3
<1> QED BY <1>2, <1>4, <1>5, SaysKeeps

-----------------------------------------------------------------------------
(* Requests *)

LEMMA RequestFacts ==
    ASSUME IInv, NEW r \in Req, req[r] # None
    PROVE  /\ req[r] \in Request /\ req[r].of \in Purchase /\ req[r].version \in 0 .. Changes
           /\ req[r].sub \in Sub /\ req[r].sub.txn \in Txn /\ req[r].sub.txn[1] = req[r].of
           /\ req[r].version <= Len(reports[req[r].of])
<1>1. RequestSound(req[r])
    BY DEF IInv, RequestsSound
<1>2. /\ req[r] \in Request /\ req[r].of \in Purchase /\ req[r].version \in 0 .. Changes
      /\ req[r].sub \in Sub /\ req[r].sub.txn \in Txn /\ req[r].sub.txn[1] = req[r].of
    BY <1>1 DEF RequestSound, Request, Sub
<1>3. Told(req[r].of, req[r].sub, req[r].version)
    BY <1>1 DEF RequestSound
<1>4. Len(reports[req[r].of]) \in Nat
    BY <1>2, Typed DEF IInv
<1> QED BY <1>2, <1>3, <1>4 DEF Told

\* What a payload says is what the row and the request are told of.
LEMMA PayloadTold ==
    ASSUME IInv, NEW p \in Purchase, NEW payload \in Payloads(p)
    PROVE  /\ payload.version \in 0 .. Changes
           /\ payload.version <= Len(reports[p])
           /\ Google(p) => payload.version = Len(reports[p])
           /\ Beyond(p, payload) \in Nat
           /\ Verified(p, payload.says) \in Sub
           /\ Verified(p, payload.says).txn[1] = p
           /\ LET s == Verified(p, payload.says) IN
              IF payload.version = 0
              THEN ~Google(p) /\ s.until <= Beyond(p, payload) /\ s.grace <= Beyond(p, payload)
              ELSE /\ payload.says = reports[p][payload.version]
                   /\ IF Dated(p, payload.says) THEN Tells(s, payload.says)
                      ELSE s.until <= Beyond(p, payload) /\ s.grace <= Beyond(p, payload)
<1> DEFINE u == payload.says
<1>1. /\ now \in Nat /\ Changes \in Nat /\ reports[p] \in Seq(Report) /\ Len(reports[p]) \in Nat
      /\ Len(reports[p]) <= Changes
      /\ \A v \in 1 .. Len(reports[p]) : reports[p][v] \in Report
    BY Typed DEF IInv, TypeOK
<1>2. \/ /\ payload.version \in 1 .. Len(reports[p]) /\ u = reports[p][payload.version]
         /\ u \in Report /\ (Google(p) => payload.version = Len(reports[p]))
      \/ payload.version = 0 /\ u \in Report /\ u.state # "grace" /\ ~Google(p)
    <2>1. CASE \E v \in Readable(p) : payload = [version |-> v, says |-> reports[p][v]]
        <3>1. PICK v \in Readable(p) : payload = [version |-> v, says |-> reports[p][v]]
            BY <2>1
        <3>2. v \in 1 .. Len(reports[p]) /\ (Google(p) => v = Len(reports[p]))
            BY <1>1 DEF Readable
        <3> QED BY <1>1, <3>1, <3>2
    <2>2. CASE \E x \in Unverified : ~Google(p) /\ payload = [version |-> 0, says |-> x]
        BY <2>2, BillingAssumption
    <2> QED BY <2>1, <2>2 DEF Payloads
<1>3. u \in Report /\ u.until \in Nat /\ u.order \in 0 .. Changes
      /\ u.state \in {"active", "other", "grace", "expired", "revoked"}
    BY <1>2 DEF Report
<1>4. payload.version \in 0 .. Changes /\ payload.version <= Len(reports[p])
      /\ (Google(p) => payload.version = Len(reports[p]))
    BY <1>1, <1>2
<1>5. (payload.version = 0) <=> ~(payload.version \in 1 .. Len(reports[p]))
    BY <1>1, <1>2
<1> HIDE DEF u
<1>6. Expires(p, u) \in Nat /\ GraceUntil(p, u) \in Nat
    BY <1>1, <1>3 DEF Expires, GraceUntil
<1>7. Status(p, u) \in {"active", "grace", "expired", "revoked"}
    BY DEF Status
<1>8. TxnOf(p, u) \in Txn /\ TxnOf(p, u)[1] = p
    BY <1>1, <1>3 DEF TxnOf, Txn
<1> DEFINE s == Verified(p, u)
<1>9. /\ s \in Sub /\ s.txn[1] = p /\ s.until = Expires(p, u) /\ s.grace = GraceUntil(p, u)
      /\ s.status = Status(p, u)
    BY <1>6, <1>7, <1>8 DEF Verified, Sub
<1> HIDE DEF s
<1>10. Beyond(p, payload) \in Nat
    BY <1>1, <1>3 DEF Beyond, u
<1>11. CASE payload.version = 0
    <2>1. ~Google(p) /\ u.state # "grace"
        BY <1>2, <1>5, <1>11
    <2>2. Beyond(p, payload) = u.until
        BY <1>11 DEF Beyond, u
    <2>3. s.until = u.until /\ s.grace = 0
        BY <1>9, <2>1 DEF Expires, GraceUntil
    <2>4. s.until <= Beyond(p, payload) /\ s.grace <= Beyond(p, payload)
        BY <1>3, <2>2, <2>3
    <2> QED BY <1>4, <1>9, <1>10, <1>11, <2>1, <2>4 DEF s, u
<1>12. CASE payload.version # 0 /\ Dated(p, u)
    <2>1. s.until = u.until /\ s.grace = IF u.state = "grace" THEN u.until + 1 ELSE 0
        BY <1>9, <1>12 DEF Dated, Expires, GraceUntil
    <2>2. IF u.state \in {"grace", "expired", "revoked"} THEN s.status = u.state
          ELSE s.status = "active" \/ (s.status = "expired" /\ u.until <= now)
        BY <1>1, <1>3, <1>9, <2>1 DEF Status
    <2>3. Tells(s, u)
        BY <2>1, <2>2 DEF Tells
    <2> QED BY <1>2, <1>4, <1>9, <1>10, <1>12, <2>3 DEF s, u
<1>13. CASE payload.version # 0 /\ ~Dated(p, u)
    <2>1. s.until = now + 1 /\ s.grace = IF u.state = "grace" THEN now + 2 ELSE 0
        BY <1>1, <1>9, <1>13 DEF Dated, Expires, GraceUntil
    <2>2. Beyond(p, payload) = now + (IF u.state = "grace" THEN 2 ELSE 1)
        BY <1>13 DEF Beyond, u
    <2>3. s.until <= Beyond(p, payload) /\ s.grace <= Beyond(p, payload)
        BY <1>1, <2>1, <2>2
    <2> QED BY <1>2, <1>4, <1>9, <1>10, <1>13, <2>3 DEF s, u
<1> QED BY <1>11, <1>12, <1>13

\* A request begins with what a payload says, as a link or as a notification.
LEMMA BeginKeeps ==
    ASSUME IInv, NEW r \in Req, NEW p \in Purchase, NEW payload \in Payloads(p),
           NEW at \in {"find", "upsert"}, NEW a \in Account \cup {None},
           at = "upsert" <=> a # None, Begin(r, p, payload, at, a)
    PROVE  IInv'
<1> DEFINE q == [at |-> at, of |-> p, sub |-> Verified(p, payload.says),
                 version |-> payload.version, user |-> a, links |-> a # None]
           until == Beyond(p, payload)
<1>0. /\ req[r] = None /\ req' = [req EXCEPT ![r] = q]
      /\ unreported' = [unreported EXCEPT ![p] = IF @ < until THEN until ELSE @]
      /\ UNCHANGED external
      /\ UNCHANGED <<live, subs, last, handled, overtaken, linkers, linker, crossed>>
    BY DEF Begin
<1>1. PICK s : s = Verified(p, payload.says)
    OBVIOUS
<1>2. PICK v : v = payload.version
    OBVIOUS
<1>3. /\ v \in 0 .. Changes /\ v <= Len(reports[p]) /\ (Google(p) => v = Len(reports[p]))
      /\ until \in Nat /\ s \in Sub /\ s.txn[1] = p
    BY <1>1, <1>2, PayloadTold
<1>4. IF v = 0 THEN ~Google(p) /\ s.until <= until /\ s.grace <= until
      ELSE IF Dated(p, reports[p][v]) THEN Tells(s, reports[p][v])
      ELSE s.until <= until /\ s.grace <= until
    BY <1>1, <1>2, PayloadTold
<1>5. /\ q \in Request /\ q.of = p /\ q.sub = s /\ q.version = v /\ q.at = at /\ q.user = a
      /\ q.links = (a # None)
    BY <1>1, <1>2, <1>3 DEF Request
<1> HIDE DEF q, until
<1>6. /\ unreported' \in [Purchase -> Nat] /\ until <= unreported'[p]
      /\ \A x \in Purchase : unreported[x] <= unreported'[x]
    BY <1>0, <1>3 DEF IInv, TypeOK
<1>7. /\ req' \in [Req -> Request \cup {None}] /\ req'[r] = q
      /\ \A t \in Req : t # r => req'[t] = req[t]
    BY <1>0, <1>5 DEF IInv, TypeOK
<1>8. TypeOK' /\ ReportsSound'
    BY <1>0, <1>6, <1>7 DEF IInv, TypeOK, ReportsSound, external
<1>9. Later
    <2>1. now \in Nat /\ \A x \in Purchase : Len(reports[x]) \in Nat
        BY Typed DEF IInv, TypeOK
    <2> QED BY <1>0, <1>6, <2>1 DEF Later, external
<1>10. RowsSound'
    <2>1. ASSUME NEW k \in Txn, subs'[k] # None
          PROVE  /\ subs'[k].user \in linkers'[k] \cap live'
                 /\ Told(k[1], subs[k], last[k])'
        <3>1. subs[k] # None /\ subs[k].user \in live'
            BY <1>0, <2>1 DEF IInv, RowsSound
        <3> QED BY <1>0, <1>8, <1>9, <3>1, RowStays
    <2> QED BY <2>1 DEF RowsSound
<1>11. Told(p, s, v)'
    <2>1. s.until \in Nat /\ s.grace \in Nat /\ unreported'[p] \in Nat
        BY <1>3, <1>6 DEF Sub
    <2>2. s.until <= until /\ s.grace <= until =>
             s.until <= unreported'[p] /\ s.grace <= unreported'[p]
        BY <1>3, <1>6, <2>1
    <2> QED BY <1>0, <1>3, <1>4, <2>2 DEF Told, Tells, Dated, Google, external
<1>12. RequestsSound'
    <2>1. ASSUME NEW t \in Req, req'[t] # None
          PROVE  RequestSound(req[t])'
        <3>1. CASE t = r
            BY <1>3, <1>5, <1>7, <1>11, <3>1 DEF RequestSound, Told, Tells, Dated, Google
        <3>2. CASE t # r
            <4>1. PICK x : x = req[t]
                OBVIOUS
            <4>2. req'[t] = x /\ RequestSound(x)
                BY <1>7, <2>1, <3>2, <4>1 DEF IInv, RequestsSound
            <4>3. RequestSound(x)'
                BY <1>8, <1>9, <4>2, RequestStays
            <4> QED BY <4>2, <4>3 DEF RequestSound, Told, Tells, Dated, Google
        <3> QED BY <3>1, <3>2
    <2> QED BY <2>1 DEF RequestsSound
<1>13. Owned'
    <2>1. ASSUME NEW k \in Txn, k \notin crossed
          PROVE  /\ linker[k] = IF subs[k] = None THEN None ELSE subs[k].user
                 /\ \A t \in Req : Faithful(req'[t], k)
        <3>1. ASSUME NEW t \in Req PROVE Faithful(req'[t], k)
            <4>1. CASE t = r
                BY <1>5, <1>7, <4>1 DEF Faithful
            <4>2. CASE t # r
                BY <1>7, <2>1, <4>2 DEF IInv, Owned
            <4> QED BY <4>1, <4>2
        <3> QED BY <2>1, <3>1 DEF IInv, Owned
    <2> QED BY <1>0, <2>1 DEF Owned, Faithful
<1>14. HandledSound'
    BY <1>0 DEF IInv, HandledSound, external
<1>15. InOrder'
    <2>1. ASSUME NEW k \in Txn, Google(k[1]), k \notin overtaken
          PROVE  /\ subs[k] # None => last[k] = handled[k]
                 /\ \A t \in Req : req'[t] # None /\ req'[t].sub.txn = k =>
                       handled[k] <= req'[t].version
        <3>1. ASSUME NEW t \in Req, req'[t] # None, req'[t].sub.txn = k
              PROVE  handled[k] <= req'[t].version
            <4>1. CASE t = r
                <5>1. k[1] = p
                    BY <1>3, <1>5, <1>7, <3>1, <4>1
                <5>2. handled[k] <= Len(reports[p])
                    BY <5>1 DEF IInv, HandledSound
                <5> QED BY <1>3, <1>5, <1>7, <2>1, <4>1, <5>1, <5>2
            <4>2. CASE t # r
                BY <1>7, <2>1, <3>1, <4>2 DEF IInv, InOrder
            <4> QED BY <4>1, <4>2
        <3> QED BY <2>1, <3>1 DEF IInv, InOrder
    <2> QED BY <1>0, <2>1 DEF InOrder, Google, external
<1> QED BY <1>8, <1>10, <1>12, <1>13, <1>14, <1>15 DEF IInv

\* A request in flight that ends, one way or another
LEMMA OverRequests ==
    ASSUME IInv, NEW r \in Req, Finish(r)
    PROVE  /\ req' \in [Req -> Request \cup {None}] /\ req'[r] = None
           /\ \A t \in Req : req'[t] # None => t # r /\ req'[t] = req[t]
BY DEF IInv, TypeOK, Finish

\* The requests that are left are as sound as they were.
LEMMA OverSound ==
    ASSUME IInv, TypeOK', ReportsSound', Later, NEW r \in Req, Finish(r)
    PROVE  RequestsSound'
<1>1. ASSUME NEW t \in Req, req'[t] # None
      PROVE  RequestSound(req[t])'
    <2>1. PICK x : x = req[t]
        OBVIOUS
    <2>2. req'[t] = x /\ RequestSound(x)
        BY <1>1, <2>1, OverRequests DEF IInv, RequestsSound
    <2>3. RequestSound(x)'
        BY <2>2, RequestStays
    <2> QED BY <2>2, <2>3 DEF RequestSound, Told, Tells, Dated, Google
<1> QED BY <1>1 DEF RequestsSound

\* What does not touch reports, grants or links
LEMMA Unmoved ==
    ASSUME IInv, UNCHANGED external, UNCHANGED unreported,
           \A k \in Txn : linkers[k] \subseteq linkers'[k]
    PROVE  Later /\ ReportsSound'
<1>1. now \in Nat /\ \A x \in Purchase : Len(reports[x]) \in Nat /\ unreported[x] \in Nat
    BY Typed DEF IInv, TypeOK
<1> QED BY <1>1 DEF Later, IInv, ReportsSound, external

LEMMA OverKeeps ==
    ASSUME IInv, NEW r \in Req, Finish(r), UNCHANGED <<external, live, subs, history>>
    PROVE  IInv'
<1>1. /\ req' \in [Req -> Request \cup {None}]
      /\ \A t \in Req : req'[t] # None => t # r /\ req'[t] = req[t]
    BY OverRequests
<1>2. TypeOK'
    BY <1>1 DEF IInv, TypeOK, external, history
<1>3. Later /\ ReportsSound'
    BY Unmoved DEF history
<1>4. RequestsSound'
    BY <1>2, <1>3, OverSound
<1>5. RowsSound'
    BY DEF IInv, RowsSound, Told, Tells, Dated, Google, external, history
<1>6. Owned'
    <2>1. ASSUME NEW k \in Txn, NEW t \in Req, Faithful(req[t], k)
          PROVE  Faithful(req'[t], k)
        BY <1>1, <2>1 DEF Faithful
    <2> QED BY <2>1 DEF IInv, Owned, Faithful, history
<1>7. HandledSound' /\ InOrder'
    BY <1>1 DEF IInv, HandledSound, InOrder, Google, external, history
<1> QED BY <1>2, <1>3, <1>4, <1>5, <1>6, <1>7 DEF IInv

\* What handling a request leaves in handled and overtaken
LEMMA HandledEffect ==
    ASSUME IInv, NEW r \in Req, req[r] # None, Handled(r), NEW k \in Txn, k = req[r].sub.txn
    PROVE  /\ handled' \in [Txn -> 0 .. Changes] /\ overtaken' \subseteq Txn
           /\ \A x \in Txn : x # k => handled'[x] = handled[x] /\ (x \in overtaken' <=> x \in overtaken)
           /\ handled'[k] <= Len(reports[k[1]])
           /\ Google(k[1]) /\ k \notin overtaken' =>
                 /\ handled'[k] = req[r].version
                 /\ \A s \in Req : req[s] # None /\ req[s].sub.txn = k => handled'[k] <= req[s].version
<1> DEFINE v == req[r].version
<1>0. Changes \in Nat
    BY BillingAssumption
<1>1. /\ v \in 0 .. Changes /\ v <= Len(reports[k[1]]) /\ k[1] = req[r].of /\ k[1] \in Purchase
    BY RequestFacts
<1>2. handled[k] \in 0 .. Changes /\ handled[k] <= Len(reports[k[1]])
    BY DEF IInv, TypeOK, HandledSound
<1>3. /\ handled' = [handled EXCEPT ![k] = IF handled[k] < v THEN v ELSE handled[k]]
      /\ overtaken' = IF Outruns(r) THEN overtaken \cup {k}
                      ELSE IF handled[k] <= v THEN overtaken \ {k} ELSE overtaken
    BY DEF Handled
<1>4. Google(k[1]) /\ ~Outruns(r) =>
         \A s \in Req : req[s] # None /\ req[s].sub.txn = k => ~(req[s].version < v)
    BY <1>1 DEF Outruns
<1>5. ASSUME NEW s \in Req, req[s] # None PROVE req[s].version \in 0 .. Changes
    BY <1>5, RequestFacts
<1> HIDE DEF v
<1>6. handled' \in [Txn -> 0 .. Changes] /\ overtaken' \subseteq Txn
    BY <1>0, <1>1, <1>2, <1>3 DEF IInv, TypeOK
<1>7. \A x \in Txn : x # k => handled'[x] = handled[x] /\ (x \in overtaken' <=> x \in overtaken)
    BY <1>3 DEF IInv, TypeOK
<1>8. handled'[k] = IF handled[k] < v THEN v ELSE handled[k]
    BY <1>3 DEF IInv, TypeOK
<1>9. handled'[k] <= Len(reports[k[1]])
    BY <1>1, <1>2, <1>8
<1>10. ASSUME Google(k[1]), k \notin overtaken'
       PROVE  /\ handled'[k] = v
              /\ \A s \in Req : req[s] # None /\ req[s].sub.txn = k => handled'[k] <= req[s].version
    <2>1. ~Outruns(r) /\ (handled[k] <= v \/ k \notin overtaken)
        BY <1>3, <1>10
    <2>2. handled[k] <= v
        BY <1>10, <2>1 DEF IInv, InOrder, v
    <2>3. handled'[k] = v
        BY <1>0, <1>1, <1>2, <1>8, <2>2
    <2> QED BY <1>0, <1>1, <1>4, <1>5, <1>10, <2>1, <2>3
<1> QED BY <1>6, <1>7, <1>9, <1>10 DEF v

LEMMA FindOwnerKeeps ==
    ASSUME IInv, NEW r \in Req, FindOwner(r)
    PROVE  IInv'
<1> DEFINE k == req[r].sub.txn
<1>0. /\ req[r] # None /\ req[r].at = "find"
      /\ UNCHANGED external /\ UNCHANGED <<live, subs, last, linkers, linker, crossed, unreported>>
    BY DEF FindOwner
<1>1. /\ req[r] \in Request /\ k \in Txn /\ ~req[r].links
    BY <1>0, RequestFacts DEF IInv, RequestsSound, RequestSound
<1>2. Later /\ ReportsSound'
    BY <1>0, Unmoved
<1>3. CASE subs[k] = None
    <2>1. Finish(r) /\ Handled(r)
        BY <1>3 DEF FindOwner
    <2>2. /\ req' \in [Req -> Request \cup {None}]
          /\ \A t \in Req : req'[t] # None => t # r /\ req'[t] = req[t]
        BY <2>1, OverRequests
    <2>3. /\ handled' \in [Txn -> 0 .. Changes] /\ overtaken' \subseteq Txn
          /\ \A x \in Txn : x # k => handled'[x] = handled[x] /\ (x \in overtaken' <=> x \in overtaken)
          /\ handled'[k] <= Len(reports[k[1]])
          /\ Google(k[1]) /\ k \notin overtaken' =>
                \A s \in Req : req[s] # None /\ req[s].sub.txn = k => handled'[k] <= req[s].version
        BY <1>0, <1>1, <2>1, HandledEffect
    <2> HIDE DEF k
    <2>4. TypeOK'
        BY <1>0, <2>2, <2>3 DEF IInv, TypeOK, external
    <2>5. RequestsSound'
        BY <1>2, <2>1, <2>4, OverSound
    <2>6. RowsSound'
        BY <1>0 DEF IInv, RowsSound, Told, Tells, Dated, Google, external
    <2>7. Owned'
        <3>1. ASSUME NEW x \in Txn, NEW t \in Req, Faithful(req[t], x)
              PROVE  Faithful(req'[t], x)
            BY <2>2, <3>1 DEF Faithful
        <3> QED BY <1>0, <3>1 DEF IInv, Owned, Faithful
    <2>8. HandledSound'
        <3>1. ASSUME NEW x \in Txn PROVE handled'[x] <= Len(reports[x[1]])
            BY <2>3 DEF IInv, HandledSound
        <3> QED BY <1>0, <3>1 DEF HandledSound, external
    <2>9. InOrder'
        <3>1. ASSUME NEW x \in Txn, Google(x[1]), x \notin overtaken'
              PROVE  /\ subs[x] # None => last[x] = handled'[x]
                     /\ \A t \in Req : req'[t] # None /\ req'[t].sub.txn = x =>
                           handled'[x] <= req'[t].version
            <4>1. CASE x = k
                BY <1>3, <2>2, <2>3, <3>1, <4>1
            <4>2. CASE x # k
                BY <2>2, <2>3, <3>1, <4>2 DEF IInv, InOrder
            <4> QED BY <4>1, <4>2
        <3> QED BY <1>0, <3>1 DEF InOrder, Google, external
    <2> QED BY <1>2, <2>4, <2>5, <2>6, <2>7, <2>8, <2>9 DEF IInv
<1>4. CASE subs[k] # None
    <2> DEFINE q == [req[r] EXCEPT !.at = "upsert", !.user = subs[k].user]
    <2>1. req' = [req EXCEPT ![r] = q] /\ UNCHANGED <<handled, overtaken>>
        BY <1>0, <1>1, <1>4 DEF FindOwner, IInv, TypeOK
    <2>2. subs[k].user \in Account /\ subs[k].user \in linkers[k]
        BY <1>1, <1>4 DEF IInv, TypeOK, RowsSound, Row
    <2>3. /\ q \in Request /\ q.at = "upsert" /\ q.user = subs[k].user /\ q.links = req[r].links
          /\ q.sub = req[r].sub /\ q.of = req[r].of /\ q.version = req[r].version /\ q # None
        BY <1>1, <2>2, NoneAssumption DEF Request
    <2>4. RequestSound(q)
        BY <1>0, <1>1, <2>2, <2>3 DEF IInv, RequestsSound, RequestSound
    <2> HIDE DEF q
    <2>5. /\ req' \in [Req -> Request \cup {None}] /\ req'[r] = q
          /\ \A t \in Req : t # r => req'[t] = req[t]
        BY <2>1, <2>3 DEF IInv, TypeOK
    <2>6. TypeOK'
        BY <1>0, <2>1, <2>5 DEF IInv, TypeOK, external
    <2>7. RequestsSound'
        <3>1. ASSUME NEW t \in Req, req'[t] # None PROVE RequestSound(req[t])'
            <4>1. PICK x : x = req'[t]
                OBVIOUS
            <4>2. RequestSound(x)
                BY <2>4, <2>5, <3>1, <4>1 DEF IInv, RequestsSound
            <4>3. RequestSound(x)'
                BY <1>2, <2>6, <4>2, RequestStays
            <4> QED BY <4>1, <4>3 DEF RequestSound, Told, Tells, Dated, Google
        <3> QED BY <3>1 DEF RequestsSound
    <2>8. RowsSound'
        BY <1>0 DEF IInv, RowsSound, Told, Tells, Dated, Google, external
    <2>9. Owned'
        <3>1. ASSUME NEW x \in Txn, x \notin crossed, NEW t \in Req
              PROVE  Faithful(req'[t], x)
            <4>1. CASE t = r
                <5>1. x = k => q.user = linker[x]
                    BY <1>4, <2>3, <3>1 DEF IInv, Owned
                <5> QED BY <2>3, <2>5, <4>1, <5>1 DEF Faithful
            <4>2. CASE t # r
                BY <2>5, <3>1, <4>2 DEF IInv, Owned
            <4> QED BY <4>1, <4>2
        <3> QED BY <1>0, <3>1 DEF IInv, Owned, Faithful
    <2>10. HandledSound'
        BY <1>0, <2>1 DEF IInv, HandledSound, external
    <2>11. InOrder'
        <3>1. ASSUME NEW t \in Req, req'[t] # None
              PROVE  req[t] # None /\ req'[t].sub = req[t].sub /\ req'[t].version = req[t].version
            BY <1>0, <2>3, <2>5, <3>1
        <3> QED BY <1>0, <2>1, <3>1 DEF IInv, InOrder, Google, external
    <2> QED BY <1>2, <2>6, <2>7, <2>8, <2>9, <2>10, <2>11 DEF IInv
<1> QED BY <1>3, <1>4

LEMMA UpsertKeeps ==
    ASSUME IInv, NEW r \in Req, Upsert(r)
    PROVE  IInv'
<1> DEFINE q == req[r]
           k == q.sub.txn
           row == Written(q, subs[k])
<1>0. /\ q # None /\ q.at = "upsert" /\ q.user \in live
      /\ Finish(r) /\ Handled(r)
      /\ subs' = [subs EXCEPT ![k] = row]
      /\ last' = [last EXCEPT ![k] = q.version]
      /\ IF q.links THEN Linked(r) ELSE UNCHANGED <<linkers, linker, crossed>>
      /\ UNCHANGED external /\ UNCHANGED <<live, unreported>>
    BY DEF Upsert
<1>1. /\ q \in Request /\ q.of \in Purchase /\ k \in Txn /\ k[1] = q.of
      /\ q.version \in 0 .. Changes /\ q.sub \in Sub
    BY <1>0, RequestFacts
<1>2. /\ q.user \in Account /\ q.user # None /\ Told(q.of, q.sub, q.version)
      /\ ~q.links => q.user \in linkers[k]
    BY <1>0, BillingAssumption DEF IInv, TypeOK, RequestsSound, RequestSound
<1>3. /\ row \in Row /\ row # None /\ row.user = q.user
      /\ row.until = q.sub.until /\ row.grace = q.sub.grace /\ row.status = q.sub.status
    <2>1. row \in Row
        BY <1>1, <1>2 DEF Written, Row, Sub
    <2>2. row.user = q.user /\ row.until = q.sub.until /\ row.grace = q.sub.grace
          /\ row.status = q.sub.status
        BY DEF Written
    <2> HIDE DEF row
    <2> QED BY <2>1, <2>2, NoneAssumption
<1> HIDE DEF row
<1>4. /\ subs' \in [Txn -> Row \cup {None}] /\ subs'[k] = row
      /\ \A x \in Txn : x # k => subs'[x] = subs[x]
    BY <1>0, <1>1, <1>3 DEF IInv, TypeOK
<1>5. /\ last' \in [Txn -> 0 .. Changes] /\ last'[k] = q.version
      /\ \A x \in Txn : x # k => last'[x] = last[x]
    BY <1>0, <1>1 DEF IInv, TypeOK
<1>6. /\ linkers' \in [Txn -> SUBSET Account] /\ linker' \in [Txn -> Account \cup {None}]
      /\ crossed' \subseteq Txn
      /\ \A x \in Txn : linkers[x] \subseteq linkers'[x]
      /\ \A x \in Txn : x # k => linker'[x] = linker[x] /\ (x \in crossed' <=> x \in crossed)
      /\ q.user \in linkers'[k]
      /\ q.links => linker'[k] = q.user /\ (k \notin crossed' => ~Crosses(r))
      /\ ~q.links => linker'[k] = linker[k] /\ crossed' = crossed
    <2>1. CASE q.links
        <3>1. /\ linkers' = [linkers EXCEPT ![k] = linkers[k] \cup {q.user}]
              /\ linker' = [linker EXCEPT ![k] = q.user]
              /\ crossed' = IF Crosses(r) THEN crossed \cup {k} ELSE crossed \ {k}
            BY <1>0, <2>1 DEF Linked
        <3> HIDE DEF q, k
        <3>2. /\ linkers' \in [Txn -> SUBSET Account]
              /\ \A x \in Txn : linkers[x] \subseteq linkers'[x]
              /\ q.user \in linkers'[k]
            BY <1>1, <1>2, <3>1 DEF IInv, TypeOK
        <3>3. /\ linker' \in [Txn -> Account \cup {None}] /\ linker'[k] = q.user
              /\ \A x \in Txn : x # k => linker'[x] = linker[x]
            BY <1>1, <1>2, <3>1 DEF IInv, TypeOK
        <3>4. /\ crossed' \subseteq Txn /\ (k \notin crossed' => ~Crosses(r))
              /\ \A x \in Txn : x # k => (x \in crossed' <=> x \in crossed)
            BY <1>1, <3>1 DEF IInv, TypeOK
        <3> QED BY <2>1, <3>2, <3>3, <3>4
    <2>2. CASE ~q.links
        BY <1>0, <1>2, <2>2 DEF IInv, TypeOK
    <2> QED BY <2>1, <2>2
<1>7. /\ handled' \in [Txn -> 0 .. Changes] /\ overtaken' \subseteq Txn
      /\ \A x \in Txn : x # k => handled'[x] = handled[x] /\ (x \in overtaken' <=> x \in overtaken)
      /\ handled'[k] <= Len(reports[k[1]])
      /\ Google(k[1]) /\ k \notin overtaken' =>
            /\ handled'[k] = q.version
            /\ \A s \in Req : req[s] # None /\ req[s].sub.txn = k => handled'[k] <= req[s].version
    BY <1>0, <1>1, HandledEffect
<1>8. /\ req' \in [Req -> Request \cup {None}]
      /\ \A t \in Req : req'[t] # None => t # r /\ req'[t] = req[t]
    BY <1>0, OverRequests
<1>9. TypeOK'
    BY <1>0, <1>4, <1>5, <1>6, <1>7, <1>8 DEF IInv, TypeOK, external
<1>10. Later /\ ReportsSound'
    BY <1>0, <1>6, Unmoved
<1>11. RequestsSound'
    BY <1>0, <1>9, <1>10, OverSound
<1>12. RowsSound'
    <2>1. ASSUME NEW x \in Txn, subs'[x] # None
          PROVE  subs'[x].user \in linkers'[x] \cap live /\ Told(x[1], subs[x], last[x])'
        <3>1. CASE x = k
            <4>1. Told(x[1], row, q.version)
                BY <1>1, <1>2, <1>3, <3>1 DEF Told, Tells
            <4>2. subs'[x] = row /\ last'[x] = q.version
                BY <1>4, <1>5, <3>1
            <4>3. Told(x[1], subs[x], last[x])'
                BY <1>0, <4>1, <4>2 DEF Told, Tells, Dated, Google, external
            <4> QED BY <1>0, <1>3, <1>6, <3>1, <4>2, <4>3
        <3>2. CASE x # k
            <4>1. subs[x] # None /\ subs'[x] = subs[x] /\ last'[x] = last[x]
                BY <1>4, <1>5, <2>1, <3>2
            <4>2. subs[x].user \in live'
                BY <1>0, <4>1 DEF IInv, RowsSound
            <4> QED BY <1>0, <1>9, <1>10, <4>1, <4>2, RowStays
        <3> QED BY <3>1, <3>2
    <2> QED BY <1>0, <2>1 DEF RowsSound
<1>13. Owned'
    <2>1. ASSUME NEW x \in Txn, x \notin crossed'
          PROVE  linker'[x] = IF subs'[x] = None THEN None ELSE subs'[x].user
        <3>1. CASE x = k /\ q.links
            BY <1>3, <1>4, <1>6, <3>1
        <3>2. CASE x = k /\ ~q.links
            <4>1. Faithful(q, k) /\ linker'[k] = linker[k]
                BY <1>6, <2>1, <3>2 DEF IInv, Owned
            <4>2. q.user = linker[k]
                BY <1>0, <3>2, <4>1 DEF Faithful
            <4> QED BY <1>3, <1>4, <3>2, <4>1, <4>2
        <3>3. CASE x # k
            BY <1>4, <1>6, <2>1, <3>3 DEF IInv, Owned
        <3> QED BY <3>1, <3>2, <3>3
    <2>2. ASSUME NEW x \in Txn, x \notin crossed', NEW t \in Req
          PROVE  Faithful(req[t], x)'
        <3>1. CASE x = k /\ q.links
            <4>1. ~Crosses(r) /\ linker'[k] = q.user
                BY <1>6, <2>2, <3>1
            <4> QED BY <1>0, <1>8, <3>1, <4>1 DEF Faithful, Crosses
        <3>2. CASE x # k \/ ~q.links
            <4>1. linker'[x] = linker[x] /\ x \notin crossed
                BY <1>6, <2>2, <3>2
            <4>2. Faithful(req[t], x)
                BY <2>2, <4>1 DEF IInv, Owned
            <4> QED BY <1>0, <1>8, <4>1, <4>2 DEF Faithful
        <3> QED BY <3>1, <3>2
    <2> QED BY <2>1, <2>2 DEF Owned
<1>14. HandledSound'
    <2>1. ASSUME NEW x \in Txn PROVE handled'[x] <= Len(reports[x[1]])
        BY <1>7 DEF IInv, HandledSound
    <2> QED BY <1>0, <2>1 DEF HandledSound, external
<1>15. InOrder'
    <2>1. ASSUME NEW x \in Txn, Google(x[1]), x \notin overtaken'
          PROVE  /\ subs'[x] # None => last'[x] = handled'[x]
                 /\ \A t \in Req : req'[t] # None /\ req'[t].sub.txn = x =>
                       handled'[x] <= req'[t].version
        <3>1. CASE x = k
            BY <1>5, <1>7, <1>8, <2>1, <3>1
        <3>2. CASE x # k
            BY <1>4, <1>5, <1>7, <1>8, <2>1, <3>2 DEF IInv, InOrder
        <3> QED BY <3>1, <3>2
    <2> QED BY <1>0, <2>1 DEF InOrder, Google, external
<1> QED BY <1>9, <1>10, <1>11, <1>12, <1>13, <1>14, <1>15 DEF IInv

LEMMA DeleteAccountKeeps ==
    ASSUME IInv, NEW a \in Account, DeleteAccount(a)
    PROVE  IInv'
<1> USE DEF DeleteAccount
<1>0. /\ UNCHANGED external /\ UNCHANGED <<req, last, handled, overtaken, linkers, crossed, unreported>>
      /\ live' = live \ {a}
    OBVIOUS
<1>1. /\ subs' \in [Txn -> Row \cup {None}]
      /\ \A k \in Txn : subs'[k] = IF subs[k] # None /\ subs[k].user = a THEN None ELSE subs[k]
    BY DEF IInv, TypeOK
<1>2. /\ linker' \in [Txn -> Account \cup {None}]
      /\ \A k \in Txn : linker'[k] = IF linker[k] = a THEN None ELSE linker[k]
    BY DEF IInv, TypeOK
<1>3. TypeOK'
    BY <1>0, <1>1, <1>2 DEF IInv, TypeOK, external
<1>4. Later /\ ReportsSound'
    BY <1>0, Unmoved
<1>5. RequestsSound'
    <2>1. ASSUME NEW t \in Req, req'[t] # None PROVE RequestSound(req[t])'
        <3>1. PICK x : x = req[t]
            OBVIOUS
        <3>2. req'[t] = x /\ RequestSound(x)
            BY <1>0, <2>1, <3>1 DEF IInv, RequestsSound
        <3>3. RequestSound(x)'
            BY <1>3, <1>4, <3>2, RequestStays
        <3> QED BY <3>2, <3>3 DEF RequestSound, Told, Tells, Dated, Google
    <2> QED BY <2>1 DEF RequestsSound
<1>6. RowsSound'
    <2>1. ASSUME NEW k \in Txn, subs'[k] # None
          PROVE  subs'[k].user \in linkers'[k] \cap live' /\ Told(k[1], subs[k], last[k])'
        <3>1. subs'[k] = subs[k] /\ subs[k] # None /\ subs[k].user # a
            BY <1>1, <2>1
        <3>2. subs[k].user \in live'
            BY <1>0, <3>1 DEF IInv, RowsSound
        <3> QED BY <1>0, <1>3, <1>4, <3>1, <3>2, RowStays
    <2> QED BY <2>1 DEF RowsSound
<1>7. Owned'
    <2>1. ASSUME NEW k \in Txn, k \notin crossed
          PROVE  linker'[k] = IF subs'[k] = None THEN None ELSE subs'[k].user
        <3>1. linker[k] = IF subs[k] = None THEN None ELSE subs[k].user
            BY <2>1 DEF IInv, Owned
        <3>2. None # a
            BY BillingAssumption
        <3> QED BY <1>1, <1>2, <3>1, <3>2
    <2>2. ASSUME NEW k \in Txn, k \notin crossed, NEW t \in Req
          PROVE  Faithful(req[t], k)'
        <3>1. Faithful(req[t], k)
            BY <2>2 DEF IInv, Owned
        <3> QED BY <1>0, <1>2, <3>1 DEF Faithful
    <2> QED BY <1>0, <2>1, <2>2 DEF Owned
<1>8. HandledSound' /\ InOrder'
    BY <1>0, <1>1 DEF IInv, HandledSound, InOrder, Google, external
<1> QED BY <1>3, <1>4, <1>5, <1>6, <1>7, <1>8 DEF IInv

-----------------------------------------------------------------------------
(* The invariant *)

LEMMA InitIInv == Init => IInv
<1> SUFFICES ASSUME Init PROVE IInv
    OBVIOUS
<1> USE BillingAssumption DEF Init
<1>1. \A p \in Purchase : reports[p] = <<>> /\ Len(reports[p]) = 0
    OBVIOUS
<1>2. TypeOK
    BY <1>1 DEF TypeOK
<1>3. ReportsSound
    BY <1>1 DEF ReportsSound
<1>4. RequestsSound /\ RowsSound /\ Owned
    BY DEF RequestsSound, RowsSound, Owned, Faithful
<1>5. HandledSound /\ InOrder
    BY <1>1 DEF HandledSound, InOrder, Txn
<1> QED BY <1>2, <1>3, <1>4, <1>5 DEF IInv

LEMMA NextKeeps == IInv /\ [Next]_vars => IInv'
<1> SUFFICES ASSUME IInv, [Next]_vars PROVE IInv'
    OBVIOUS
<1>1. CASE TimePasses
    BY <1>1, TimePassesKeeps
<1>2. ASSUME NEW p \in Purchase, Buy(p) \/ Reserve(p) PROVE IInv'
    BY <1>2, BuyKeeps
<1>3. ASSUME NEW p \in Purchase, Renew(p) PROVE IInv'
    BY <1>3, RenewKeeps
<1>4. ASSUME NEW p \in Purchase, EnterGrace(p) \/ Hold(p) \/ RunOut(p) \/ Revoke(p) PROVE IInv'
    BY <1>4, RestateKeeps DEF EnterGrace, Hold, RunOut, Revoke, Running
<1>5. ASSUME NEW r \in Req, NEW p \in Purchase, NEW payload \in Payloads(p), Notify(r, p, payload)
      PROVE  IInv'
    BY <1>5, BeginKeeps DEF Notify
<1>6. ASSUME NEW r \in Req, NEW p \in Purchase, NEW payload \in Payloads(p), NEW a \in Account,
             Link(r, a, p, payload)
      PROVE  IInv'
    <2>1. a # None
        BY BillingAssumption
    <2> QED BY <1>6, <2>1, BeginKeeps DEF Link
<1>7. ASSUME NEW r \in Req, FindOwner(r) PROVE IInv'
    BY <1>7, FindOwnerKeeps
<1>8. ASSUME NEW r \in Req, Upsert(r) PROVE IInv'
    BY <1>8, UpsertKeeps
<1>9. ASSUME NEW r \in Req, UpsertRefused(r) \/ Die(r) PROVE IInv'
    BY <1>9, OverKeeps DEF UpsertRefused, Die
<1>10. ASSUME NEW a \in Account, DeleteAccount(a) PROVE IInv'
    BY <1>10, DeleteAccountKeeps
<1>11. CASE UNCHANGED vars
    <2>1. TypeOK'
        BY <1>11 DEF vars, external, history, IInv, TypeOK
    <2>2. Later /\ ReportsSound'
        BY <1>11, Unmoved DEF vars, history
    <2> QED BY <1>11, <2>1, <2>2, OutsideKeeps DEF vars
<1> QED BY <1>1, <1>2, <1>3, <1>4, <1>5, <1>6, <1>7, <1>8, <1>9, <1>10, <1>11 DEF Next

\* What rows and requests in flight were read from holds of every reachable state
\* (internal/modules/billing).
THEOREM Inductive == Spec => []IInv
BY InitIInv, NextKeeps, PTL DEF Spec

-----------------------------------------------------------------------------
(* Properties *)

\* A subscription is of an existing account that linked it, and of the one that linked
\* it last unless a notification had read the owner before that link.
THEOREM OwnerCorrect == Spec => []OwnerIsLinker
<1>1. IInv => OwnerIsLinker
    BY DEF IInv, Owned, RowsSound, OwnerIsLinker
<1> QED BY <1>1, Inductive, PTL

\* What a row that says what a report says grants
LEMMA EntitledAsTold ==
    ASSUME TypeOK, NEW row, NEW report \in Report, Tells(row, report)
    PROVE  Entitles(row) <=> Covers(report)
<1>1. /\ now \in Nat /\ report.until \in Nat
      /\ report.state \in {"active", "other", "grace", "expired", "revoked"}
    BY BillingAssumption DEF TypeOK, Report
<1>2. CASE report.state = "grace"
    BY <1>1, <1>2 DEF Tells, Entitles, Covers
<1>3. CASE report.state \in {"expired", "revoked"}
    BY <1>1, <1>3 DEF Tells, Entitles, Covers
<1>4. CASE report.state \in {"active", "other"}
    BY <1>1, <1>4 DEF Tells, Entitles, Covers
<1> QED BY <1>1, <1>2, <1>3, <1>4

\* A row entitles exactly while the report that was handled last says so, whichever
\* that was; with Google it is the newest one, unless two readings crossed.
THEOREM RowsCorrect == Spec => []RowsAsReported
<1>1. ASSUME IInv PROVE RowsAsReported
    <2>1. ASSUME NEW k \in Txn, subs[k] # None, last[k] # 0, Dated(k[1], reports[k[1]][last[k]])
          PROVE  Entitles(subs[k]) <=> Covers(reports[k[1]][last[k]])
        <3>1. Told(k[1], subs[k], last[k]) /\ k[1] \in Purchase /\ last[k] \in 0 .. Changes
            BY <1>1, <2>1 DEF IInv, RowsSound, TypeOK, Txn
        <3>2. Tells(subs[k], reports[k[1]][last[k]]) /\ last[k] <= Len(reports[k[1]])
            BY <2>1, <3>1 DEF Told
        <3>3. last[k] \in 1 .. Len(reports[k[1]])
            BY <1>1, <2>1, <3>1, <3>2, Typed DEF IInv
        <3>4. reports[k[1]][last[k]] \in Report /\ TypeOK
            BY <1>1, <3>1, <3>3 DEF IInv, TypeOK
        <3> QED BY <3>2, <3>4, EntitledAsTold
    <2> QED BY <1>1, <2>1 DEF IInv, InOrder, RowsAsReported
<1> QED BY <1>1, Inductive, PTL

\* Nobody is Pro in a period that no report names, in whatever order any number of
\* them arrive, but for readings without an end and payloads Apple never signed.
THEOREM PeriodsCorrect == Spec => []ProAccounted
<1>1. ASSUME IInv, NEW a \in Account, IsPro(a)
      PROVE  \E p \in Purchase :
                \/ unreported[p] > now
                \/ \E v \in 1 .. Len(reports[p]) : Dated(p, reports[p][v]) /\ Covers(reports[p][v])
    <2>1. PICK k \in Txn : subs[k] # None /\ Entitles(subs[k])
        BY <1>1 DEF IsPro
    <2>2. PICK p \in Purchase : p = k[1]
        BY DEF Txn
    <2>3. PICK v \in 0 .. Changes : v = last[k]
        BY <1>1 DEF IInv, TypeOK
    <2>4. Told(p, subs[k], v)
        BY <1>1, <2>1, <2>2, <2>3 DEF IInv, RowsSound
    <2>5. now \in Nat /\ unreported[p] \in Nat /\ Len(reports[p]) \in Nat /\ Changes \in Nat
        BY <1>1, Typed DEF IInv
    <2>6. subs[k].until \in Nat /\ subs[k].grace \in Nat
        BY <1>1, <2>1 DEF IInv, TypeOK, Row
    <2>7. CASE subs[k].until <= unreported[p] /\ subs[k].grace <= unreported[p]
        BY <2>1, <2>5, <2>6, <2>7 DEF Entitles
    <2>8. CASE v # 0 /\ Dated(p, reports[p][v])
        <3>1. v \in 1 .. Len(reports[p]) /\ Tells(subs[k], reports[p][v])
            BY <2>4, <2>5, <2>8 DEF Told
        <3>2. reports[p][v] \in Report /\ TypeOK
            BY <1>1, <3>1 DEF IInv, TypeOK
        <3>3. Covers(reports[p][v])
            BY <2>1, <3>1, <3>2, EntitledAsTold
        <3> QED BY <2>8, <3>1, <3>3
    <2> QED BY <2>4, <2>7, <2>8 DEF Told
<1>2. IInv => ProAccounted
    BY <1>1 DEF ProAccounted
<1> QED BY <1>2, Inductive, PTL

=============================================================================
