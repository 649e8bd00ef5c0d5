------------------------------- MODULE History -------------------------------
(***************************************************************************)
(* internal/modules/score: finished matches uploaded by the app, the       *)
(* quota of free accounts, and the ratings that a match moves.             *)
(*                                                                         *)
(* CreateMatch asks the gate, inserts the match and rates it in a          *)
(* transaction of its own, which locks the two rating rows one after the   *)
(* other.  A request runs one of these per step, waits where Postgres      *)
(* makes it wait, and may die anywhere; its transaction is rolled back.    *)
(* The numbers of a rating are abstract: the matches it counts are kept.   *)
(***************************************************************************)
EXTENDS Records

CONSTANTS
    Account,   \* ids of users, numbers
    Pro,       \* the accounts with a subscription
    Card,      \* bound: the matches that are played, as the app uploads them
    MaxMatch,  \* bound: the number of uploads that reach the table
    FreeLimit, \* FreeMatchLimit: 10 in the code
    Req        \* bound: uploads in flight at a time

ASSUME HistoryAssumption ==
    /\ Account \subseteq Nat /\ Pro \subseteq Account
    /\ None \notin Account /\ None \notin Sport
    /\ MaxMatch \in Nat /\ FreeLimit \in Nat \ {0} /\ FormLimit \in Nat /\ RivalsLimit \in Nat
    /\ IsFiniteSet(Req) /\ IsFiniteSet(Account)

VARIABLES
    live,    \* table users: the accounts that exist
    matches, \* table matches, in the order of the inserts
    counted, \* table user_ratings: matches_counted of an account in a sport
    req,     \* what each upload in flight does next, and its locals
    rated,   \* history: the ratings that were committed
    lost     \* history: the rows whose upload ended before it was rated

vars == <<live, matches, counted, req, rated, lost>>

Slot == Account \cup {None}

MatchRow == [sport : Sport, a : Slot, a2 : Slot, b : Slot, b2 : Slot, by : Account,
             partners : BOOLEAN, setsA : Nat, setsB : Nat, winner : {"A", "B"}]

Key == Account \X Sport

\* first and second: the rating rows in the order they are locked; n and k: the
\* counts read from them
Request == [at : {"insert", "lock", "lock2", "save"}, card : MatchRow, id : 0 .. MaxMatch,
            first : Account \cup {None}, second : Account \cup {None},
            n : Nat, k : Nat]

\* An account is on one slot at most (normalizePartners); a match and an upload
\* are something.
ASSUME CardAssumption ==
    /\ \A card \in Card : card \in MatchRow
    /\ \A card \in Card, p, q \in {"a", "a2", "b", "b2"} :
          p # q /\ card[p] = card[q] => card[p] = None
    /\ None \notin MatchRow \cup Request

TypeOK ==
    /\ live \subseteq Account
    /\ Len(matches) <= MaxMatch
    /\ \A i \in DOMAIN matches : matches[i] \in MatchRow \cup {None}
    /\ counted \in [Key -> Nat]
    /\ req \in [Req -> Request \cup {None}]
    /\ rated \subseteq [id : 1 .. MaxMatch, sport : Sport, players : SUBSET Account]
    /\ lost \subseteq DOMAIN matches

Init ==
    /\ live = Account
    /\ matches = <<>>
    /\ counted = [x \in Key |-> 0]
    /\ req = [r \in Req |-> None]
    /\ rated = {}
    /\ lost = {}

Finish(r) == req' = [req EXCEPT ![r] = None]

\* An upload that ends here leaves its row unrated, if there is one.
Unrated(r) == lost' = lost \cup ({req[r].id} \ {0})

-----------------------------------------------------------------------------

\* Broken variant of WithinFreeQuota: one match more than the limit.
WithinFreeQuotaAndOne(u) == CountFinished(matches, u) <= FreeLimit

\* entitlement.WithinFreeQuota, without Pro
WithinFreeQuota(u) == CountFinished(matches, u) < FreeLimit

\* CreateMatch: the match is valid, and the gate lets it pass. A retry is another
\* upload of the same match.
Upload(r, card) ==
    /\ req[r] = None
    /\ card.by \in Pro \/ WithinFreeQuota(card.by)
    /\ req' = [req EXCEPT ![r] = [at |-> "insert", card |-> card, id |-> 0,
                                  first |-> None, second |-> None, n |-> 0, k |-> 0]]
    /\ UNCHANGED <<live, matches, counted, rated, lost>>

\* singlesEloPair: both sides are exactly one registered player, and no partner is
\* named, whose name stays when the account goes.
Rateable(m) == m.a # None /\ m.b # None /\ ~m.partners

\* Broken variant of LockOrder: the winner is locked first.
WinnerFirst(m) == IF m.winner = "A" THEN <<m.a, m.b>> ELSE <<m.b, m.a>>

\* The lower id is locked first.
LockOrder(m) == IF m.a < m.b THEN <<m.a, m.b>> ELSE <<m.b, m.a>>

\* The foreign keys
Registered(card) == (Players(card) \cup {card.by}) \subseteq live

\* insert, and the begin of rateFinished
Insert(r) ==
    LET q == req[r] IN
    /\ q # None /\ q.at = "insert"
    /\ Len(matches) < MaxMatch
    /\ Registered(q.card)
    /\ matches' = Append(matches, q.card)
    /\ IF Rateable(q.card)
       THEN req' = [req EXCEPT ![r] = [q EXCEPT !.at = "lock", !.id = Len(matches'),
                                                !.first = LockOrder(q.card)[1],
                                                !.second = LockOrder(q.card)[2]]]
       ELSE Finish(r)
    /\ UNCHANGED <<live, counted, rated, lost>>

InsertRefused(r) ==
    /\ req[r] # None /\ req[r].at = "insert"
    /\ ~Registered(req[r].card)
    /\ Finish(r)
    /\ UNCHANGED <<live, matches, counted, rated, lost>>

\* The rows that a transaction has locked, or inserted and not yet committed
Locks(r) ==
    IF req[r] = None THEN {}
    ELSE LET s == req[r].card.sport IN
         CASE req[r].at = "lock2" -> {<<req[r].first, s>>}
           [] req[r].at = "save"  -> {<<req[r].first, s>>, <<req[r].second, s>>}
           [] OTHER               -> {}

\* Broken variant of Unlocked: SELECT without FOR UPDATE.
UnlockedAlways(r, x) == TRUE

\* No other transaction holds the row.
Unlocked(r, x) == \A q \in Req \ {r} : x \notin Locks(q)

\* lockRating of the first row: seeded if it is not there, locked and read
LockFirst(r) ==
    LET q == req[r]
        x == <<q.first, q.card.sport>>
    IN  /\ q # None /\ q.at = "lock"
        /\ q.first \in live
        /\ Unlocked(r, x)
        /\ req' = [req EXCEPT ![r] = [q EXCEPT !.at = "lock2", !.n = counted[x]]]
        /\ UNCHANGED <<live, matches, counted, rated, lost>>

\* lockRating of the second row
LockSecond(r) ==
    LET q == req[r]
        x == <<q.second, q.card.sport>>
    IN  /\ q # None /\ q.at = "lock2"
        /\ q.second \in live
        /\ Unlocked(r, x)
        /\ req' = [req EXCEPT ![r] = [q EXCEPT !.at = "save", !.k = counted[x]]]
        /\ UNCHANGED <<live, matches, counted, rated, lost>>

\* A row of a deleted account cannot be seeded.
LockRefused(r) ==
    LET q == req[r] IN
    /\ q # None
    /\ \/ q.at = "lock" /\ q.first \notin live
       \/ q.at = "lock2" /\ q.second \notin live
    /\ Finish(r)
    /\ Unrated(r)
    /\ UNCHANGED <<live, matches, counted, rated>>

\* saveRating twice and the commit
Save(r) ==
    LET q == req[r]
        s == q.card.sport
    IN  /\ q # None /\ q.at = "save"
        /\ counted' = [counted EXCEPT ![<<q.first, s>>] = q.n + 1, ![<<q.second, s>>] = q.k + 1]
        /\ rated' = rated \cup {[id |-> q.id, sport |-> s, players |-> {q.first, q.second}]}
        /\ Finish(r)
        /\ UNCHANGED <<live, matches, lost>>

Die(r) ==
    /\ req[r] # None
    /\ Finish(r)
    /\ Unrated(r)
    /\ UNCHANGED <<live, matches, counted, rated>>

\* DeleteMatch, by its creator: the ratings stay.
DeleteMatch(i) ==
    /\ matches[i] # None
    /\ matches' = [matches EXCEPT ![i] = None]
    /\ UNCHANGED <<live, counted, req, rated, lost>>

\* The rows that refer to a deleted account: uploads go, players become guests,
\* ratings go once nobody has them locked.
Forget(m, u) ==
    IF m = None \/ m.by = u THEN None
    ELSE [m EXCEPT !.a = IF m.a = u THEN None ELSE m.a, !.a2 = IF m.a2 = u THEN None ELSE m.a2,
                   !.b = IF m.b = u THEN None ELSE m.b, !.b2 = IF m.b2 = u THEN None ELSE m.b2]

DeleteAccount(u) ==
    /\ u \in live
    /\ \A r \in Req : \A x \in Locks(r) : x[1] # u
    /\ live' = live \ {u}
    /\ matches' = [i \in DOMAIN matches |-> Forget(matches[i], u)]
    /\ counted' = [x \in Key |-> IF x[1] = u THEN 0 ELSE counted[x]]
    /\ UNCHANGED <<req, rated, lost>>

Next ==
    \/ \E r \in Req :
          \/ \E card \in Card : Upload(r, card)
          \/ Insert(r) \/ InsertRefused(r)
          \/ LockFirst(r) \/ LockSecond(r) \/ LockRefused(r) \/ Save(r) \/ Die(r)
    \/ \E i \in DOMAIN matches : DeleteMatch(i)
    \/ \E u \in Account : DeleteAccount(u)

Spec == Init /\ [][Next]_vars

-----------------------------------------------------------------------------
(* Properties *)

\* However uploads of the same players overlap and die: a rating counts exactly
\* the matches that were rated into it, each match is rated once at most, and a
\* singles match that is not rated belongs to an upload in flight or one that died.
RatedExactly ==
    /\ TypeOK
    /\ \A u \in live, s \in Sport :
          counted[<<u, s>>] = Cardinality({x \in rated : x.sport = s /\ u \in x.players})
    /\ \A x, y \in rated : x.id = y.id => x = y
    /\ \A i \in Finished(matches) \ lost : Rateable(matches[i]) =>
          \/ \E x \in rated : x.id = i
          \/ \E r \in Req : req[r] # None /\ req[r].id = i

\* The transactions that hold the row it waits for
WaitsFor(r) ==
    CASE req[r].at = "lock"  -> {q \in Req \ {r} : <<req[r].first, req[r].card.sport>> \in Locks(q)}
      [] req[r].at = "lock2" -> {q \in Req \ {r} : <<req[r].second, req[r].card.sport>> \in Locks(q)}
      [] OTHER               -> {}

\* "Lock the lower id first so two concurrent matches cannot deadlock": among the
\* transactions that rate, one can always go on.
SomebodyGoesOn ==
    LET rating == {r \in Req : req[r] # None /\ req[r].at # "insert"} IN
    rating # {} => \E r \in rating : WaitsFor(r) = {}

\* The quota is counted before the match is inserted: an account that uploads
\* without Pro exceeds it by less than the uploads in flight at a time.
QuotaBounded ==
    \A u \in Account \ Pro :
        Cardinality({i \in Finished(matches) : matches[i].by = u})
            <= FreeLimit + Cardinality(Req) - 1

\* Statistics, head-to-head and ladders tell the same of every table of matches
\* that uploads, deletions and deleted accounts leave behind. (Each such table is
\* also there while no upload is in flight.)
ViewsAgree ==
    (\A r \in Req : req[r] = None) =>
    /\ H2HAgrees(matches, Account)
    /\ SportsAddUp(matches, Account)
    /\ LadderAgrees(matches, Account)

=============================================================================
