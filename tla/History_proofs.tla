--------------------------- MODULE History_proofs ---------------------------
(***************************************************************************)
(* Proofs about History, for any accounts, matches and uploads in flight,  *)
(* and any limit.                                                          *)
(*                                                                         *)
(* RatedExactly needs to know what an upload in flight holds: the counts   *)
(* that it has read are still those of the table, no other transaction has *)
(* its rows locked, and its match is its own and not rated.  That the ids  *)
(* of its two rows are in order is what keeps somebody going.  The quota   *)
(* is kept together with the uploads that have passed the gate and are not *)
(* in the table yet.                                                       *)
(*                                                                         *)
(* ViewsAgree is about what is read off the table: all it needs of its     *)
(* history is that no account is ever on both sides of a match.  The rest  *)
(* is counting: a sum over finitely many matches is the sum of the sums of *)
(* its parts, and a sorted list has the elements of its set.               *)
(***************************************************************************)
EXTENDS History, FiniteSetTheorems, WellFoundedInduction, TLAPS

MatchesSound == matches \in Seq(MatchRow \cup {None})

RatedSound ==
    /\ IsFiniteSet(rated)
    /\ \A x \in rated : x.id \in DOMAIN matches

\* The upload that rates a match is the only one that does, and the match is
\* not rated.
Rating(r) ==
    LET q == req[r] IN
    /\ q.id \in DOMAIN matches
    /\ \A x \in rated : x.id # q.id
    /\ \A p \in Req : req[p] # None /\ req[p].id = q.id => p = r
    /\ q.first \in Account /\ q.second \in Account
    /\ q.first < q.second

\* The rows it has locked are as it read them.
ReadFirst(r) ==
    /\ req[r].first \in live
    /\ req[r].n = counted[<<req[r].first, req[r].card.sport>>]

ReadSecond(r) ==
    /\ req[r].second \in live
    /\ req[r].k = counted[<<req[r].second, req[r].card.sport>>]

RequestsSound ==
    \A r \in Req : req[r] # None =>
        /\ req[r] \in Request /\ req[r].card \in Card
        /\ req[r].at = "insert" => req[r].id = 0
        /\ req[r].at # "insert" => Rating(r)
        /\ req[r].at \in {"lock2", "save"} => ReadFirst(r)
        /\ req[r].at = "save" => ReadSecond(r)

LocksExclusive == \A r, p \in Req : r # p => Locks(r) \cap Locks(p) = {}

Uploaded(u) == {i \in Finished(matches) : matches[i].by = u}

\* Uploads that have passed the gate
Pending(u) == {r \in Req : req[r] # None /\ req[r].at = "insert" /\ req[r].card.by = u}

QuotaKept ==
    \A u \in Account \ Pro :
        Cardinality(Uploaded(u)) + Cardinality(Pending(u)) <= FreeLimit + Cardinality(Req) - 1

IInv ==
    /\ RatedExactly
    /\ MatchesSound
    /\ RatedSound
    /\ RequestsSound
    /\ LocksExclusive
    /\ QuotaKept

-----------------------------------------------------------------------------
(* Locks *)

\* A transaction has one row locked, then two.
LEMMA LocksAre ==
    ASSUME NEW r, req[r] # None
    PROVE  Locks(r) = IF req[r].at = "lock2" THEN {<<req[r].first, req[r].card.sport>>}
                      ELSE IF req[r].at = "save"
                           THEN {<<req[r].first, req[r].card.sport>>,
                                 <<req[r].second, req[r].card.sport>>}
                           ELSE {}
BY DEF Locks

\* Of finitely many transactions that wait for their second row one waits for a
\* row that none of the others has an id above.
LEMMA HighestSecond ==
    ASSUME NEW T, T \subseteq Req, T # {},
           \A r \in T : req[r].second \in Nat
    PROVE  \E r \in T : \A p \in T : req[p].second <= req[r].second
<1> DEFINE Above(r) == {p \in T : req[p].second > req[r].second}
           All == {Above(r) : r \in T}
<1>1. IsFiniteSet(Req)
    BY HistoryAssumption
<1>2. IsFiniteSet(T)
    BY <1>1, FS_Subset
<1>3. All \subseteq FiniteSubsetsOf(T)
    <2>1. \A r \in T : Above(r) \subseteq T
        OBVIOUS
    <2>2. \A S \in SUBSET T : IsFiniteSet(S)
        BY <1>2, FS_Subset
    <2> QED BY <2>1, <2>2 DEF FiniteSubsetsOf
<1>4. All # {}
    OBVIOUS
<1>5. IsWellFoundedOn(StrictSubsetOrdering(T), FiniteSubsetsOf(T))
    BY FS_StrictSubsetOrderingWellFounded
<1> HIDE DEF All
<1>6. PICK A \in All : \A B \in All : <<B, A>> \notin StrictSubsetOrdering(T)
    BY <1>3, <1>4, <1>5, WFMin
<1> USE DEF All
<1>7. PICK r \in T : A = Above(r)
    OBVIOUS
<1>8. ASSUME NEW p \in T, ~(req[p].second <= req[r].second)
      PROVE  FALSE
    <2>1. req[p].second > req[r].second
        BY <1>8
    <2>2. Above(p) \subseteq Above(r) /\ p \in Above(r) /\ p \notin Above(p)
        BY <2>1
    <2>3. <<Above(p), Above(r)>> \in StrictSubsetOrdering(T)
        BY <2>2 DEF StrictSubsetOrdering
    <2> QED BY <1>6, <1>7, <2>3
<1> QED BY <1>7, <1>8

\* Rows are locked in the order of their ids: of the transactions that rate one can
\* always go on.
LEMMA SomebodyCan ==
    ASSUME IInv
    PROVE  SomebodyGoesOn
<1> DEFINE rating == {r \in Req : req[r] # None /\ req[r].at # "insert"}
<1>1. \A r \in rating : /\ req[r].at \in {"lock", "lock2", "save"}
                        /\ req[r].first \in Nat /\ req[r].second \in Nat
                        /\ req[r].first < req[r].second
    BY HistoryAssumption DEF IInv, RequestsSound, Rating, Request
<1>2. SUFFICES ASSUME rating # {}
               PROVE  \E r \in rating : WaitsFor(r) = {}
    BY DEF SomebodyGoesOn
<1>3. CASE \E r \in rating : req[r].at = "save"
    BY <1>3 DEF WaitsFor
<1>4. CASE ~(\E r \in rating : req[r].at = "save") /\ (\E r \in rating : req[r].at = "lock2")
    <2> DEFINE T == {r \in rating : req[r].at = "lock2"}
    <2>1. T \subseteq Req /\ T # {} /\ \A r \in T : req[r].second \in Nat
        BY <1>1, <1>4
    <2> HIDE DEF T
    <2>2. PICK r \in T : \A p \in T : req[p].second <= req[r].second
        BY <2>1, HighestSecond
    <2> USE DEF T
    <2>3. ASSUME NEW p \in Req \ {r}, <<req[r].second, req[r].card.sport>> \in Locks(p)
          PROVE  FALSE
        <3>1. req[p] # None
            BY <2>3 DEF Locks
        <3>2. p \in T /\ req[p].first = req[r].second
            BY <1>4, <2>3, <3>1, LocksAre
        <3> QED BY <1>1, <2>2, <3>2
    <2>4. WaitsFor(r) = {}
        BY <2>3 DEF WaitsFor
    <2> QED BY <2>4
<1>5. CASE \A r \in rating : req[r].at = "lock"
    <2>1. PICK r \in rating : TRUE
        BY <1>2
    <2>2. \A p \in Req : Locks(p) = {}
        <3>1. \A p \in Req : req[p] # None => req[p].at \in {"insert", "lock"}
            BY <1>5
        <3> QED BY <3>1, LocksAre DEF Locks
    <2>3. WaitsFor(r) = {}
        BY <1>5, <2>2 DEF WaitsFor
    <2> QED BY <2>3
<1> QED BY <1>1, <1>3, <1>4, <1>5

\* The gate counts at least the matches that the account uploaded.
LEMMA UploadedFinite ==
    ASSUME IInv, NEW u
    PROVE  /\ IsFiniteSet(Uploaded(u)) /\ Cardinality(Uploaded(u)) \in Nat
           /\ Cardinality(Uploaded(u)) <= CountFinished(matches, u)
           /\ CountFinished(matches, u) \in Nat
<1> DEFINE C == {i \in Finished(matches) : u \in {matches[i].by, matches[i].a, matches[i].b}}
<1>1. IsFiniteSet(DOMAIN matches)
    BY FS_Interval DEF IInv, MatchesSound
<1>2. C \subseteq DOMAIN matches /\ Uploaded(u) \subseteq C
    BY DEF Finished, Uploaded
<1>3. IsFiniteSet(C)
    BY <1>1, <1>2, FS_Subset
<1>4. IsFiniteSet(Uploaded(u)) /\ Cardinality(Uploaded(u)) <= Cardinality(C)
    BY <1>2, <1>3, FS_Subset
<1>5. Cardinality(C) \in Nat /\ Cardinality(Uploaded(u)) \in Nat
    BY <1>3, <1>4, FS_CardinalityType
<1> QED BY <1>4, <1>5 DEF CountFinished

LEMMA PendingFinite ==
    ASSUME NEW u
    PROVE  /\ IsFiniteSet(Pending(u)) /\ Cardinality(Pending(u)) \in Nat
           /\ Cardinality(Req) \in Nat
           /\ \A r \in Req \ Pending(u) : Cardinality(Pending(u)) <= Cardinality(Req) - 1
<1>1. IsFiniteSet(Req) /\ Cardinality(Req) \in Nat
    BY HistoryAssumption, FS_CardinalityType
<1>2. IsFiniteSet(Pending(u)) /\ Cardinality(Pending(u)) \in Nat
    BY <1>1, FS_Subset, FS_CardinalityType DEF Pending
<1>3. ASSUME NEW r \in Req \ Pending(u)
      PROVE  Cardinality(Pending(u)) <= Cardinality(Req) - 1
    <2>1. Pending(u) \subseteq Req \ {r}
        BY DEF Pending
    <2>2. IsFiniteSet(Req \ {r}) /\ Cardinality(Req \ {r}) = Cardinality(Req) - 1
        BY <1>1, FS_RemoveElement
    <2> QED BY <2>1, <2>2, FS_Subset
<1> QED BY <1>1, <1>2, <1>3

\* What the gate lets pass is what the property says.
LEMMA QuotaIs ==
    ASSUME IInv
    PROVE  QuotaBounded
<1>1. ASSUME NEW u \in Account \ Pro
      PROVE  Cardinality({i \in Finished(matches) : matches[i].by = u})
                <= FreeLimit + Cardinality(Req) - 1
    <2>1. Cardinality(Uploaded(u)) \in Nat /\ Cardinality(Pending(u)) \in Nat
          /\ Cardinality(Req) \in Nat /\ FreeLimit \in Nat
        BY UploadedFinite, PendingFinite, HistoryAssumption
    <2>2. Cardinality(Uploaded(u)) + Cardinality(Pending(u)) <= FreeLimit + Cardinality(Req) - 1
        BY DEF IInv, QuotaKept
    <2>3. Cardinality(Uploaded(u)) <= FreeLimit + Cardinality(Req) - 1
        BY <2>1, <2>2
    <2> QED BY <2>3 DEF Uploaded
<1> QED BY <1>1 DEF QuotaBounded

-----------------------------------------------------------------------------
(* Steps *)

\* Where neither the matches of an account nor its uploads past the gate become
\* more, the quota is kept.
LEMMA QuotaFrame ==
    ASSUME IInv,
           \A u \in Account : Uploaded(u)' \subseteq Uploaded(u),
           \A u \in Account : Pending(u)' \subseteq Pending(u)
    PROVE  QuotaKept'
<1>1. ASSUME NEW u \in Account \ Pro
      PROVE  Cardinality(Uploaded(u)') + Cardinality(Pending(u)')
                <= FreeLimit + Cardinality(Req) - 1
    <2>1. /\ IsFiniteSet(Uploaded(u)) /\ Cardinality(Uploaded(u)) \in Nat
          /\ IsFiniteSet(Pending(u)) /\ Cardinality(Pending(u)) \in Nat
          /\ Cardinality(Req) \in Nat /\ FreeLimit \in Nat
        BY UploadedFinite, PendingFinite, HistoryAssumption
    <2>2. /\ IsFiniteSet(Uploaded(u)') /\ Cardinality(Uploaded(u)') <= Cardinality(Uploaded(u))
          /\ IsFiniteSet(Pending(u)') /\ Cardinality(Pending(u)') <= Cardinality(Pending(u))
        BY <2>1, FS_Subset
    <2>3. Cardinality(Uploaded(u)') \in Nat /\ Cardinality(Pending(u)') \in Nat
        BY <2>2, FS_CardinalityType
    <2>4. Cardinality(Uploaded(u)) + Cardinality(Pending(u)) <= FreeLimit + Cardinality(Req) - 1
        BY DEF IInv, QuotaKept
    <2> QED BY <2>1, <2>2, <2>3, <2>4
<1> QED BY <1>1 DEF QuotaKept

LEMMA InitIInv ==
    ASSUME Init
    PROVE  IInv
<1> USE DEF Init
<1>1. FreeLimit \in Nat \ {0} /\ MaxMatch \in Nat
    BY HistoryAssumption
<1>2. IsFiniteSet({}) /\ Cardinality({}) = 0
    BY FS_EmptySet
<1>3. TypeOK
    BY <1>1 DEF TypeOK
<1>4. \A u \in live, s \in Sport :
          counted[<<u, s>>] = Cardinality({x \in rated : x.sport = s /\ u \in x.players})
    <2>1. ASSUME NEW u \in live, NEW s \in Sport
          PROVE  counted[<<u, s>>] = Cardinality({x \in rated : x.sport = s /\ u \in x.players})
        <3>1. {x \in rated : x.sport = s /\ u \in x.players} = {}
            OBVIOUS
        <3>2. counted[<<u, s>>] = 0
            BY DEF Key
        <3> QED BY <1>2, <3>1, <3>2
    <2> QED BY <2>1
<1>5. RatedExactly
    BY <1>3, <1>4 DEF RatedExactly, Finished
<1>6. MatchesSound /\ RatedSound /\ RequestsSound /\ LocksExclusive
    BY <1>2 DEF MatchesSound, RatedSound, RequestsSound, LocksExclusive, Locks
<1>7. QuotaKept
    <2>1. ASSUME NEW u \in Account
          PROVE  Cardinality(Uploaded(u)) + Cardinality(Pending(u))
                    <= FreeLimit + Cardinality(Req) - 1
        <3>1. Uploaded(u) = {} /\ Pending(u) = {}
            BY DEF Uploaded, Pending, Finished
        <3>2. Cardinality(Req) \in Nat
            BY PendingFinite
        <3>3. Cardinality(Uploaded(u)) = 0 /\ Cardinality(Pending(u)) = 0
            BY <1>2, <3>1
        <3> QED BY <1>1, <3>2, <3>3
    <2> QED BY <2>1 DEF QuotaKept
<1> QED BY <1>5, <1>6, <1>7 DEF IInv

\* The gate: an upload in flight is one of the others' places less.
LEMMA UploadKeeps ==
    ASSUME IInv, NEW r \in Req, NEW card \in Card, Upload(r, card)
    PROVE  IInv'
<1> DEFINE new == [at |-> "insert", card |-> card, id |-> 0,
                   first |-> None, second |-> None, n |-> 0, k |-> 0]
<1>1. /\ UNCHANGED <<live, matches, counted, rated, lost>>
      /\ req[r] = None /\ req' = [req EXCEPT ![r] = new]
      /\ card.by \in Pro \/ WithinFreeQuota(card.by)
    BY DEF Upload
<1>2. card \in MatchRow /\ MaxMatch \in Nat /\ FreeLimit \in Nat
    BY CardAssumption, HistoryAssumption
<1>3. new \in Request /\ new.at = "insert" /\ new.id = 0 /\ new.card = card
    BY <1>2 DEF Request
<1> HIDE DEF new
<1>4. new # None
    BY <1>3, CardAssumption
<1>5. req \in [Req -> Request \cup {None}]
    BY DEF IInv, RatedExactly, TypeOK
<1>6. req'[r] = new /\ \A p \in Req : p # r => req'[p] = req[p]
    BY <1>1, <1>5
<1>7. TypeOK'
    BY <1>1, <1>3, <1>5 DEF IInv, RatedExactly, TypeOK
<1>8. RatedExactly'
    BY <1>1, <1>6, <1>7 DEF IInv, RatedExactly, Finished, Rateable
<1>9. MatchesSound' /\ RatedSound'
    BY <1>1 DEF IInv, MatchesSound, RatedSound
<1>10. RequestsSound'
    <2>1. ASSUME NEW p \in Req, p # r, req[p] # None, req[p].at # "insert"
          PROVE  Rating(p)'
        <3>1. Rating(p) /\ req[p].id # 0
            BY <2>1 DEF IInv, RequestsSound, Rating, MatchesSound
        <3>2. \A x \in Req : req'[x] # None /\ req'[x].id = req[p].id => x = p
            BY <1>3, <1>6, <3>1 DEF Rating
        <3>3. req'[p] = req[p] /\ matches' = matches /\ rated' = rated
            BY <1>1, <1>6, <2>1
        <3> QED BY <3>1, <3>2, <3>3 DEF Rating
    <2> QED BY <1>1, <1>3, <1>6, <2>1 DEF IInv, RequestsSound, ReadFirst, ReadSecond
<1>11. LocksExclusive'
    <2>1. Locks(r)' = {}
        BY <1>3, <1>4, <1>6 DEF Locks
    <2>2. \A p \in Req : p # r => Locks(p)' = Locks(p)
        BY <1>6 DEF Locks
    <2> QED BY <2>1, <2>2 DEF IInv, LocksExclusive
<1>12. QuotaKept'
    <2>1. ASSUME NEW u \in Account \ Pro
          PROVE  Cardinality(Uploaded(u)') + Cardinality(Pending(u)')
                    <= FreeLimit + Cardinality(Req) - 1
        <3>1. Uploaded(u)' = Uploaded(u)
            BY <1>1 DEF Uploaded, Finished
        <3>2. CASE u # card.by
            <4>1. Pending(u)' = Pending(u)
                BY <1>1, <1>3, <1>6, <3>2 DEF Pending
            <4> QED BY <3>1, <4>1 DEF IInv, QuotaKept
        <3>3. CASE u = card.by
            <4>1. Pending(u)' = Pending(u) \cup {r} /\ r \notin Pending(u)
                BY <1>1, <1>3, <1>4, <1>6, <3>3 DEF Pending
            <4>2. /\ Cardinality(Uploaded(u)) \in Nat /\ CountFinished(matches, u) \in Nat
                  /\ Cardinality(Uploaded(u)) <= CountFinished(matches, u)
                BY UploadedFinite
            <4>3. /\ IsFiniteSet(Pending(u)) /\ Cardinality(Pending(u)) \in Nat
                  /\ Cardinality(Req) \in Nat
                  /\ Cardinality(Pending(u)) <= Cardinality(Req) - 1
                BY <4>1, PendingFinite
            <4>4. Cardinality(Pending(u)') = Cardinality(Pending(u)) + 1
                BY <4>1, <4>3, FS_AddElement
            <4>5. CountFinished(matches, u) < FreeLimit
                BY <1>1, <3>3 DEF WithinFreeQuota
            <4> QED BY <1>2, <3>1, <4>2, <4>3, <4>4, <4>5
        <3> QED BY <3>2, <3>3
    <2> QED BY <2>1 DEF QuotaKept
<1> QED BY <1>8, <1>9, <1>10, <1>11, <1>12 DEF IInv

\* An upload ends without having rated: its row, if there is one, is lost.
LEMMA EndKeeps ==
    ASSUME IInv, NEW r \in Req, req[r] # None, Finish(r), Unrated(r),
           UNCHANGED <<live, matches, counted, rated>>
    PROVE  IInv'
<1>1. req \in [Req -> Request \cup {None}]
    BY DEF IInv, RatedExactly, TypeOK
<1>2. req'[r] = None /\ \A p \in Req : p # r => req'[p] = req[p]
    BY <1>1 DEF Finish
<1>3. req[r].id = 0 \/ req[r].id \in DOMAIN matches
    BY DEF IInv, RequestsSound, Rating
<1>4. lost' = lost \cup ({req[r].id} \ {0})
    BY DEF Unrated
<1>5. TypeOK'
    BY <1>1, <1>3, <1>4 DEF IInv, RatedExactly, TypeOK, Finish
<1>6. RatedExactly'
    <2>1. ASSUME NEW i \in Finished(matches) \ lost', Rateable(matches[i])
          PROVE  (\E x \in rated : x.id = i) \/ (\E p \in Req : req'[p] # None /\ req'[p].id = i)
        <3>1. (\E x \in rated : x.id = i) \/ (\E p \in Req : req[p] # None /\ req[p].id = i)
            BY <1>4, <2>1 DEF IInv, RatedExactly
        <3>2. i # 0
            BY DEF IInv, MatchesSound, Finished
        <3>3. req[r].id # i
            BY <1>4, <3>2
        <3> QED BY <1>2, <3>1, <3>3
    <2> QED BY <1>5, <2>1 DEF IInv, RatedExactly, Finished, Rateable
<1>7. MatchesSound' /\ RatedSound'
    BY DEF IInv, MatchesSound, RatedSound
<1>8. RequestsSound'
    BY <1>2 DEF IInv, RequestsSound, Rating, ReadFirst, ReadSecond
<1>9. LocksExclusive'
    <2>1. Locks(r)' = {} /\ \A p \in Req : p # r => Locks(p)' = Locks(p)
        BY <1>2 DEF Locks
    <2> QED BY <2>1 DEF IInv, LocksExclusive
<1>10. QuotaKept'
    <2>1. \A u : Uploaded(u)' = Uploaded(u) /\ Pending(u)' \subseteq Pending(u)
        BY <1>2 DEF Uploaded, Pending, Finished
    <2> QED BY <2>1, QuotaFrame
<1> QED BY <1>6, <1>7, <1>8, <1>9, <1>10 DEF IInv

\* A match gets into the table, and the upload rates it or ends.
LEMMA InsertKeeps ==
    ASSUME IInv, NEW r \in Req, Insert(r)
    PROVE  IInv'
<1> DEFINE q == req[r]
           m == req[r].card
           new == [q EXCEPT !.at = "lock", !.id = Len(matches'),
                            !.first = LockOrder(m)[1], !.second = LockOrder(m)[2]]
           N == Len(matches) + 1
<1>1. /\ req[r] # None /\ req[r].at = "insert"
      /\ Len(matches) < MaxMatch /\ matches' = Append(matches, m)
      /\ IF Rateable(m) THEN req' = [req EXCEPT ![r] = new] ELSE Finish(r)
      /\ UNCHANGED <<live, counted, rated, lost>>
    BY DEF Insert
<1>2. req \in [Req -> Request \cup {None}]
    BY DEF IInv, RatedExactly, TypeOK
<1>3. q \in Request /\ q.id = 0 /\ m \in MatchRow /\ m \in Card
    BY <1>1, <1>2 DEF IInv, RequestsSound, Request
<1>4. /\ matches \in Seq(MatchRow \cup {None}) /\ matches' \in Seq(MatchRow \cup {None})
      /\ Len(matches') = N /\ N \in 1 .. MaxMatch /\ DOMAIN matches' = DOMAIN matches \cup {N}
      /\ N \notin DOMAIN matches /\ 0 \notin DOMAIN matches
      /\ matches'[N] = m /\ \A i \in DOMAIN matches : matches'[i] = matches[i]
      /\ m # None
    BY <1>1, <1>3, HistoryAssumption, CardAssumption DEF IInv, MatchesSound
<1>5. Rateable(m) =>
          /\ new \in Request /\ new.at = "lock" /\ new.id = N /\ new.card = m
          /\ new.first \in Account /\ new.second \in Account /\ new.first < new.second
    <2>1. ASSUME Rateable(m)
          PROVE  /\ m.a \in Account /\ m.b \in Account
                 /\ m.a \in Nat /\ m.b \in Nat
                 /\ (m.a < m.b \/ m.b < m.a)
        <3>1. m.a \in Account /\ m.b \in Account /\ m.a \in Nat /\ m.b \in Nat
            BY <1>3, <2>1, HistoryAssumption DEF Rateable, MatchRow, Slot
        <3>2. m.a # m.b
            BY <1>3, <2>1, CardAssumption DEF Rateable
        <3> QED BY <3>1, <3>2
    <2>2. ASSUME Rateable(m)
          PROVE  /\ LockOrder(m)[1] \in Account /\ LockOrder(m)[2] \in Account
                 /\ LockOrder(m)[1] < LockOrder(m)[2]
        <3>1. CASE m.a < m.b
            BY <2>1, <2>2, <3>1 DEF LockOrder
        <3>2. CASE m.b < m.a
            <4>1. ~(m.a < m.b)
                BY <2>1, <2>2, <3>2
            <4> QED BY <2>1, <2>2, <3>2, <4>1 DEF LockOrder
        <3> QED BY <2>1, <2>2, <3>1, <3>2
    <2>3. Len(matches') = N /\ N \in 0 .. MaxMatch
        BY <1>4
    <2>4. ASSUME Rateable(m)
          PROVE  /\ new \in Request /\ new.at = "lock" /\ new.id = Len(matches') /\ new.card = m
                 /\ new.first = LockOrder(m)[1] /\ new.second = LockOrder(m)[2]
        <3> DEFINE x == LockOrder(m)[1]
                   y == LockOrder(m)[2]
                   i == Len(matches')
                   e == [q EXCEPT !.at = "lock", !.id = i, !.first = x, !.second = y]
        <3>1. x \in Account /\ y \in Account /\ i \in 0 .. MaxMatch
            BY <2>2, <2>3, <2>4
        <3>2. new = e
            OBVIOUS
        <3> HIDE DEF x, y, i, q
        <3>3. /\ e \in Request /\ e.at = "lock" /\ e.id = i /\ e.card = q.card
              /\ e.first = x /\ e.second = y
            BY <1>3, <3>1 DEF Request
        <3> HIDE DEF e
        <3> QED BY <3>2, <3>3 DEF x, y, i, q
    <2> QED BY <2>2, <2>3, <2>4
<1> HIDE DEF new, q
<1>6. Rateable(m) => new # None
    BY <1>5, CardAssumption
<1>7. /\ \A p \in Req : p # r => req'[p] = req[p]
      /\ req'[r] = IF Rateable(m) THEN new ELSE None
    BY <1>1, <1>2 DEF Finish
<1>8. TypeOK'
    <2>1. req' \in [Req -> Request \cup {None}]
        BY <1>1, <1>2, <1>5 DEF Finish
    <2>2. \A i \in DOMAIN matches' : matches'[i] \in MatchRow \cup {None}
        BY <1>4
    <2>3. Len(matches') <= MaxMatch /\ DOMAIN matches \subseteq DOMAIN matches'
        BY <1>4
    <2> QED BY <1>1, <2>1, <2>2, <2>3 DEF IInv, RatedExactly, TypeOK
<1>9. RatedExactly'
    <2>1. ASSUME NEW i \in Finished(matches)' \ lost, Rateable(matches'[i])
          PROVE  (\E x \in rated : x.id = i) \/ (\E p \in Req : req'[p] # None /\ req'[p].id = i)
        <3>1. CASE i = N
            BY <1>4, <1>5, <1>6, <1>7, <2>1, <3>1
        <3>2. CASE i \in DOMAIN matches
            <4>1. i \in Finished(matches) \ lost /\ Rateable(matches[i])
                BY <1>4, <2>1, <3>2 DEF Finished
            <4>2. (\E x \in rated : x.id = i) \/ (\E p \in Req : req[p] # None /\ req[p].id = i)
                BY <4>1 DEF IInv, RatedExactly
            <4> QED BY <1>3, <1>4, <1>7, <3>2, <4>2 DEF q
        <3> QED BY <1>4, <3>1, <3>2 DEF Finished
    <2> QED BY <1>1, <1>8, <2>1 DEF IInv, RatedExactly
<1>10. MatchesSound' /\ RatedSound'
    BY <1>1, <1>4 DEF IInv, MatchesSound, RatedSound
<1>11. RequestsSound'
    <2>1. ASSUME NEW p \in Req, p # r, req[p] # None, req[p].at # "insert"
          PROVE  Rating(p)'
        <3>1. Rating(p) /\ req[p].id # N
            BY <1>4, <2>1 DEF IInv, RequestsSound, Rating
        <3>2. \A x \in Req : req'[x] # None /\ req'[x].id = req[p].id => x = p
            BY <1>5, <1>7, <3>1 DEF Rating
        <3>3. req'[p] = req[p] /\ rated' = rated /\ DOMAIN matches \subseteq DOMAIN matches'
            BY <1>1, <1>4, <1>7, <2>1
        <3> QED BY <3>1, <3>2, <3>3 DEF Rating
    <2>2. ASSUME Rateable(m)
          PROVE  Rating(r)'
        <3>1. ASSUME NEW p \in Req, p # r, req[p] # None
              PROVE  req[p].id # N
            BY <1>4, <3>1 DEF IInv, RequestsSound, Rating
        <3>2. \A x \in rated : x.id # N
            BY <1>4 DEF IInv, RatedSound
        <3>3. req'[r] = new
            BY <1>7, <2>2
        <3>4. \A p \in Req : req'[p] # None /\ req'[p].id = N => p = r
            BY <1>7, <3>1
        <3> QED BY <1>1, <1>4, <1>5, <2>2, <3>2, <3>3, <3>4 DEF Rating
    <2> QED BY <1>1, <1>3, <1>5, <1>7, <2>1, <2>2, ZenonT(40)
            DEF IInv, RequestsSound, ReadFirst, ReadSecond
<1>12. LocksExclusive'
    <2>1. Locks(r)' = {}
        BY <1>5, <1>7 DEF Locks
    <2>2. \A p \in Req : p # r => Locks(p)' = Locks(p)
        BY <1>7 DEF Locks
    <2> QED BY <2>1, <2>2 DEF IInv, LocksExclusive
<1>13. QuotaKept'
    <2>1. ASSUME NEW u \in Account \ Pro
          PROVE  Cardinality(Uploaded(u)') + Cardinality(Pending(u)')
                    <= FreeLimit + Cardinality(Req) - 1
        <3>1. CASE u # m.by
            <4>1. Uploaded(u)' = Uploaded(u)
                BY <1>4, <3>1 DEF Uploaded, Finished
            <4>2. Pending(u)' = Pending(u)
                BY <1>1, <1>5, <1>7, <3>1 DEF Pending
            <4> QED BY <4>1, <4>2 DEF IInv, QuotaKept
        <3>2. CASE u = m.by
            <4>1. Uploaded(u)' = Uploaded(u) \cup {N} /\ N \notin Uploaded(u)
                BY <1>4, <3>2 DEF Uploaded, Finished
            <4>2. Pending(u)' = Pending(u) \ {r} /\ r \in Pending(u)
                BY <1>1, <1>5, <1>7, <3>2 DEF Pending
            <4>3. /\ IsFiniteSet(Uploaded(u)) /\ Cardinality(Uploaded(u)) \in Nat
                  /\ IsFiniteSet(Pending(u)) /\ Cardinality(Pending(u)) \in Nat
                BY UploadedFinite, PendingFinite
            <4>4. /\ Cardinality(Uploaded(u)') = Cardinality(Uploaded(u)) + 1
                  /\ Cardinality(Pending(u)') = Cardinality(Pending(u)) - 1
                <5>1. Cardinality(Uploaded(u)') = Cardinality(Uploaded(u)) + 1
                    BY <4>1, <4>3, FS_AddElement
                <5>2. Cardinality(Pending(u)') = Cardinality(Pending(u)) - 1
                    BY <4>2, <4>3, FS_RemoveElement
                <5> QED BY <5>1, <5>2
            <4>5. Cardinality(Uploaded(u)) + Cardinality(Pending(u))
                        <= FreeLimit + Cardinality(Req) - 1
                BY DEF IInv, QuotaKept
            <4>6. Cardinality(Req) \in Nat /\ FreeLimit \in Nat
                BY PendingFinite, HistoryAssumption
            <4> HIDE DEF m
            <4> QED BY <4>3, <4>4, <4>5, <4>6
        <3> QED BY <3>1, <3>2
    <2> QED BY <2>1 DEF QuotaKept
<1> QED BY <1>9, <1>10, <1>11, <1>12, <1>13 DEF IInv

\* A transaction locks one more row, which nobody else holds, and reads it.
LEMMA LockKeeps ==
    ASSUME IInv, NEW r \in Req, req[r] # None, req[r].at # "insert",
           NEW new \in Request, req' = [req EXCEPT ![r] = new],
           UNCHANGED <<live, matches, counted, rated, lost>>,
           new.at \in {"lock2", "save"},
           new.id = req[r].id, new.card = req[r].card,
           new.first = req[r].first, new.second = req[r].second,
           new.first \in live, new.n = counted[<<new.first, new.card.sport>>],
           new.at = "save" =>
               new.second \in live /\ new.k = counted[<<new.second, new.card.sport>>],
           \A p \in Req : p # r => Locks(r)' \cap Locks(p) = {}
    PROVE  IInv'
<1>1. req \in [Req -> Request \cup {None}] /\ new # None
    BY CardAssumption DEF IInv, RatedExactly, TypeOK
<1>2. req'[r] = new /\ \A p \in Req : p # r => req'[p] = req[p]
    BY <1>1
<1>3. \A p \in Req : /\ req'[p] # None <=> req[p] # None
                     /\ req[p] # None => req'[p].id = req[p].id
    BY <1>1, <1>2
<1>4. TypeOK'
    BY <1>1 DEF IInv, RatedExactly, TypeOK
<1>5. RatedExactly'
    BY <1>3, <1>4 DEF IInv, RatedExactly, Finished, Rateable
<1>6. MatchesSound' /\ RatedSound'
    BY DEF IInv, MatchesSound, RatedSound
<1>7. RequestsSound'
    <2>1. ASSUME NEW p \in Req, req[p] # None, req[p].at # "insert"
          PROVE  Rating(p)'
        <3>1. Rating(p)
            BY <2>1 DEF IInv, RequestsSound
        <3>2. \A x \in Req : req'[x] # None /\ req'[x].id = req'[p].id => x = p
            BY <1>3, <2>1, <3>1 DEF Rating
        <3>3. /\ req'[p].id = req[p].id /\ req'[p].first = req[p].first
              /\ req'[p].second = req[p].second
            BY <1>2
        <3> QED BY <3>1, <3>2, <3>3 DEF Rating
    <2>2. ASSUME NEW p \in Req, p # r, req'[p] # None
          PROVE  /\ req'[p] \in Request /\ req'[p].card \in Card
                 /\ req'[p].at = "insert" => req'[p].id = 0
                 /\ req'[p].at # "insert" => Rating(p)'
                 /\ req'[p].at \in {"lock2", "save"} => ReadFirst(p)'
                 /\ req'[p].at = "save" => ReadSecond(p)'
        BY <1>2, <2>1, <2>2 DEF IInv, RequestsSound, ReadFirst, ReadSecond
    <2>3. Rating(r)' /\ ReadFirst(r)' /\ (new.at = "save" => ReadSecond(r)')
        BY <1>2, <2>1 DEF ReadFirst, ReadSecond
    <2>4. new.card \in Card
        BY DEF IInv, RequestsSound
    <2> QED BY <1>2, <2>2, <2>3, <2>4 DEF RequestsSound
<1>8. LocksExclusive'
    <2>1. \A p \in Req : p # r => Locks(p)' = Locks(p)
        BY <1>2 DEF Locks
    <2> QED BY <2>1 DEF IInv, LocksExclusive
<1>9. QuotaKept'
    <2>1. \A u : Uploaded(u)' = Uploaded(u) /\ Pending(u)' \subseteq Pending(u)
        BY <1>2 DEF Uploaded, Pending, Finished
    <2> QED BY <2>1, QuotaFrame
<1> QED BY <1>5, <1>6, <1>7, <1>8, <1>9 DEF IInv

LEMMA LockFirstKeeps ==
    ASSUME IInv, NEW r \in Req, LockFirst(r)
    PROVE  IInv'
<1> DEFINE q == req[r]
           x == <<q.first, q.card.sport>>
           c == counted[x]
           new == [q EXCEPT !.at = "lock2", !.n = c]
<1>1. /\ q # None /\ q.at = "lock" /\ q.first \in live /\ Unlocked(r, x)
      /\ req' = [req EXCEPT ![r] = new]
      /\ UNCHANGED <<live, matches, counted, rated, lost>>
    BY DEF LockFirst
<1>2. q \in Request /\ q.first \in Account /\ q.card \in MatchRow
    BY <1>1 DEF IInv, RequestsSound, Rating, Request
<1>3. x \in Key /\ c \in Nat
    BY <1>2 DEF IInv, RatedExactly, TypeOK, Key, MatchRow
<1> HIDE DEF q, c
<1>4. /\ new \in Request /\ new.at = "lock2" /\ new.n = c
      /\ new.id = q.id /\ new.card = q.card /\ new.first = q.first /\ new.second = q.second
    BY <1>2, <1>3 DEF Request
<1> HIDE DEF new
<1>5. Locks(r)' = {x}
    <2>1. req'[r] = new /\ new # None
        BY <1>1, <1>4, CardAssumption DEF IInv, RatedExactly, TypeOK
    <2> QED BY <1>4, <2>1 DEF Locks
<1>6. \A p \in Req : p # r => Locks(r)' \cap Locks(p) = {}
    BY <1>1, <1>5 DEF Unlocked
<1> USE DEF q, c
<1> QED BY <1>1, <1>4, <1>6, LockKeeps

LEMMA LockSecondKeeps ==
    ASSUME IInv, NEW r \in Req, LockSecond(r)
    PROVE  IInv'
<1> DEFINE q == req[r]
           x == <<q.second, q.card.sport>>
           y == <<q.first, q.card.sport>>
           c == counted[x]
           new == [q EXCEPT !.at = "save", !.k = c]
<1>1. /\ q # None /\ q.at = "lock2" /\ q.second \in live /\ Unlocked(r, x)
      /\ req' = [req EXCEPT ![r] = new]
      /\ UNCHANGED <<live, matches, counted, rated, lost>>
    BY DEF LockSecond
<1>2. q \in Request /\ q.second \in Account /\ q.card \in MatchRow
    BY <1>1 DEF IInv, RequestsSound, Rating, Request
<1>3. x \in Key /\ c \in Nat
    BY <1>2 DEF IInv, RatedExactly, TypeOK, Key, MatchRow
<1>4. q.first \in live /\ q.n = counted[y]
    BY <1>1 DEF IInv, RequestsSound, ReadFirst
<1>5. Locks(r) = {y}
    BY <1>1, LocksAre
<1> HIDE DEF q, c
<1>6. /\ new \in Request /\ new.at = "save" /\ new.k = c /\ new.n = q.n
      /\ new.id = q.id /\ new.card = q.card /\ new.first = q.first /\ new.second = q.second
    BY <1>2, <1>3 DEF Request
<1> HIDE DEF new
<1>7. Locks(r)' = {y, x}
    <2>1. req'[r] = new /\ new # None
        BY <1>1, <1>6, CardAssumption DEF IInv, RatedExactly, TypeOK
    <2> QED BY <1>6, <2>1 DEF Locks
<1>8. \A p \in Req : p # r => Locks(r)' \cap Locks(p) = {}
    BY <1>1, <1>5, <1>7 DEF Unlocked, IInv, LocksExclusive
<1> USE DEF q, c
<1> QED BY <1>1, <1>4, <1>6, <1>8, LockKeeps

\* A match is rated into its two ratings, which nobody has moved since they were
\* read.
LEMMA SaveKeeps ==
    ASSUME IInv, NEW r \in Req, Save(r)
    PROVE  IInv'
<1> DEFINE q == req[r]
           s == q.card.sport
           F == <<q.first, s>>
           S == <<q.second, s>>
           e == [id |-> q.id, sport |-> s, players |-> {q.first, q.second}]
<1>1. /\ q # None /\ q.at = "save"
      /\ counted' = [counted EXCEPT ![F] = q.n + 1, ![S] = q.k + 1]
      /\ rated' = rated \cup {e} /\ Finish(r)
      /\ UNCHANGED <<live, matches, lost>>
    BY DEF Save
<1>2. /\ q \in Request /\ Rating(r) /\ ReadFirst(r) /\ ReadSecond(r)
    BY <1>1 DEF IInv, RequestsSound
<1>3. /\ q.first \in Account /\ q.second \in Account /\ s \in Sport /\ q.first # q.second
      /\ q.first \in live /\ q.second \in live
      /\ q.id \in DOMAIN matches
      /\ \A x \in rated : x.id # q.id
    <2>1. q.first \in Account /\ q.second \in Account /\ q.first # q.second
        <3>1. q.first \in Account /\ q.second \in Account /\ q.first < q.second
            BY <1>2 DEF Rating
        <3>2. q.first \in Nat /\ q.second \in Nat
            BY <3>1, HistoryAssumption
        <3> HIDE DEF q
        <3> QED BY <3>1, <3>2
    <2>2. q.card.sport \in Sport
        BY <1>2 DEF Request, MatchRow
    <2> QED BY <1>2, <2>1, <2>2 DEF Rating, ReadFirst, ReadSecond
<1>4. /\ F \in Key /\ S \in Key /\ F # S
      /\ q.n = counted[F] /\ q.k = counted[S]
    BY <1>2, <1>3 DEF Key, ReadFirst, ReadSecond
<1>5. /\ counted \in [Key -> Nat] /\ req \in [Req -> Request \cup {None}]
      /\ Len(matches) <= MaxMatch
      /\ rated \subseteq [id : 1 .. MaxMatch, sport : Sport, players : SUBSET Account]
    BY DEF IInv, RatedExactly, TypeOK
<1>6. \A x \in Key : counted'[x] = IF x = F \/ x = S THEN counted[x] + 1 ELSE counted[x]
    BY <1>1, <1>4, <1>5
<1>7. req'[r] = None /\ \A p \in Req : p # r => req'[p] = req[p]
    BY <1>1, <1>5 DEF Finish
<1>8. Locks(r) = {F, S}
    BY <1>1, LocksAre
<1>9. e \in [id : 1 .. MaxMatch, sport : Sport, players : SUBSET Account]
    <2>1. q.id \in 1 .. MaxMatch
        BY <1>3, <1>5, HistoryAssumption DEF IInv, MatchesSound
    <2> QED BY <1>3, <2>1
<1>10. e \notin rated /\ e.id = q.id /\ e.sport = s /\ e.players = {q.first, q.second}
    BY <1>3
<1> HIDE DEF e
<1>11. TypeOK'
    <2>1. counted' \in [Key -> Nat]
        BY <1>1, <1>4, <1>5, SMTT(30)
    <2>2. req' \in [Req -> Request \cup {None}]
        BY <1>1, <1>5 DEF Finish
    <2> QED BY <1>1, <1>5, <1>9, <2>1, <2>2 DEF IInv, RatedExactly, TypeOK
<1>12. ASSUME NEW u \in live, NEW t \in Sport
       PROVE  counted'[<<u, t>>] = Cardinality({x \in rated' : x.sport = t /\ u \in x.players})
    <2> DEFINE R == {x \in rated : x.sport = t /\ u \in x.players}
               Q == {x \in rated' : x.sport = t /\ u \in x.players}
    <2>1. IsFiniteSet(R) /\ Cardinality(R) \in Nat
        BY FS_Subset, FS_CardinalityType DEF IInv, RatedSound
    <2>2. counted[<<u, t>>] = Cardinality(R)
        BY DEF IInv, RatedExactly
    <2>3. <<u, t>> \in Key
        BY <1>11 DEF Key, IInv, RatedExactly, TypeOK
    <2>4. CASE t = s /\ u \in {q.first, q.second}
        <3>1. Q = R \cup {e} /\ e \notin R
            BY <1>1, <1>10, <2>4
        <3>2. Cardinality(Q) = Cardinality(R) + 1
            BY <2>1, <3>1, FS_AddElement
        <3>3. counted'[<<u, t>>] = counted[<<u, t>>] + 1
            BY <1>6, <2>3, <2>4
        <3> QED BY <2>2, <3>2, <3>3
    <2>5. CASE ~(t = s /\ u \in {q.first, q.second})
        <3>1. Q = R
            BY <1>1, <1>10, <2>5
        <3>2. counted'[<<u, t>>] = counted[<<u, t>>]
            BY <1>6, <2>3, <2>5
        <3> QED BY <2>2, <3>1, <3>2
    <2> QED BY <2>4, <2>5
<1>13. \A x, y \in rated' : x.id = y.id => x = y
    BY <1>1, <1>3, <1>10 DEF IInv, RatedExactly
<1>14. ASSUME NEW i \in Finished(matches) \ lost, Rateable(matches[i])
       PROVE  (\E x \in rated' : x.id = i) \/ (\E p \in Req : req'[p] # None /\ req'[p].id = i)
    <2>1. (\E x \in rated : x.id = i) \/ (\E p \in Req : req[p] # None /\ req[p].id = i)
        BY <1>14 DEF IInv, RatedExactly
    <2> QED BY <1>1, <1>7, <1>10, <2>1
<1>15. RatedExactly'
    BY <1>1, <1>11, <1>12, <1>13, <1>14 DEF RatedExactly, Finished, Rateable
<1>16. MatchesSound' /\ RatedSound'
    <2>1. IsFiniteSet(rated')
        BY <1>1, FS_AddElement DEF IInv, RatedSound
    <2> QED BY <1>1, <1>3, <1>10, <2>1 DEF IInv, MatchesSound, RatedSound
<1>17. RequestsSound'
    <2>1. ASSUME NEW p \in Req, p # r, req[p] # None
          PROVE  /\ req[p].at # "insert" => Rating(p)'
                 /\ req[p].at \in {"lock2", "save"} => ReadFirst(p)'
                 /\ req[p].at = "save" => ReadSecond(p)'
        <3>1. req'[p] = req[p] /\ matches' = matches /\ live' = live
            BY <1>1, <1>7, <2>1
        <3>2. req[p].card.sport \in Sport
            BY <2>1 DEF IInv, RequestsSound, Request, MatchRow
        <3>3. Locks(p) \cap {F, S} = {}
            BY <1>8, <2>1 DEF IInv, LocksExclusive
        <3>4. ASSUME req[p].at # "insert"
              PROVE  Rating(p)'
            <4>1. Rating(p) /\ req[p].id # q.id
                BY <1>1, <1>2, <2>1, <3>4 DEF IInv, RequestsSound, Rating
            <4>2. \A x \in rated' : x.id # req[p].id
                BY <1>1, <1>10, <4>1 DEF Rating
            <4>3. \A x \in Req : req'[x] # None /\ req'[x].id = req[p].id => x = p
                BY <1>7, <4>1 DEF Rating
            <4> QED BY <3>1, <4>1, <4>2, <4>3 DEF Rating
        <3>5. ASSUME req[p].at \in {"lock2", "save"}
              PROVE  ReadFirst(p)'
            <4> DEFINE x == <<req[p].first, req[p].card.sport>>
            <4>1. Rating(p) /\ ReadFirst(p)
                BY <2>1, <3>5 DEF IInv, RequestsSound
            <4>2. x \in Key /\ x # F /\ x # S
                BY <2>1, <3>2, <3>3, <3>5, <4>1, LocksAre DEF Key, Rating
            <4>3. counted'[x] = counted[x]
                BY <1>6, <4>2
            <4> QED BY <3>1, <4>1, <4>3 DEF ReadFirst
        <3>6. ASSUME req[p].at = "save"
              PROVE  ReadSecond(p)'
            <4> DEFINE x == <<req[p].second, req[p].card.sport>>
            <4>1. Rating(p) /\ ReadSecond(p)
                BY <2>1, <3>6 DEF IInv, RequestsSound
            <4>2. x \in Key /\ x # F /\ x # S
                BY <2>1, <3>2, <3>3, <3>6, <4>1, LocksAre DEF Key, Rating
            <4>3. counted'[x] = counted[x]
                BY <1>6, <4>2
            <4> QED BY <3>1, <4>1, <4>3 DEF ReadSecond
        <3> QED BY <3>4, <3>5, <3>6
    <2> QED BY <1>7, <2>1 DEF IInv, RequestsSound
<1>18. LocksExclusive'
    <2>1. Locks(r)' = {} /\ \A p \in Req : p # r => Locks(p)' = Locks(p)
        BY <1>7 DEF Locks
    <2> QED BY <2>1 DEF IInv, LocksExclusive
<1>19. QuotaKept'
    <2>1. \A u : Uploaded(u)' = Uploaded(u) /\ Pending(u)' \subseteq Pending(u)
        BY <1>1, <1>7 DEF Uploaded, Pending, Finished
    <2> QED BY <2>1, QuotaFrame
<1> QED BY <1>15, <1>16, <1>17, <1>18, <1>19 DEF IInv

\* Rows that become fewer, or lose a player who is deleted, stay matches.
LEMMA FewerMatches ==
    ASSUME IInv, matches' \in Seq(MatchRow \cup {None}), DOMAIN matches' = DOMAIN matches,
           \A i \in DOMAIN matches : matches'[i] # None =>
               /\ matches[i] # None /\ matches'[i].by = matches[i].by
               /\ Rateable(matches'[i]) => Rateable(matches[i]),
           UNCHANGED <<req, rated, lost>>
    PROVE  /\ MatchesSound' /\ RatedSound'
           /\ Len(matches') = Len(matches)
           /\ \A i \in DOMAIN matches' : matches'[i] \in MatchRow \cup {None}
           /\ \A i \in Finished(matches') \ lost : Rateable(matches'[i]) =>
                  \/ \E x \in rated : x.id = i
                  \/ \E r \in Req : req[r] # None /\ req[r].id = i
           /\ \A r \in Req : Rating(r) => Rating(r)'
           /\ \A r \in Req : Locks(r)' = Locks(r)
           /\ QuotaKept'
<1>1. MatchesSound' /\ RatedSound'
    BY DEF MatchesSound, IInv, RatedSound
<1>2. Len(matches') = Len(matches)
    BY DEF IInv, MatchesSound
<1>3. ASSUME NEW i \in Finished(matches') \ lost, Rateable(matches'[i])
      PROVE  (\E x \in rated : x.id = i) \/ (\E r \in Req : req[r] # None /\ req[r].id = i)
    <2>1. i \in Finished(matches) \ lost /\ Rateable(matches[i])
        BY <1>3 DEF Finished
    <2> QED BY <2>1 DEF IInv, RatedExactly
<1>4. \A r \in Req : Rating(r) => Rating(r)'
    BY DEF Rating
<1>5. \A r \in Req : Locks(r)' = Locks(r)
    BY DEF Locks
<1>6. QuotaKept'
    <2>1. \A u : Uploaded(u)' \subseteq Uploaded(u) /\ Pending(u)' \subseteq Pending(u)
        BY DEF Uploaded, Pending, Finished
    <2> QED BY <2>1, QuotaFrame
<1> QED BY <1>1, <1>2, <1>3, <1>4, <1>5, <1>6

LEMMA DeleteMatchKeeps ==
    ASSUME IInv, NEW i \in DOMAIN matches, DeleteMatch(i)
    PROVE  IInv'
<1>1. matches' = [matches EXCEPT ![i] = None] /\ UNCHANGED <<live, counted, req, rated, lost>>
    BY DEF DeleteMatch
<1>2. /\ matches' \in Seq(MatchRow \cup {None}) /\ DOMAIN matches' = DOMAIN matches
      /\ \A j \in DOMAIN matches : matches'[j] # None => matches'[j] = matches[j]
    BY <1>1 DEF IInv, MatchesSound
<1>3. /\ MatchesSound' /\ RatedSound'
      /\ Len(matches') = Len(matches)
      /\ \A j \in DOMAIN matches' : matches'[j] \in MatchRow \cup {None}
      /\ \A j \in Finished(matches') \ lost : Rateable(matches'[j]) =>
             \/ \E x \in rated : x.id = j
             \/ \E r \in Req : req[r] # None /\ req[r].id = j
      /\ \A r \in Req : Rating(r) => Rating(r)'
      /\ \A r \in Req : Locks(r)' = Locks(r)
      /\ QuotaKept'
    BY <1>1, <1>2, FewerMatches
<1>4. RatedExactly'
    BY <1>1, <1>2, <1>3, ZenonT(40) DEF IInv, RatedExactly, TypeOK
<1>5. RequestsSound'
    BY <1>1, <1>3 DEF IInv, RequestsSound, ReadFirst, ReadSecond
<1> QED BY <1>3, <1>4, <1>5 DEF IInv, LocksExclusive

\* An account goes when nobody has its ratings locked.
LEMMA DeleteAccountKeeps ==
    ASSUME IInv, NEW u \in Account, DeleteAccount(u)
    PROVE  IInv'
<1>1. /\ u \in live /\ \A r \in Req : \A x \in Locks(r) : x[1] # u
      /\ live' = live \ {u}
      /\ matches' = [i \in DOMAIN matches |-> Forget(matches[i], u)]
      /\ counted' = [x \in Key |-> IF x[1] = u THEN 0 ELSE counted[x]]
      /\ UNCHANGED <<req, rated, lost>>
    BY DEF DeleteAccount
<1>2. ASSUME NEW m \in MatchRow \cup {None}
      PROVE  /\ Forget(m, u) \in MatchRow \cup {None}
             /\ Forget(m, u) # None =>
                    /\ m # None /\ Forget(m, u).by = m.by
                    /\ Rateable(Forget(m, u)) => Rateable(m)
    BY ZenonT(40) DEF Forget, MatchRow, Slot, Rateable
<1>3. /\ matches' \in Seq(MatchRow \cup {None}) /\ DOMAIN matches' = DOMAIN matches
      /\ \A j \in DOMAIN matches : matches'[j] = Forget(matches[j], u)
    BY <1>1, <1>2 DEF IInv, MatchesSound
<1>4. \A j \in DOMAIN matches : matches'[j] # None =>
          /\ matches[j] # None /\ matches'[j].by = matches[j].by
          /\ Rateable(matches'[j]) => Rateable(matches[j])
    BY <1>2, <1>3 DEF IInv, MatchesSound
<1>5. /\ MatchesSound' /\ RatedSound'
      /\ Len(matches') = Len(matches)
      /\ \A j \in DOMAIN matches' : matches'[j] \in MatchRow \cup {None}
      /\ \A j \in Finished(matches') \ lost : Rateable(matches'[j]) =>
             \/ \E x \in rated : x.id = j
             \/ \E r \in Req : req[r] # None /\ req[r].id = j
      /\ \A r \in Req : Rating(r) => Rating(r)'
      /\ \A r \in Req : Locks(r)' = Locks(r)
      /\ QuotaKept'
    BY <1>1, <1>3, <1>4, FewerMatches
<1>6. \A x \in Key : x[1] # u => counted'[x] = counted[x]
    BY <1>1
<1>7. TypeOK'
    <2>1. counted' \in [Key -> Nat]
        BY <1>1 DEF IInv, RatedExactly, TypeOK
    <2> QED BY <1>1, <1>3, <1>5, <2>1 DEF IInv, RatedExactly, TypeOK
<1>8. ASSUME NEW v \in live', NEW s \in Sport
      PROVE  counted'[<<v, s>>] = Cardinality({x \in rated : x.sport = s /\ v \in x.players})
    <2>1. v \in live /\ v # u /\ v \in Account /\ <<v, s>> \in Key
        BY <1>1 DEF IInv, RatedExactly, TypeOK, Key
    <2>2. counted'[<<v, s>>] = counted[<<v, s>>]
        BY <1>6, <2>1
    <2> QED BY <2>1, <2>2 DEF IInv, RatedExactly
<1>9. RatedExactly'
    <2>1. rated' = rated /\ lost' = lost /\ req' = req
        BY <1>1
    <2>2. \A v \in live', s \in Sport :
             counted'[<<v, s>>] = Cardinality({x \in rated' : x.sport = s /\ v \in x.players})
        BY <1>8, <2>1
    <2>3. \A x, y \in rated' : x.id = y.id => x = y
        BY <2>1 DEF IInv, RatedExactly
    <2>4. \A j \in Finished(matches') \ lost' : Rateable(matches'[j]) =>
             \/ \E x \in rated' : x.id = j
             \/ \E r \in Req : req'[r] # None /\ req'[r].id = j
        BY <1>5, <2>1
    <2> QED BY <1>7, <2>2, <2>3, <2>4 DEF RatedExactly
<1>10. RequestsSound'
    <2>1. ASSUME NEW r \in Req, req[r] # None, req[r].at \in {"lock2", "save"}
          PROVE  ReadFirst(r)'
        <3>1. Rating(r) /\ ReadFirst(r) /\ req[r].card.sport \in Sport
            BY <2>1 DEF IInv, RequestsSound, Request, MatchRow
        <3>2. req[r].first # u
            <4>1. <<req[r].first, req[r].card.sport>> \in Locks(r)
                BY <2>1, LocksAre
            <4> QED BY <1>1, <4>1
        <3> QED BY <1>1, <1>6, <3>1, <3>2 DEF ReadFirst, Rating, Key
    <2>2. ASSUME NEW r \in Req, req[r] # None, req[r].at = "save"
          PROVE  ReadSecond(r)'
        <3>1. Rating(r) /\ ReadSecond(r) /\ req[r].card.sport \in Sport
            BY <2>2 DEF IInv, RequestsSound, Request, MatchRow
        <3>2. req[r].second # u
            <4>1. <<req[r].second, req[r].card.sport>> \in Locks(r)
                BY <2>2, LocksAre
            <4> QED BY <1>1, <4>1
        <3> QED BY <1>1, <1>6, <3>1, <3>2 DEF ReadSecond, Rating, Key
    <2> QED BY <1>1, <1>5, <2>1, <2>2 DEF IInv, RequestsSound
<1> QED BY <1>5, <1>9, <1>10 DEF IInv, LocksExclusive

-----------------------------------------------------------------------------
(* Sums over finite sets *)

\* A nonempty set of numbers has a least one.
LEMMA Lowest ==
    ASSUME NEW S, S \subseteq Nat, S # {}
    PROVE  \E n \in S : \A m \in S : n <= m
<1>0. PICK x \in S : x \in Nat
    OBVIOUS
<1> DEFINE T == {m \in S : m <= x}
           Below(t) == {m \in T : m < t}
           All == {Below(t) : t \in T}
<1>1. x \in T /\ T \subseteq 0 .. x /\ T \subseteq Nat /\ x \in Nat
    <2>1. \A m \in S : m \in Nat
        OBVIOUS
    <2>2. \A m \in T : m \in 0 .. x /\ m \in Nat
        BY <1>0, <2>1
    <2>3. x \in T
        BY <1>0
    <2> HIDE DEF T
    <2> QED BY <1>0, <2>2, <2>3
<1>2. IsFiniteSet(T)
    <2>1. IsFiniteSet(0 .. x)
        BY FS_Interval
    <2> QED BY <1>1, <2>1, FS_Subset
<1>3. All \subseteq FiniteSubsetsOf(T)
    <2>1. \A t \in T : Below(t) \subseteq T
        OBVIOUS
    <2>2. \A U \in SUBSET T : IsFiniteSet(U)
        BY <1>2, FS_Subset
    <2> QED BY <2>1, <2>2 DEF FiniteSubsetsOf
<1>4. All # {}
    BY <1>1
<1>5. IsWellFoundedOn(StrictSubsetOrdering(T), FiniteSubsetsOf(T))
    BY FS_StrictSubsetOrderingWellFounded
<1>6. IsWellFoundedOn(StrictSubsetOrdering(T), All)
    BY <1>3, <1>5, IsWellFoundedOnSubset
<1> HIDE DEF All
<1>7. PICK U \in All : \A V \in All : ~(<<V, U>> \in StrictSubsetOrdering(T))
    BY <1>4, <1>6, WFMin
<1>8. PICK n \in T : U = Below(n)
    BY DEF All
<1>9. \A m \in T : n <= m
    <2> SUFFICES ASSUME NEW m \in T, m < n PROVE FALSE
        BY <1>1
    <2>1. Below(m) \in All /\ Below(m) \subseteq T /\ Below(n) \subseteq T
        BY DEF All
    <2>2. Below(m) \subseteq Below(n) /\ m \in Below(n) /\ m \notin Below(m)
        BY <1>1
    <2>3. <<Below(m), Below(n)>> \in StrictSubsetOrdering(T)
        BY <2>1, <2>2 DEF StrictSubsetOrdering
    <2> QED BY <1>7, <1>8, <2>1, <2>3
<1>10. \A m \in S : n <= m
    <2> TAKE m \in S
    <2>1. CASE m <= x
        BY <1>9, <2>1
    <2>2. CASE ~(m <= x)
        BY <1>1, <2>2
    <2> QED BY <2>1, <2>2
<1> QED BY <1>10

\* Of sets of subsets of a finite set, some are minimal.
LEMMA Smallest ==
    ASSUME NEW S, IsFiniteSet(S), NEW T, T \subseteq SUBSET S, T # {}
    PROVE  \E U \in T : \A V \in T : V \subseteq U => V = U
<1>1. T \subseteq FiniteSubsetsOf(S)
    BY FS_Subset DEF FiniteSubsetsOf
<1>2. IsWellFoundedOn(StrictSubsetOrdering(S), FiniteSubsetsOf(S))
    BY FS_StrictSubsetOrderingWellFounded
<1>3. IsWellFoundedOn(StrictSubsetOrdering(S), T)
    BY <1>1, <1>2, IsWellFoundedOnSubset
<1>4. PICK U \in T : \A V \in T : ~(<<V, U>> \in StrictSubsetOrdering(S))
    BY <1>3, WFMin
<1>5. ASSUME NEW V \in T, V \subseteq U PROVE V = U
    <2>1. V \in SUBSET S /\ U \in SUBSET S
        OBVIOUS
    <2>2. V # U => <<V, U>> \in StrictSubsetOrdering(S)
        BY <1>5, <2>1 DEF StrictSubsetOrdering
    <2> QED BY <1>4, <2>2
<1> QED BY <1>5

Pick(s) == CHOOSE x \in s : TRUE

LEMMA Picked ==
    ASSUME NEW s, s # {}
    PROVE  Pick(s) \in s
BY DEF Pick

\* One step of the fold: g holds the sums over the smaller sets
AddUp(f, g, s) == IF s = {} THEN 0 ELSE f[Pick(s)] + g[s \ {Pick(s)}]

Adds(f, g, S) == \A s \in SUBSET S : g[s] = AddUp(f, g, s)

\* The subsets with n elements at most
Layer(S, n) == {s \in SUBSET S : Cardinality(s) <= n}

LEMMA SumsUpTo ==
    ASSUME NEW S, IsFiniteSet(S), NEW f, \A x \in S : f[x] \in Int, NEW n \in Nat
    PROVE  \E g \in [Layer(S, n) -> Int] : \A s \in Layer(S, n) : g[s] = AddUp(f, g, s)
<1> DEFINE Good(i) == \E g \in [Layer(S, i) -> Int] : \A s \in Layer(S, i) : g[s] = AddUp(f, g, s)
           Bad == {i \in Nat : ~Good(i)}
<1>0. \A s \in SUBSET S : /\ IsFiniteSet(s) /\ Cardinality(s) \in Nat
                          /\ s # {} => /\ Pick(s) \in S
                                       /\ s \ {Pick(s)} \in SUBSET S
                                       /\ Cardinality(s \ {Pick(s)}) = Cardinality(s) - 1
    <2> TAKE s \in SUBSET S
    <2>1. IsFiniteSet(s) /\ Cardinality(s) \in Nat
        BY FS_Subset, FS_CardinalityType
    <2>2. s # {} => Cardinality(s \ {Pick(s)}) = Cardinality(s) - 1
        BY <2>1, Picked, FS_RemoveElement
    <2> QED BY <2>1, <2>2, Picked
<1>1. Bad = {}
    <2> SUFFICES ASSUME Bad # {} PROVE FALSE
        OBVIOUS
    <2>1. Bad \subseteq Nat
        OBVIOUS
    <2>2. PICK i \in Bad : \A j \in Bad : i <= j
        BY <2>1, Lowest
    <2>3. i \in Nat /\ ~Good(i)
        BY <2>2
    <2> HIDE DEF Bad
    <2>4. CASE i = 0
        <3> DEFINE g == [s \in Layer(S, 0) |-> 0]
        <3>1. \A s \in Layer(S, 0) : s = {}
            <4> TAKE s \in Layer(S, 0)
            <4>0. s \in SUBSET S /\ Cardinality(s) <= 0
                BY DEF Layer
            <4>1. IsFiniteSet(s) /\ Cardinality(s) \in Nat
                BY <1>0, <4>0
            <4>2. Cardinality(s) = 0
                BY <4>0, <4>1
            <4> QED BY <4>1, <4>2, FS_EmptySet
        <3>2. \A s \in Layer(S, 0) : g[s] = AddUp(f, g, s)
            BY <3>1 DEF AddUp
        <3>3. g \in [Layer(S, 0) -> Int]
            OBVIOUS
        <3> HIDE DEF g
        <3> QED BY <2>3, <2>4, <3>2, <3>3
    <2>5. CASE i # 0
        <3>1. PICK k \in Nat : i = k + 1
            <4>1. i - 1 \in Nat /\ i = (i - 1) + 1
                BY <2>3, <2>5
            <4> QED BY <4>1
        <3>2. Good(k)
            <4>1. ~(i <= k)
                BY <3>1
            <4>2. k \notin Bad
                BY <2>2, <4>1
            <4> HIDE DEF Good
            <4> QED BY <4>2 DEF Bad
        <3>3. PICK h \in [Layer(S, k) -> Int] : \A s \in Layer(S, k) : h[s] = AddUp(f, h, s)
            BY <3>2
        <3> DEFINE g == [s \in Layer(S, i) |-> IF s \in Layer(S, k) THEN h[s] ELSE AddUp(f, h, s)]
        <3>4. ASSUME NEW s \in Layer(S, i), s # {}
              PROVE  s \ {Pick(s)} \in Layer(S, k) /\ Pick(s) \in S
            <4>1. Cardinality(s) \in Nat /\ Cardinality(s \ {Pick(s)}) = Cardinality(s) - 1
                BY <1>0, <3>4 DEF Layer
            <4>2. Cardinality(s) <= k + 1
                BY <3>1 DEF Layer
            <4>3. Cardinality(s \ {Pick(s)}) <= k
                BY <4>1, <4>2
            <4> QED BY <1>0, <3>4, <4>3 DEF Layer
        <3>5. Layer(S, k) \subseteq Layer(S, i)
            <4> SUFFICES ASSUME NEW s \in SUBSET S, Cardinality(s) <= k PROVE Cardinality(s) <= i
                BY DEF Layer
            <4>1. Cardinality(s) \in Nat
                BY <1>0
            <4> QED BY <3>1, <4>1
        <3>6. \A s \in Layer(S, k) : g[s] = h[s]
            BY <3>5
        <3>7. \A s \in Layer(S, i) : AddUp(f, g, s) = AddUp(f, h, s)
            <4> TAKE s \in Layer(S, i)
            <4>1. CASE s = {}
                BY <4>1 DEF AddUp
            <4>2. CASE s # {}
                <5>1. g[s \ {Pick(s)}] = h[s \ {Pick(s)}]
                    BY <3>4, <3>6, <4>2
                <5> HIDE DEF g
                <5> QED BY <4>2, <5>1 DEF AddUp
            <4> QED BY <4>1, <4>2
        <3>8. \A s \in Layer(S, i) : g[s] = AddUp(f, g, s)
            <4> TAKE s \in Layer(S, i)
            <4>1. CASE s \in Layer(S, k)
                <5>1. g[s] = h[s] /\ h[s] = AddUp(f, h, s)
                    BY <3>3, <3>6, <4>1
                <5> HIDE DEF g
                <5> QED BY <3>7, <5>1
            <4>2. CASE s \notin Layer(S, k)
                <5>1. g[s] = AddUp(f, h, s)
                    BY <4>2
                <5> HIDE DEF g
                <5> QED BY <3>7, <5>1
            <4> QED BY <4>1, <4>2
        <3>9. \A s \in Layer(S, i) : AddUp(f, h, s) \in Int
            <4> TAKE s \in Layer(S, i)
            <4>1. s # {} => f[Pick(s)] \in Int /\ h[s \ {Pick(s)}] \in Int
                BY <3>4
            <4> QED BY <4>1 DEF AddUp
        <3>10. g \in [Layer(S, i) -> Int]
            BY <3>9
        <3> HIDE DEF g
        <3> QED BY <2>3, <3>8, <3>10
    <2> QED BY <2>4, <2>5
<1>2. Good(n)
    <2> HIDE DEF Good
    <2> QED BY <1>1
<1> QED BY <1>2

\* What SumOf folds to, and the sums over the subsets with it
LEMMA SumIsFold ==
    ASSUME NEW S, IsFiniteSet(S), NEW f, \A x \in S : f[x] \in Int
    PROVE  \E g \in [SUBSET S -> Int] : Adds(f, g, S) /\ SumOf(f, S) = g[S]
<1> DEFINE Sum(h, s) == IF s = {} THEN 0 ELSE f[Pick(s)] + h[s \ {Pick(s)}]
           F(h) == [s \in SUBSET S |-> Sum(h, s)]
           it == CHOOSE h : h = F(h)
<1>1. SumOf(f, S) = it[S]
    BY DEF SumOf, MapThenSumSet, MapThenFoldSet, Pick
<1>2. \A h, s : Sum(h, s) = AddUp(f, h, s)
    BY DEF AddUp
<1>3. PICK g \in [SUBSET S -> Int] : \A s \in SUBSET S : g[s] = AddUp(f, g, s)
    <2>1. PICK n \in Nat : n = Cardinality(S)
        BY FS_CardinalityType
    <2>2. \A s \in SUBSET S : Cardinality(s) <= n
        BY <2>1, FS_Subset
    <2>3. Layer(S, n) = SUBSET S
        BY <2>2 DEF Layer
    <2>4. \E g \in [Layer(S, n) -> Int] : \A s \in Layer(S, n) : g[s] = AddUp(f, g, s)
        BY SumsUpTo
    <2> QED BY <2>3, <2>4
<1> HIDE DEF Sum
<1>4. g = F(g)
    BY <1>2, <1>3
<1>5. it = F(it)
    BY <1>4
<1> HIDE DEF it
<1>6. \A s \in SUBSET S : it[s] = AddUp(f, it, s)
    BY <1>2, <1>5
<1>8. \A s \in SUBSET S : it[s] = g[s]
    <2> DEFINE Bad == {s \in SUBSET S : it[s] # g[s]}
    <2> SUFFICES ASSUME Bad # {} PROVE FALSE
        OBVIOUS
    <2>1. PICK U \in Bad : \A V \in Bad : V \subseteq U => V = U
        <3>1. Bad \subseteq SUBSET S
            OBVIOUS
        <3> HIDE DEF Bad
        <3> QED BY <3>1, Smallest
    <2>2. U \in SUBSET S /\ it[U] = AddUp(f, it, U) /\ g[U] = AddUp(f, g, U) /\ it[U] # g[U]
        BY <1>3, <1>6
    <2>3. CASE U = {}
        BY <2>2, <2>3 DEF AddUp
    <2>4. CASE U # {}
        <3>1. U \ {Pick(U)} \in SUBSET S /\ U \ {Pick(U)} # U
            BY <2>2, <2>4, Picked
        <3>2. it[U \ {Pick(U)}] = g[U \ {Pick(U)}]
            BY <2>1, <3>1
        <3> QED BY <2>2, <2>4, <3>2 DEF AddUp
    <2> QED BY <2>3, <2>4
<1>9. it = g
    <2>1. it = [s \in SUBSET S |-> it[s]]
        BY <1>5
    <2>2. g = [s \in SUBSET S |-> g[s]]
        OBVIOUS
    <2>3. [s \in SUBSET S |-> it[s]] = [s \in SUBSET S |-> g[s]]
        BY <1>8
    <2> HIDE DEF F
    <2> QED BY <2>1, <2>2, <2>3
<1> QED BY <1>1, <1>3, <1>9 DEF Adds

\* The same sums are found within any set that contains the summands.
LEMMA FoldsAgree ==
    ASSUME NEW S, IsFiniteSet(S), NEW R \in SUBSET S, NEW f, NEW g, NEW h,
           Adds(f, g, S), Adds(f, h, R)
    PROVE  g[R] = h[R]
<1> DEFINE Bad == {s \in SUBSET R : h[s] # g[s]}
<1> SUFFICES ASSUME Bad # {} PROVE FALSE
    OBVIOUS
<1>1. IsFiniteSet(R)
    BY FS_Subset
<1>2. PICK U \in Bad : \A V \in Bad : V \subseteq U => V = U
    <2>1. Bad \subseteq SUBSET R
        OBVIOUS
    <2> HIDE DEF Bad
    <2> QED BY <1>1, <2>1, Smallest
<1>3. U \in SUBSET R /\ h[U] = AddUp(f, h, U) /\ g[U] = AddUp(f, g, U) /\ h[U] # g[U]
    BY DEF Adds
<1>4. CASE U = {}
    BY <1>3, <1>4 DEF AddUp
<1>5. CASE U # {}
    <2>1. U \ {Pick(U)} \in SUBSET R /\ U \ {Pick(U)} # U
        BY <1>3, <1>5, Picked
    <2>2. h[U \ {Pick(U)}] = g[U \ {Pick(U)}]
        BY <1>2, <2>1
    <2> QED BY <1>3, <1>5, <2>2 DEF AddUp
<1> QED BY <1>4, <1>5

LEMMA SumStep ==
    ASSUME NEW S, IsFiniteSet(S), NEW f, \A x \in S : f[x] \in Int
    PROVE  /\ SumOf(f, S) \in Int
           /\ S = {} => SumOf(f, S) = 0
           /\ S # {} => SumOf(f, S) = f[Pick(S)] + SumOf(f, S \ {Pick(S)})
<1>1. PICK g \in [SUBSET S -> Int] : Adds(f, g, S) /\ SumOf(f, S) = g[S]
    BY SumIsFold
<1>2. S \in SUBSET S /\ SumOf(f, S) \in Int /\ g[S] = AddUp(f, g, S)
    BY <1>1 DEF Adds
<1>3. CASE S = {}
    BY <1>1, <1>2, <1>3 DEF AddUp
<1>4. CASE S # {}
    <2>1. PICK R \in SUBSET S : R = S \ {Pick(S)}
        OBVIOUS
    <2>2. IsFiniteSet(R) /\ \A x \in R : f[x] \in Int
        BY FS_Subset
    <2>3. PICK h \in [SUBSET R -> Int] : Adds(f, h, R) /\ SumOf(f, R) = h[R]
        BY <2>2, SumIsFold
    <2>4. g[R] = h[R]
        BY <1>1, <2>3, FoldsAgree
    <2>5. SumOf(f, S) = f[Pick(S)] + g[R]
        BY <1>1, <1>2, <1>4, <2>1 DEF AddUp
    <2> QED BY <1>2, <1>4, <2>1, <2>3, <2>4, <2>5
<1> QED BY <1>2, <1>3, <1>4

\* Any summand can be taken off.
LEMMA SumTake ==
    ASSUME NEW S, IsFiniteSet(S), NEW f, \A x \in S : f[x] \in Int, NEW x \in S
    PROVE  SumOf(f, S) = f[x] + SumOf(f, S \ {x})
<1> DEFINE Takes(s) == \A y \in s : SumOf(f, s) = f[y] + SumOf(f, s \ {y})
           Bad == {s \in SUBSET S : ~Takes(s)}
<1>1. Bad = {}
    <2> SUFFICES ASSUME Bad # {} PROVE FALSE
        OBVIOUS
    <2>1. PICK U \in Bad : \A V \in Bad : V \subseteq U => V = U
        <3>1. Bad \subseteq SUBSET S
            OBVIOUS
        <3> HIDE DEF Bad
        <3> QED BY <3>1, Smallest
    <2>2. PICK y \in U : SumOf(f, U) # f[y] + SumOf(f, U \ {y})
        OBVIOUS
    <2>3. U \in SUBSET S /\ U # {}
        BY <2>2
    <2>4. \A s \in SUBSET U : s # U => Takes(s)
        BY <2>1, <2>3
    <2> HIDE DEF Takes, Bad
    <2>5. PICK p \in U : p = Pick(U)
        BY <2>3, Picked
    <2>6. \A s \in SUBSET S : IsFiniteSet(s) /\ SumOf(f, s) \in Int
        BY FS_Subset, SumStep
    <2>7. SumOf(f, U) = f[p] + SumOf(f, U \ {p})
        BY <2>3, <2>5, <2>6, SumStep
    <2>8. p # y
        BY <2>2, <2>7
    <2>9. Takes(U \ {p}) /\ Takes(U \ {y}) /\ y \in U \ {p} /\ p \in U \ {y}
        BY <2>4, <2>8
    <2>10. SumOf(f, U \ {p}) = f[y] + SumOf(f, (U \ {p}) \ {y})
        BY <2>9 DEF Takes
    <2>11. SumOf(f, U \ {y}) = f[p] + SumOf(f, (U \ {y}) \ {p})
        BY <2>9 DEF Takes
    <2>12. PICK R \in SUBSET S : R = (U \ {p}) \ {y} /\ R = (U \ {y}) \ {p}
        BY <2>3
    <2>13. f[p] \in Int /\ f[y] \in Int /\ SumOf(f, R) \in Int
        BY <2>3, <2>6
    <2>14. SumOf(f, U) = f[p] + (f[y] + SumOf(f, R))
        BY <2>7, <2>10, <2>12
    <2>15. f[y] + SumOf(f, U \ {y}) = f[y] + (f[p] + SumOf(f, R))
        BY <2>11, <2>12
    <2>16. f[p] + (f[y] + SumOf(f, R)) = f[y] + (f[p] + SumOf(f, R))
        BY <2>13
    <2> QED BY <2>2, <2>14, <2>15, <2>16
<1>2. Takes(S)
    BY <1>1
<1> QED BY <1>2

\* Functions that agree on S have the same sum.
LEMMA SumSame ==
    ASSUME NEW S, IsFiniteSet(S), NEW f, NEW g, \A x \in S : f[x] \in Int /\ f[x] = g[x]
    PROVE  SumOf(f, S) = SumOf(g, S)
<1> DEFINE Bad == {s \in SUBSET S : SumOf(f, s) # SumOf(g, s)}
<1> SUFFICES ASSUME Bad # {} PROVE FALSE
    OBVIOUS
<1>1. PICK U \in Bad : \A V \in Bad : V \subseteq U => V = U
    <2>1. Bad \subseteq SUBSET S
        OBVIOUS
    <2> HIDE DEF Bad
    <2> QED BY <2>1, Smallest
<1>2. U \in SUBSET S /\ SumOf(f, U) # SumOf(g, U)
    OBVIOUS
<1>3. \A s \in SUBSET U : s # U => SumOf(f, s) = SumOf(g, s)
    BY <1>1, <1>2
<1> HIDE DEF Bad
<1>4. IsFiniteSet(U) /\ (\A x \in U : f[x] \in Int) /\ (\A x \in U : g[x] \in Int)
    BY <1>2, FS_Subset
<1>5. CASE U = {}
    <2>1. SumOf(f, U) = 0 /\ SumOf(g, U) = 0
        BY <1>4, <1>5, SumStep
    <2> QED BY <1>2, <2>1
<1>6. CASE U # {}
    <2>1. PICK x \in U : TRUE
        BY <1>6
    <2>2. SumOf(f, U) = f[x] + SumOf(f, U \ {x})
        BY <1>4, SumTake
    <2>3. SumOf(g, U) = g[x] + SumOf(g, U \ {x})
        BY <1>4, SumTake
    <2>4. SumOf(f, U \ {x}) = SumOf(g, U \ {x}) /\ f[x] = g[x]
        BY <1>2, <1>3
    <2> QED BY <1>2, <2>2, <2>3, <2>4
<1> QED BY <1>5, <1>6

LEMMA SumZero ==
    ASSUME NEW S, IsFiniteSet(S), NEW f, \A x \in S : f[x] = 0
    PROVE  SumOf(f, S) = 0
<1> DEFINE Bad == {s \in SUBSET S : SumOf(f, s) # 0}
<1> SUFFICES ASSUME Bad # {} PROVE FALSE
    OBVIOUS
<1>1. PICK U \in Bad : \A V \in Bad : V \subseteq U => V = U
    <2>1. Bad \subseteq SUBSET S
        OBVIOUS
    <2> HIDE DEF Bad
    <2> QED BY <2>1, Smallest
<1>2. U \in SUBSET S /\ SumOf(f, U) # 0
    OBVIOUS
<1>3. \A s \in SUBSET U : s # U => SumOf(f, s) = 0
    BY <1>1, <1>2
<1> HIDE DEF Bad
<1>4. IsFiniteSet(U) /\ \A x \in U : f[x] \in Int /\ f[x] = 0
    BY <1>2, FS_Subset
<1>5. CASE U = {}
    BY <1>2, <1>4, <1>5, SumStep
<1>6. CASE U # {}
    <2>1. PICK x \in U : f[x] = 0
        BY <1>4, <1>6
    <2>2. SumOf(f, U) = f[x] + SumOf(f, U \ {x})
        BY <1>4, SumTake
    <2>3. SumOf(f, U \ {x}) = 0
        BY <1>3
    <2> QED BY <1>2, <2>1, <2>2, <2>3
<1> QED BY <1>5, <1>6

\* f differs from g by d in one place.
Bumped(f, g, S, a, d) ==
    /\ \A x \in S : g[x] \in Int
    /\ \A x \in S \ {a} : f[x] = g[x]
    /\ f[a] = g[a] + d

LEMMA SumBump ==
    ASSUME NEW S, IsFiniteSet(S), NEW f, NEW g, NEW a \in S, NEW d \in Int, Bumped(f, g, S, a, d)
    PROVE  /\ SumOf(f, S) = SumOf(g, S) + d
           /\ \A x \in S : f[x] \in Int
<1>0. (\A x \in S : g[x] \in Int) /\ (\A x \in S \ {a} : f[x] = g[x]) /\ f[a] = g[a] + d
    BY DEF Bumped
<1>1. g[a] \in Int /\ f[a] \in Int
    BY <1>0
<1>2. \A x \in S : f[x] \in Int
    BY <1>0, <1>1
<1>3. PICK R \in SUBSET S : R = S \ {a}
    OBVIOUS
<1>4. IsFiniteSet(R) /\ \A x \in R : f[x] \in Int /\ f[x] = g[x]
    BY <1>0, <1>2, <1>3, FS_Subset
<1>5. SumOf(f, R) = SumOf(g, R)
    BY <1>4, SumSame
<1>6. SumOf(g, R) \in Int
    BY <1>4, SumStep
<1>7. SumOf(f, S) = f[a] + SumOf(f, R)
    BY <1>2, <1>3, SumTake
<1>8. SumOf(g, S) = g[a] + SumOf(g, R)
    BY <1>0, <1>3, SumTake
<1>9. PICK u \in Int, v \in Int : u = g[a] /\ v = SumOf(g, R)
    BY <1>1, <1>6
<1>10. (u + d) + v = (u + v) + d
    OBVIOUS
<1> QED BY <1>0, <1>2, <1>5, <1>7, <1>8, <1>9, <1>10

LEMMA SumNegated ==
    ASSUME NEW S, IsFiniteSet(S), NEW f, NEW g, \A x \in S : f[x] \in Int /\ g[x] = -f[x]
    PROVE  SumOf(g, S) = -SumOf(f, S)
<1> DEFINE Bad == {s \in SUBSET S : SumOf(g, s) # -SumOf(f, s)}
<1> SUFFICES ASSUME Bad # {} PROVE FALSE
    OBVIOUS
<1>1. PICK U \in Bad : \A V \in Bad : V \subseteq U => V = U
    <2>1. Bad \subseteq SUBSET S
        OBVIOUS
    <2> HIDE DEF Bad
    <2> QED BY <2>1, Smallest
<1>2. U \in SUBSET S /\ SumOf(g, U) # -SumOf(f, U)
    OBVIOUS
<1>3. \A s \in SUBSET U : s # U => SumOf(g, s) = -SumOf(f, s)
    BY <1>1, <1>2
<1> HIDE DEF Bad
<1>4. \A s \in SUBSET U : IsFiniteSet(s) /\ (\A x \in s : f[x] \in Int /\ g[x] \in Int)
    BY <1>2, FS_Subset
<1>5. IsFiniteSet(U) /\ (\A x \in U : f[x] \in Int) /\ (\A x \in U : g[x] \in Int)
    BY <1>4
<1>6. CASE U = {}
    <2>1. SumOf(f, U) = 0 /\ SumOf(g, U) = 0
        BY <1>5, <1>6, SumStep
    <2>2. SumOf(g, U) \in Int /\ SumOf(f, U) \in Int /\ SumOf(g, U) + SumOf(f, U) = 0
        BY <2>1
    <2>3. \A a, b \in Int : a + b = 0 => a = -b
        OBVIOUS
    <2>4. SumOf(g, U) = -SumOf(f, U)
        BY <2>2, <2>3, Zenon
    <2> QED BY <1>2, <2>4, Zenon
<1>7. CASE U # {}
    <2>1. PICK x \in U : g[x] = -f[x] /\ f[x] \in Int
        BY <1>2, <1>7
    <2>2. SumOf(f, U) = f[x] + SumOf(f, U \ {x})
        BY <1>5, SumTake
    <2>3. SumOf(g, U) = g[x] + SumOf(g, U \ {x})
        BY <1>5, SumTake
    <2>4. PICK R \in SUBSET U : R = U \ {x} /\ R # U
        <3>1. U \ {x} \in SUBSET U /\ U \ {x} # U
            OBVIOUS
        <3> QED BY <3>1
    <2>5. SumOf(g, R) = -SumOf(f, R)
        BY <1>3, <2>4
    <2>6. SumOf(f, R) \in Int
        BY <1>4, SumStep
    <2>7. PICK a \in Int, r \in Int : a = f[x] /\ r = SumOf(f, R)
        BY <2>1, <2>6
    <2>8. SumOf(f, U) = a + r /\ SumOf(g, U) = (-a) + (-r)
        BY <2>1, <2>2, <2>3, <2>4, <2>5, <2>7
    <2>9. (-a) + (-r) = -(a + r)
        OBVIOUS
    <2> QED BY <1>2, <2>8, <2>9
<1> QED BY <1>6, <1>7

\* As many summands of one
LEMMA SumOfOnes ==
    ASSUME NEW S, IsFiniteSet(S), NEW f, \A x \in S : f[x] = 1
    PROVE  SumOf(f, S) = Cardinality(S)
<1> DEFINE Bad == {s \in SUBSET S : SumOf(f, s) # Cardinality(s)}
<1> SUFFICES ASSUME Bad # {} PROVE FALSE
    OBVIOUS
<1>1. PICK U \in Bad : \A V \in Bad : V \subseteq U => V = U
    <2>1. Bad \subseteq SUBSET S
        OBVIOUS
    <2> HIDE DEF Bad
    <2> QED BY <2>1, Smallest
<1>2. U \in SUBSET S /\ SumOf(f, U) # Cardinality(U)
    OBVIOUS
<1>3. \A s \in SUBSET U : s # U => SumOf(f, s) = Cardinality(s)
    BY <1>1, <1>2
<1> HIDE DEF Bad
<1>4. IsFiniteSet(U) /\ Cardinality(U) \in Nat /\ (\A x \in U : f[x] \in Int /\ f[x] = 1)
    BY <1>2, FS_Subset, FS_CardinalityType
<1>5. CASE U = {}
    <2>1. SumOf(f, U) = 0 /\ Cardinality(U) = 0
        BY <1>4, <1>5, SumStep, FS_EmptySet
    <2> QED BY <1>2, <2>1
<1>6. CASE U # {}
    <2>1. PICK x \in U : f[x] = 1
        BY <1>4, <1>6
    <2>2. SumOf(f, U) = f[x] + SumOf(f, U \ {x})
        BY <1>4, SumTake
    <2>3. Cardinality(U \ {x}) = Cardinality(U) - 1
        BY <1>4, FS_RemoveElement
    <2>4. U \ {x} \in SUBSET U /\ U \ {x} # U
        OBVIOUS
    <2>5. SumOf(f, U \ {x}) = Cardinality(U \ {x})
        BY <1>3, <2>4
    <2> QED BY <1>2, <1>4, <2>1, <2>2, <2>3, <2>5
<1> QED BY <1>5, <1>6

\* What is sorted into t
PartOf(S, k, t) == {x \in S : k[x] = t}

PartSums(f, S, k, T) == [t \in T |-> SumOf(f, PartOf(S, k, t))]

\* A sum is the sum of the sums of its parts.
LEMMA SumOfParts ==
    ASSUME NEW S, IsFiniteSet(S), NEW T, IsFiniteSet(T), NEW k, NEW f,
           \A x \in S : k[x] \in T /\ f[x] \in Int
    PROVE  /\ SumOf(PartSums(f, S, k, T), T) = SumOf(f, S)
           /\ \A t \in T : PartSums(f, S, k, T)[t] \in Int
<1> DEFINE Bad == {s \in SUBSET S : SumOf(PartSums(f, s, k, T), T) # SumOf(f, s)}
<1>0. ASSUME NEW s \in SUBSET S
      PROVE  /\ IsFiniteSet(s) /\ (\A x \in s : f[x] \in Int)
             /\ \A t \in T : PartSums(f, s, k, T)[t] \in Int
    <2>1. IsFiniteSet(s) /\ (\A x \in s : f[x] \in Int)
        BY FS_Subset
    <2>2. ASSUME NEW t \in T PROVE SumOf(f, PartOf(s, k, t)) \in Int
        <3>1. PICK Q \in SUBSET s : Q = PartOf(s, k, t)
            BY DEF PartOf
        <3>2. IsFiniteSet(Q) /\ (\A x \in Q : f[x] \in Int)
            BY <2>1, FS_Subset
        <3>3. SumOf(f, Q) \in Int
            BY <3>2, SumStep
        <3> QED BY <3>1, <3>3
    <2> QED BY <2>1, <2>2 DEF PartSums
<1>1. Bad = {}
    <2> SUFFICES ASSUME Bad # {} PROVE FALSE
        OBVIOUS
    <2>1. PICK U \in Bad : \A V \in Bad : V \subseteq U => V = U
        <3>1. Bad \subseteq SUBSET S
            OBVIOUS
        <3> HIDE DEF Bad
        <3> QED BY <3>1, Smallest
    <2>2. U \in SUBSET S /\ SumOf(PartSums(f, U, k, T), T) # SumOf(f, U)
        OBVIOUS
    <2>3. \A s \in SUBSET U : s # U => SumOf(PartSums(f, s, k, T), T) = SumOf(f, s)
        BY <2>1, <2>2
    <2> HIDE DEF Bad
    <2>4. IsFiniteSet(U) /\ (\A x \in U : f[x] \in Int)
        BY <1>0, <2>2
    <2>5. CASE U = {}
        <3>1. SumOf(f, U) = 0
            BY <2>4, <2>5, SumStep
        <3>2. ASSUME NEW t \in T PROVE PartSums(f, U, k, T)[t] = 0
            <4>1. PartOf(U, k, t) = U
                BY <2>5 DEF PartOf
            <4> QED BY <3>1, <4>1 DEF PartSums
        <3>3. PICK p : p = PartSums(f, U, k, T)
            OBVIOUS
        <3>4. \A t \in T : p[t] = 0
            BY <3>2, <3>3
        <3>5. SumOf(p, T) = 0
            BY <3>4, SumZero
        <3> QED BY <2>2, <3>1, <3>3, <3>5
    <2>6. CASE U # {}
        <3>1. PICK x \in U : x \in S /\ k[x] \in T /\ f[x] \in Int
            BY <2>2, <2>6
        <3>2. PICK R \in SUBSET U : R = U \ {x} /\ R # U
            <4>1. U \ {x} \in SUBSET U /\ U \ {x} # U
                OBVIOUS
            <4> QED BY <4>1
        <3>3. R \in SUBSET S
            BY <2>2
        <3>4. SumOf(f, U) = f[x] + SumOf(f, R)
            BY <2>4, <3>2, SumTake
        <3>5. PICK p, q : p = PartSums(f, U, k, T) /\ q = PartSums(f, R, k, T)
            OBVIOUS
        <3>6. SumOf(q, T) = SumOf(f, R)
            BY <2>3, <3>2, <3>5
        <3>7. \A t \in T : q[t] \in Int
            BY <1>0, <3>3, <3>5
        <3>8. ASSUME NEW t \in T, t # k[x] PROVE p[t] = q[t]
            <4>1. PartOf(U, k, t) = PartOf(R, k, t)
                BY <3>2, <3>8 DEF PartOf
            <4> QED BY <3>5, <4>1 DEF PartSums
        <3>9. p[k[x]] = q[k[x]] + f[x]
            <4>1. PICK V \in SUBSET U : V = PartOf(U, k, k[x])
                BY DEF PartOf
            <4>2. x \in V /\ V \ {x} = PartOf(R, k, k[x])
                BY <3>2, <4>1 DEF PartOf
            <4>3. IsFiniteSet(V) /\ (\A y \in V : f[y] \in Int)
                BY <2>4, FS_Subset
            <4>4. SumOf(f, V) = f[x] + SumOf(f, V \ {x})
                BY <4>2, <4>3, SumTake
            <4>5. p[k[x]] = SumOf(f, V) /\ q[k[x]] = SumOf(f, V \ {x})
                BY <3>1, <3>5, <4>1, <4>2 DEF PartSums
            <4>6. q[k[x]] \in Int
                BY <3>1, <3>7
            <4> QED BY <3>1, <4>4, <4>5, <4>6
        <3>10. Bumped(p, q, T, k[x], f[x])
            BY <3>7, <3>8, <3>9 DEF Bumped
        <3>11. SumOf(p, T) = SumOf(q, T) + f[x]
            BY <3>1, <3>10, SumBump
        <3>12. SumOf(f, R) \in Int
            <4>1. IsFiniteSet(R) /\ (\A y \in R : f[y] \in Int)
                BY <1>0, <3>3
            <4> QED BY <4>1, SumStep
        <3> QED BY <2>2, <3>1, <3>4, <3>5, <3>6, <3>11, <3>12
    <2> QED BY <2>5, <2>6
<1>2. S \in SUBSET S
    OBVIOUS
<1> QED BY <1>0, <1>1, <1>2

PartSizes(S, k, T) == [t \in T |-> Cardinality(PartOf(S, k, t))]

LEMMA SizeOfParts ==
    ASSUME NEW S, IsFiniteSet(S), NEW T, IsFiniteSet(T), NEW k, \A x \in S : k[x] \in T
    PROVE  SumOf(PartSizes(S, k, T), T) = Cardinality(S)
<1>1. PICK f : f = [x \in S |-> 1]
    OBVIOUS
<1>2. \A x \in S : k[x] \in T /\ f[x] \in Int /\ f[x] = 1
    BY <1>1
<1>3. SumOf(f, S) = Cardinality(S)
    BY <1>2, SumOfOnes
<1>4. PICK p : p = PartSums(f, S, k, T)
    OBVIOUS
<1>5. SumOf(p, T) = SumOf(f, S) /\ \A t \in T : p[t] \in Int
    BY <1>2, <1>4, SumOfParts
<1>6. ASSUME NEW t \in T PROVE p[t] = PartSizes(S, k, T)[t]
    <2>1. PICK V \in SUBSET S : V = PartOf(S, k, t)
        BY DEF PartOf
    <2>2. IsFiniteSet(V) /\ \A x \in V : f[x] = 1
        BY <1>2, FS_Subset
    <2>3. SumOf(f, V) = Cardinality(V)
        BY <2>2, SumOfOnes
    <2> QED BY <1>4, <2>1, <2>3 DEF PartSums, PartSizes
<1>7. PICK q : q = PartSizes(S, k, T)
    OBVIOUS
<1>8. \A t \in T : p[t] \in Int /\ p[t] = q[t]
    BY <1>5, <1>6, <1>7
<1>9. SumOf(p, T) = SumOf(q, T)
    BY <1>8, SumSame
<1> QED BY <1>3, <1>5, <1>7, <1>9

-----------------------------------------------------------------------------
(* Sorted lists *)

\* ahead orders the elements of S: of any two, one comes before the other.
Orders(S, ahead) ==
    /\ \A x \in S : x \notin ahead[x] /\ ahead[x] \subseteq S
    /\ \A x, y \in S : x # y => x \in ahead[y] \/ y \in ahead[x]
    /\ \A x, y \in S : y \in ahead[x] => ahead[y] \subseteq ahead[x]

Nth(ahead, x) == Cardinality(ahead[x]) + 1

\* The place of an element is the number of those before it, plus one: who comes
\* first has the lower place, and every place is taken.
LEMMA TurnsFit ==
    ASSUME NEW S, IsFiniteSet(S), NEW ahead, Orders(S, ahead)
    PROVE  /\ \A x \in S : Nth(ahead, x) \in 1 .. Cardinality(S)
           /\ \A x, y \in S : y \in ahead[x] => Nth(ahead, y) < Nth(ahead, x)
<1>1. Cardinality(S) \in Nat
    BY FS_CardinalityType
<1>2. \A x \in S : IsFiniteSet(ahead[x]) /\ Cardinality(ahead[x]) \in Nat
    BY FS_Subset, FS_CardinalityType DEF Orders
<1>3. ASSUME NEW x \in S
      PROVE  Nth(ahead, x) \in 1 .. Cardinality(S)
    <2>1. ahead[x] \subseteq S \ {x}
        BY DEF Orders
    <2>2. IsFiniteSet(S \ {x}) /\ Cardinality(S \ {x}) = Cardinality(S) - 1
        BY FS_RemoveElement
    <2>3. Cardinality(ahead[x]) <= Cardinality(S) - 1
        BY <2>1, <2>2, FS_Subset
    <2> QED BY <1>1, <1>2, <2>3 DEF Nth
<1>4. ASSUME NEW x \in S, NEW y \in S, y \in ahead[x]
      PROVE  Nth(ahead, y) < Nth(ahead, x)
    <2>1. ahead[y] \cup {y} \subseteq ahead[x] /\ y \notin ahead[y]
        BY <1>4 DEF Orders
    <2>2. Cardinality(ahead[y] \cup {y}) = Cardinality(ahead[y]) + 1
        BY <1>2, <2>1, FS_AddElement
    <2>3. Cardinality(ahead[y] \cup {y}) <= Cardinality(ahead[x])
        BY <1>2, <2>1, FS_Subset
    <2> QED BY <1>2, <2>2, <2>3 DEF Nth
<1> QED BY <1>3, <1>4

LEMMA TurnsDiffer ==
    ASSUME NEW S, IsFiniteSet(S), NEW ahead, Orders(S, ahead),
           NEW x \in S, NEW y \in S, Nth(ahead, x) = Nth(ahead, y)
    PROVE  x = y
<1>1. Nth(ahead, x) \in Nat /\ Nth(ahead, y) \in Nat
    <2>1. Cardinality(S) \in Nat
        BY FS_CardinalityType
    <2> QED BY <2>1, TurnsFit
<1>2. x # y => Nth(ahead, x) < Nth(ahead, y) \/ Nth(ahead, y) < Nth(ahead, x)
    BY TurnsFit DEF Orders
<1> QED BY <1>1, <1>2

LEMMA TurnsTakenUp ==
    ASSUME NEW S, IsFiniteSet(S), NEW ahead, Orders(S, ahead), NEW i \in 1 .. Cardinality(S)
    PROVE  \E x \in S : Nth(ahead, x) = i
<1> DEFINE n == Cardinality(S)
           f == [x \in S |-> Nth(ahead, x)]
<1>1. n \in Nat
    BY FS_CardinalityType
<1>2. f \in Injection(S, 1 .. n)
    <2>1. f \in [S -> 1 .. n]
        BY TurnsFit
    <2>2. \A x, y \in S : f[x] = f[y] => x = y
        BY TurnsDiffer
    <2> QED BY <2>1, <2>2 DEF Injection, IsInjective
<1>3. IsFiniteSet(1 .. n) /\ Cardinality(1 .. n) = n
    <2>1. 1 \in Int /\ n \in Int
        BY <1>1
    <2>2. IsFiniteSet(1 .. n) /\ Cardinality(1 .. n) = IF 1 > n THEN 0 ELSE n - 1 + 1
        BY <2>1, FS_Interval
    <2> QED BY <1>1, <2>2
<1>4. f \in Surjection(S, 1 .. n)
    <2> HIDE DEF f
    <2> QED BY <1>2, <1>3, FS_Injection
<1>5. \E x \in S : f[x] = i
    BY <1>4 DEF Surjection
<1> QED BY <1>5

\* A sorted list holds every element once, each behind all that come before it.
LEMMA ListedIs ==
    ASSUME NEW S, IsFiniteSet(S), NEW ahead, Orders(S, ahead), NEW L, L = Listed(S, ahead)
    PROVE  /\ L \in [1 .. Cardinality(S) -> S]
           /\ \A x \in S : L[Nth(ahead, x)] = x
           /\ \A i \in 1 .. Cardinality(S) : Nth(ahead, L[i]) = i
<1> DEFINE n == Cardinality(S)
           places == {<<Nth(ahead, x), x>> : x \in S}
           At(i) == (CHOOSE p \in places : p[1] = i)[2]
<1>1. L = [i \in 1 .. n |-> At(i)]
    BY DEF Listed, Nth
<1>2. ASSUME NEW i \in 1 .. n
      PROVE  At(i) \in S /\ Nth(ahead, At(i)) = i
    <2>1. PICK x \in S : Nth(ahead, x) = i
        BY TurnsTakenUp
    <2> DEFINE p == CHOOSE q \in places : q[1] = i
    <2>2. <<Nth(ahead, x), x>> \in places /\ <<Nth(ahead, x), x>>[1] = i
        BY <2>1
    <2> HIDE DEF places
    <2>3. p \in places /\ p[1] = i
        BY <2>2
    <2> HIDE DEF p
    <2>4. p[2] \in S /\ Nth(ahead, p[2]) = i
        BY <2>3 DEF places
    <2> QED BY <2>4 DEF p
<1> HIDE DEF At
<1>3. L \in [1 .. n -> S] /\ \A i \in 1 .. n : Nth(ahead, L[i]) = i
    BY <1>1, <1>2
<1>4. ASSUME NEW x \in S PROVE L[Nth(ahead, x)] = x
    <2>1. Nth(ahead, x) \in 1 .. n
        BY TurnsFit
    <2>2. L[Nth(ahead, x)] \in S /\ Nth(ahead, L[Nth(ahead, x)]) = Nth(ahead, x)
        BY <1>3, <2>1
    <2> QED BY <2>2, TurnsDiffer
<1> QED BY <1>3, <1>4

-----------------------------------------------------------------------------
(* Sides *)

\* What a finished match is in every table: both sides are of accounts, nobody is
\* on both, and one of them has won.
SoundMatch(m) ==
    /\ Players(m) \subseteq Account
    /\ SideA(m) \cap SideB(m) = {}
    /\ m.winner \in {"A", "B"}
    /\ m.sport \in Sport
    /\ m.setsA \in Int /\ m.setsB \in Int

SoundTable(table) ==
    /\ IsFiniteSet(DOMAIN table) /\ DOMAIN table \subseteq Nat
    /\ \A i \in Finished(table) : SoundMatch(table[i])

LEMMA SideIs ==
    ASSUME NEW m, SoundMatch(m), NEW u
    PROVE  /\ u \in SideA(m) => SideOf(m, u) = "A" /\ u \notin SideB(m)
           /\ u \in SideB(m) => SideOf(m, u) = "B" /\ u \notin SideA(m)
           /\ SetsDiff(m, u) \in Int
<1>1. SideA(m) \cap SideB(m) = {} /\ m.setsA \in Int /\ m.setsB \in Int
    BY DEF SoundMatch
<1>2. u \in SideA(m) => SideOf(m, u) = "A" /\ u \notin SideB(m)
    BY <1>1 DEF SideOf
<1>3. u \in SideB(m) => SideOf(m, u) = "B" /\ u \notin SideA(m)
    BY <1>1 DEF SideOf
<1>4. SetsDiff(m, u) \in Int
    BY <1>1 DEF SetsDiff
<1> QED BY <1>2, <1>3, <1>4

\* Players on opposite sides
Opposed(m, u, v) == (u \in SideA(m) /\ v \in SideB(m)) \/ (v \in SideA(m) /\ u \in SideB(m))

\* One of two opponents has won, by as many sets as the other has lost.
LEMMA OpponentsDiffer ==
    ASSUME NEW m, SoundMatch(m), NEW u, NEW v, Opposed(m, u, v)
    PROVE  /\ Outcome(m, u) = "W" <=> Outcome(m, v) # "W"
           /\ Outcome(m, u) = Mirrored(Outcome(m, v))
           /\ SetsDiff(m, u) = -SetsDiff(m, v)
<1>1. \/ SideOf(m, u) = "A" /\ SideOf(m, v) = "B"
      \/ SideOf(m, v) = "A" /\ SideOf(m, u) = "B"
    BY SideIs DEF Opposed
<1>2. m.winner \in {"A", "B"} /\ m.setsA \in Int /\ m.setsB \in Int
    BY DEF SoundMatch
<1>3. (Outcome(m, u) = "W" /\ Outcome(m, v) = "L") \/ (Outcome(m, u) = "L" /\ Outcome(m, v) = "W")
    BY <1>1, <1>2 DEF Outcome
<1>4. SetsDiff(m, u) = -SetsDiff(m, v)
    <2>1. PICK a \in Int, b \in Int : a = m.setsA /\ b = m.setsB
        BY <1>2
    <2>2. a - b = -(b - a) /\ b - a = -(a - b)
        OBVIOUS
    <2> QED BY <1>1, <2>1, <2>2 DEF SetsDiff
<1> QED BY <1>3, <1>4 DEF Mirrored

\* A player has somebody as an opponent where they are on opposite sides.
LEMMA OpponentIs ==
    ASSUME NEW m, SoundMatch(m), NEW u \in Players(m), NEW v
    PROVE  v \in OpponentsOf(m, u) <=> Opposed(m, u, v)
<1>1. u \in SideA(m) \/ u \in SideB(m)
    BY DEF Players
<1>2. CASE u \in SideA(m)
    <2>1. SideOf(m, u) = "A" /\ u \notin SideB(m)
        BY <1>2, SideIs
    <2> QED BY <1>2, <2>1 DEF OpponentsOf, Opposed
<1>3. CASE u \in SideB(m)
    <2>1. SideOf(m, u) = "B" /\ u \notin SideA(m)
        BY <1>3, SideIs
    <2> QED BY <1>3, <2>1 DEF OpponentsOf, Opposed
<1> QED BY <1>1, <1>2, <1>3

LEMMA OpposedPlay ==
    ASSUME NEW m, NEW u, NEW v, Opposed(m, u, v)
    PROVE  u \in Players(m) /\ v \in Players(m)
BY DEF Opposed, Players

\* The finished matches are finitely many.
LEMMA FinishedFinite ==
    ASSUME NEW table, SoundTable(table), NEW S, S \subseteq Finished(table)
    PROVE  IsFiniteSet(S) /\ S \subseteq Nat
BY FS_Subset DEF SoundTable, Finished

\* The matches from the newest to the oldest
Newer(S) == [i \in S |-> {j \in S : j > i}]

LEMMA NewestFirst ==
    ASSUME NEW S, IsFiniteSet(S), S \subseteq Nat
    PROVE  /\ Listed(S, Newer(S)) \in [1 .. Cardinality(S) -> S]
           /\ Len(Listed(S, Newer(S))) = Cardinality(S) /\ Cardinality(S) \in Nat
<1>1. Cardinality(S) \in Nat
    BY FS_CardinalityType
<1>2. \A i \in S : Newer(S)[i] = {j \in S : j > i}
    BY DEF Newer
<1>3. Orders(S, Newer(S))
    <2>1. \A i \in S : i \in Nat
        OBVIOUS
    <2>2. \A i, j \in S : j \in Newer(S)[i] <=> j > i
        BY <1>2
    <2>3. \A x \in S : x \notin Newer(S)[x] /\ Newer(S)[x] \subseteq S
        BY <1>2, <2>1
    <2>4. \A x, y \in S : x # y => x \in Newer(S)[y] \/ y \in Newer(S)[x]
        BY <2>1, <2>2
    <2>5. \A x, y \in S : y \in Newer(S)[x] => Newer(S)[y] \subseteq Newer(S)[x]
        <3>1. \A x, y, z \in S : y > x /\ z > y => z > x
            BY <2>1
        <3> QED BY <1>2, <2>2, <2>3, <3>1
    <2> QED BY <2>3, <2>4, <2>5 DEF Orders
<1>4. PICK L : L = Listed(S, Newer(S))
    OBVIOUS
<1>5. L \in [1 .. Cardinality(S) -> S]
    BY <1>3, <1>4, ListedIs
<1>6. Len(L) = Cardinality(S)
    BY <1>1, <1>5
<1> QED BY <1>1, <1>4, <1>5, <1>6

-----------------------------------------------------------------------------
(* Head-to-head *)

\* Matches of the table in which u and v are opponents
Duels(table, S, u, v) ==
    /\ S \subseteq Finished(table)
    /\ \A i \in S : Opposed(table[i], u, v)

Met(table, u, v, s) == InSport(table, ListH2H(table, u, v), s)

LEMMA MetIs ==
    ASSUME NEW table, SoundTable(table), NEW u, NEW v, NEW s
    PROVE  /\ Met(table, u, v, s) = Met(table, v, u, s)
           /\ Duels(table, Met(table, u, v, s), u, v)
           /\ Met(table, u, v, s)
                = {i \in Finished(table) : /\ Opposed(table[i], u, v)
                                           /\ s = None \/ table[i].sport = s}
<1>1. Met(table, u, v, s)
        = {i \in Finished(table) : Opposed(table[i], u, v) /\ (s = None \/ table[i].sport = s)}
    BY DEF Met, InSport, ListH2H, Opposed
<1>2. Met(table, v, u, s)
        = {i \in Finished(table) : Opposed(table[i], v, u) /\ (s = None \/ table[i].sport = s)}
    BY DEF Met, InSport, ListH2H, Opposed
<1>3. \A i : Opposed(table[i], u, v) <=> Opposed(table[i], v, u)
    BY DEF Opposed
<1>4. Met(table, u, v, s) = Met(table, v, u, s)
    BY <1>1, <1>2, <1>3
<1> QED BY <1>1, <1>4 DEF Duels

\* What the matches say of their results at k, the newest first
FormAt(table, S, u, k) == Outcome(table[Listed(S, Newer(S))[k]], u)

FormLine(table, S, u, n) == [k \in 1 .. n |-> FormAt(table, S, u, k)]

LEMMA FormIs ==
    ASSUME NEW table, NEW S, IsFiniteSet(S), S \subseteq Nat, NEW u
    PROVE  /\ Form(table, S, u) = FormLine(table, S, u, Least(Cardinality(S), FormLimit))
           /\ \A k \in 1 .. Least(Cardinality(S), FormLimit) : Listed(S, Newer(S))[k] \in S
<1> DEFINE n == Least(Cardinality(S), FormLimit)
<1>1. /\ Listed(S, Newer(S)) \in [1 .. Cardinality(S) -> S]
      /\ Len(Listed(S, Newer(S))) = Cardinality(S) /\ Cardinality(S) \in Nat
    BY NewestFirst
<1>2. n \in Nat /\ n <= Cardinality(S)
    BY <1>1, HistoryAssumption DEF Least
<1>3. Form(table, S, u)
        = [k \in 1 .. Least(Len(Listed(S, Newer(S))), FormLimit) |-> FormAt(table, S, u, k)]
    BY DEF Form, Newer, FormAt
<1>4. Form(table, S, u) = [k \in 1 .. n |-> FormAt(table, S, u, k)]
    BY <1>1, <1>3
<1>5. \A k \in 1 .. n : Listed(S, Newer(S))[k] \in S
    <2> HIDE DEF n
    <2>1. \A k \in 1 .. n : k \in 1 .. Cardinality(S)
        BY <1>1, <1>2
    <2> QED BY <1>1, <2>1
<1> QED BY <1>4, <1>5 DEF FormLine

MirrorImage(mine, theirs) ==
    /\ mine.wins = theirs.losses /\ mine.losses = theirs.wins
    /\ mine.setDiff = -theirs.setDiff
    /\ mine.form = [k \in DOMAIN theirs.form |-> Mirrored(theirs.form[k])]

\* Two opponents read their matches with the sides exchanged.
LEMMA SummaryMirrored ==
    ASSUME NEW table, SoundTable(table), NEW S, NEW u, NEW v, Duels(table, S, u, v)
    PROVE  MirrorImage(Summary(table, S, u), Summary(table, S, v))
<1> DEFINE mine == Summary(table, S, u)
           theirs == Summary(table, S, v)
<1>1. IsFiniteSet(S) /\ S \subseteq Nat
    BY FinishedFinite DEF Duels
<1>2. \A i \in S : SoundMatch(table[i]) /\ Opposed(table[i], u, v)
    BY DEF Duels, SoundTable
<1>3. ASSUME NEW i \in S
      PROVE  /\ Outcome(table[i], u) = "W" <=> Outcome(table[i], v) # "W"
             /\ Outcome(table[i], u) = Mirrored(Outcome(table[i], v))
             /\ SetsDiff(table[i], u) = -SetsDiff(table[i], v)
             /\ SetsDiff(table[i], v) \in Int
    BY <1>2, OpponentsDiffer, SideIs
<1>4. Won(table, S, u) = S \ Won(table, S, v) /\ Won(table, S, v) = S \ Won(table, S, u)
    BY <1>3 DEF Won
<1>5. mine.wins = theirs.losses /\ mine.losses = theirs.wins
    BY <1>4 DEF Summary
<1>6. mine.setDiff = -theirs.setDiff
    <2>1. PICK f, g : /\ f = [i \in S |-> SetsDiff(table[i], v)]
                      /\ g = [i \in S |-> SetsDiff(table[i], u)]
        OBVIOUS
    <2>2. \A i \in S : f[i] \in Int /\ g[i] = -f[i]
        BY <1>3, <2>1
    <2>3. SumOf(g, S) = -SumOf(f, S)
        BY <1>1, <2>2, SumNegated
    <2> QED BY <2>1, <2>3, Zenon DEF Summary
<1>7. mine.form = [k \in DOMAIN theirs.form |-> Mirrored(theirs.form[k])]
    <2>1. PICK n : n = Least(Cardinality(S), FormLimit)
        OBVIOUS
    <2>2. /\ Form(table, S, u) = FormLine(table, S, u, n)
          /\ Form(table, S, v) = FormLine(table, S, v, n)
          /\ \A k \in 1 .. n : Listed(S, Newer(S))[k] \in S
        BY <1>1, <2>1, FormIs
    <2>3. \A k \in 1 .. n : FormAt(table, S, u, k) = Mirrored(FormAt(table, S, v, k))
        BY <1>3, <2>2 DEF FormAt
    <2>4. Form(table, S, u) = [k \in DOMAIN Form(table, S, v) |-> Mirrored(Form(table, S, v)[k])]
        <3>1. DOMAIN Form(table, S, v) = 1 .. n
            BY <2>2 DEF FormLine
        <3>2. \A k \in 1 .. n : Form(table, S, v)[k] = FormAt(table, S, v, k)
            BY <2>2 DEF FormLine
        <3>3. [k \in 1 .. n |-> FormAt(table, S, u, k)]
                = [k \in 1 .. n |-> Mirrored(Form(table, S, v)[k])]
            BY <2>3, <3>2
        <3> QED BY <2>2, <3>1, <3>3 DEF FormLine
    <2> QED BY <2>4 DEF Summary
<1> QED BY <1>5, <1>6, <1>7 DEF MirrorImage

-----------------------------------------------------------------------------
(* Rankings *)

Outranks(p, q, z, y, x) ==
    \/ p[y] > p[x]
    \/ p[y] = p[x] /\ q[y] > q[x]
    \/ p[y] = p[x] /\ q[y] = q[x] /\ z[y] < z[x]

\* Two numbers, and a third that tells all apart, rank the elements.
LEMMA RankOrders ==
    ASSUME NEW S, NEW p, NEW q, NEW z,
           \A x \in S : p[x] \in Int /\ q[x] \in Int /\ z[x] \in Int,
           \A x, y \in S : z[x] = z[y] => x = y,
           NEW ahead, \A x \in S : ahead[x] = {y \in S : Outranks(p, q, z, y, x)}
    PROVE  Orders(S, ahead)
<1>1. \A x \in S : ~Outranks(p, q, z, x, x)
    BY DEF Outranks
<1>2. \A x, y \in S : x # y => Outranks(p, q, z, x, y) \/ Outranks(p, q, z, y, x)
    BY DEF Outranks
<1>3. \A x, y, w \in S :
          Outranks(p, q, z, w, y) /\ Outranks(p, q, z, y, x) => Outranks(p, q, z, w, x)
    BY DEF Outranks
<1> QED BY <1>1, <1>2, <1>3 DEF Orders

\* u's rivals in some matches
RivalsAll(table, S, u) == {Rival(table, S, u, v) : v \in UNION {OpponentsOf(table[i], u) : i \in S}}

LEMMA RivalIs ==
    ASSUME NEW table, SoundTable(table), NEW S, S \subseteq Finished(table),
           NEW u, NEW r \in RivalsAll(table, S, u)
    PROVE  /\ r.user \in Account /\ r = Rival(table, S, u, r.user)
           /\ r.matches \in Nat /\ r.wins \in Nat
<1>1. PICK v \in UNION {OpponentsOf(table[i], u) : i \in S} : r = Rival(table, S, u, v)
    BY DEF RivalsAll
<1>2. v \in Account
    <2>1. PICK i \in S : v \in OpponentsOf(table[i], u)
        OBVIOUS
    <2>2. Players(table[i]) \subseteq Account
        BY DEF SoundTable, SoundMatch
    <2> QED BY <2>1, <2>2 DEF OpponentsOf, Players
<1>3. PICK T : T = {i \in S : v \in OpponentsOf(table[i], u)}
    OBVIOUS
<1>4. T \subseteq Finished(table) /\ Won(table, T, u) \subseteq Finished(table)
    BY <1>3 DEF Won
<1>5. Cardinality(T) \in Nat /\ Cardinality(Won(table, T, u)) \in Nat
    BY <1>4, FinishedFinite, FS_CardinalityType
<1>6. r.user = v /\ r.matches = Cardinality(T) /\ r.wins = Cardinality(Won(table, T, u))
    BY <1>1, <1>3 DEF Rival
<1> QED BY <1>1, <1>2, <1>5, <1>6

LEMMA RivalsFinite ==
    ASSUME NEW table, SoundTable(table), NEW S, S \subseteq Finished(table), NEW u
    PROVE  IsFiniteSet(RivalsAll(table, S, u))
<1> DEFINE All == RivalsAll(table, S, u)
           f == [r \in All |-> r.user]
<1>1. \A r \in All : r.user \in Account /\ r = Rival(table, S, u, r.user)
    BY RivalIs
<1> HIDE DEF All
<1>2. f \in Injection(All, Account)
    <2>1. \A x, y \in All : x.user = y.user => x = y
        BY <1>1
    <2> QED BY <1>1, <2>1 DEF Injection, IsInjective
<1> HIDE DEF f
<1>3. IsFiniteSet(Account)
    BY HistoryAssumption
<1>4. IsFiniteSet(All)
    BY <1>2, <1>3, FS_Injection
<1> QED BY <1>4 DEF All

\* Whom the statistics list is one of them.
LEMMA RivalsListed ==
    ASSUME NEW table, SoundTable(table), NEW S, S \subseteq Finished(table), NEW u,
           NEW k \in DOMAIN Rivals(table, S, u)
    PROVE  Rivals(table, S, u)[k] \in RivalsAll(table, S, u)
<1> DEFINE All == RivalsAll(table, S, u)
           ahead == [r \in All |-> {s \in All : RivalBefore(s, r)}]
<1>1. IsFiniteSet(All) /\ Cardinality(All) \in Nat
    BY RivalsFinite, FS_CardinalityType
<1>2. \A r \in All : /\ r.user \in Account /\ r = Rival(table, S, u, r.user)
                     /\ r.matches \in Nat /\ r.wins \in Nat
    BY RivalIs
<1>3. PICK order : order = Listed(All, ahead)
    OBVIOUS
<1>4. Rivals(table, S, u) = [j \in 1 .. Least(Len(order), RivalsLimit) |-> order[j]]
    BY <1>3, Zenon DEF Rivals, RivalsAll
<1> HIDE DEF All
<1>5. Orders(All, ahead)
    <2>1. PICK p, q, z : /\ p = [r \in All |-> r.matches] /\ q = [r \in All |-> r.wins]
                         /\ z = [r \in All |-> r.user]
        OBVIOUS
    <2>2. \A x \in All : p[x] \in Int /\ q[x] \in Int /\ z[x] \in Int
        <3>1. ASSUME NEW x \in All PROVE x.matches \in Int /\ x.wins \in Int /\ x.user \in Int
            <4>1. x.user \in Account /\ x.matches \in Nat /\ x.wins \in Nat
                BY <1>2, Zenon
            <4>2. Account \subseteq Int
                BY HistoryAssumption
            <4>3. x.user \in Int
                BY <4>1, <4>2, Zenon
            <4>4. x.matches \in Int /\ x.wins \in Int
                BY <4>1
            <4> QED BY <4>3, <4>4
        <3>2. \A x \in All : p[x] = x.matches /\ q[x] = x.wins /\ z[x] = x.user
            BY <2>1
        <3> QED BY <3>1, <3>2
    <2>3. \A x, y \in All : z[x] = z[y] => x = y
        BY <1>2, <2>1
    <2>4. \A x, y \in All : RivalBefore(y, x) <=> Outranks(p, q, z, y, x)
        <3>1. \A x \in All : p[x] = x.matches /\ q[x] = x.wins /\ z[x] = x.user
            BY <2>1
        <3> QED BY <3>1, Zenon DEF RivalBefore, Outranks
    <2>5. \A x \in All : ahead[x] = {y \in All : Outranks(p, q, z, y, x)}
        BY <2>4
    <2> HIDE DEF ahead
    <2> QED BY <2>2, <2>3, <2>5, RankOrders
<1> HIDE DEF ahead
<1>6. order \in [1 .. Cardinality(All) -> All]
    BY <1>1, <1>3, <1>5, ListedIs
<1>7. Len(order) = Cardinality(All)
    BY <1>1, <1>6
<1>8. k \in 1 .. Cardinality(All) /\ Rivals(table, S, u)[k] = order[k]
    <2>1. k \in 1 .. Least(Cardinality(All), RivalsLimit) /\ Rivals(table, S, u)[k] = order[k]
        BY <1>4, <1>7
    <2> QED BY <1>1, <2>1, HistoryAssumption DEF Least
<1>9. order[k] \in All
    BY <1>6, <1>8
<1> QED BY <1>8, <1>9 DEF All

\* Two players see their matches alike.
LEMMA HeadToHeadsAgree ==
    ASSUME NEW table, SoundTable(table)
    PROVE  H2HAgrees(table, Account)
<1>1. ASSUME NEW u \in Account, NEW v \in Account, NEW s \in Sport \cup {None}
      PROVE  LET mine == HeadToHead(table, u, v, s)
                 theirs == HeadToHead(table, v, u, s)
             IN  /\ mine.wins = theirs.losses /\ mine.losses = theirs.wins
                 /\ mine.setDiff = -theirs.setDiff
                 /\ mine.form = [k \in DOMAIN theirs.form |-> Mirrored(theirs.form[k])]
                 /\ \A k \in DOMAIN UserStats(table, u, s).rivals :
                       LET r == UserStats(table, u, s).rivals[k] IN
                       r.user = v => r.matches = mine.matches /\ r.wins = mine.wins
    <2>1. PICK S : S = Met(table, u, v, s)
        OBVIOUS
    <2>2. /\ S = Met(table, v, u, s) /\ Duels(table, S, u, v)
          /\ S = {i \in Finished(table) : /\ Opposed(table[i], u, v)
                                          /\ s = None \/ table[i].sport = s}
        BY <2>1, MetIs
    <2>3. /\ HeadToHead(table, u, v, s) = Summary(table, S, u)
          /\ HeadToHead(table, v, u, s) = Summary(table, S, v)
        BY <2>1, <2>2 DEF HeadToHead, Met
    <2>4. ASSUME NEW k \in DOMAIN UserStats(table, u, s).rivals,
                 UserStats(table, u, s).rivals[k].user = v
          PROVE  /\ UserStats(table, u, s).rivals[k].matches = Summary(table, S, u).matches
                 /\ UserStats(table, u, s).rivals[k].wins = Summary(table, S, u).wins
        <3>1. PICK P : P = InSport(table, ListParticipant(table, u), s)
            OBVIOUS
        <3>2. /\ P \subseteq Finished(table)
              /\ \A i : i \in P <=> /\ i \in Finished(table) /\ u \in Players(table[i])
                                    /\ s = None \/ table[i].sport = s
            BY <3>1 DEF InSport, ListParticipant
        <3>3. UserStats(table, u, s).rivals = Rivals(table, P, u)
            BY <3>1 DEF UserStats
        <3>4. PICK r : r = Rivals(table, P, u)[k]
            OBVIOUS
        <3>5. r \in RivalsAll(table, P, u)
            BY <3>2, <3>3, <3>4, RivalsListed
        <3>6. r = Rival(table, P, u, v)
            BY <2>4, <3>2, <3>3, <3>4, <3>5, RivalIs
        <3>7. {i \in P : v \in OpponentsOf(table[i], u)} = S
            <4>1. \A i \in P : v \in OpponentsOf(table[i], u) <=> Opposed(table[i], u, v)
                BY <3>2, OpponentIs DEF SoundTable
            <4>2. \A i \in S : i \in P
                BY <2>2, <3>2, OpposedPlay
            <4> QED BY <2>2, <3>2, <4>1, <4>2
        <3>8. r.matches = Cardinality(S) /\ r.wins = Cardinality(Won(table, S, u))
            BY <3>6, <3>7 DEF Rival
        <3> QED BY <3>3, <3>4, <3>8 DEF Summary
    <2>5. /\ Summary(table, S, u).wins = Summary(table, S, v).losses
          /\ Summary(table, S, u).losses = Summary(table, S, v).wins
          /\ Summary(table, S, u).setDiff = -Summary(table, S, v).setDiff
          /\ Summary(table, S, u).form
                = [k \in DOMAIN Summary(table, S, v).form |->
                     Mirrored(Summary(table, S, v).form[k])]
        <3>1. MirrorImage(Summary(table, S, u), Summary(table, S, v))
            BY <2>2, SummaryMirrored
        <3> QED BY <3>1, Zenon DEF MirrorImage
    <2> QED BY <2>3, <2>4, <2>5
<1> QED BY <1>1 DEF H2HAgrees

-----------------------------------------------------------------------------
(* Statistics by sport *)

SportsIn(table, S) == {table[i].sport : i \in S}

\* The matches by sport, and what a row of the statistics says of each
SportOfEach(table, S) == [i \in S |-> table[i].sport]

LinesOf(table, S, u) ==
    [s \in SportsIn(table, S) |-> Summary(table, InSport(table, S, s), u)]

Column(lines, field) == [s \in DOMAIN lines |-> lines[s][field]]

LEMMA SportPart ==
    ASSUME NEW table, SoundTable(table), NEW S, S \subseteq Finished(table),
           NEW s \in SportsIn(table, S)
    PROVE  InSport(table, S, s) = PartOf(S, SportOfEach(table, S), s)
<1>1. s # None
    BY HistoryAssumption DEF SportsIn, SoundTable, SoundMatch
<1> QED BY <1>1 DEF InSport, PartOf, SportOfEach

LEMMA SportsFinite ==
    ASSUME NEW table, NEW S, IsFiniteSet(S)
    PROVE  IsFiniteSet(SportsIn(table, S))
<1> DEFINE f == [i \in S |-> table[i].sport]
<1>1. f \in Surjection(S, SportsIn(table, S))
    BY DEF Surjection, SportsIn
<1> HIDE DEF f
<1> QED BY <1>1, FS_Surjection

\* The lines of all sports add up to the whole.
LEMMA LinesAddUp ==
    ASSUME NEW table, SoundTable(table), NEW S, S \subseteq Finished(table), NEW u,
           NEW field \in {"matches", "wins", "setDiff"}
    PROVE  Summary(table, S, u)[field]
              = SumOf(Column(LinesOf(table, S, u), field), SportsIn(table, S))
<1>1. PICK T : T = SportsIn(table, S)
    OBVIOUS
<1>2. PICK k : k = SportOfEach(table, S)
    OBVIOUS
<1>3. IsFiniteSet(S) /\ IsFiniteSet(T)
    BY <1>1, FinishedFinite, SportsFinite
<1>4. \A i \in S : k[i] \in T
    BY <1>1, <1>2 DEF SportsIn, SportOfEach
<1>5. PICK c : c = Column(LinesOf(table, S, u), field)
    OBVIOUS
<1>6. \A s \in T : c[s] = Summary(table, PartOf(S, k, s), u)[field]
    <2>1. DOMAIN LinesOf(table, S, u) = T
        BY <1>1 DEF LinesOf
    <2>2. \A s \in T : LinesOf(table, S, u)[s] = Summary(table, PartOf(S, k, s), u)
        BY <1>1, <1>2, SportPart DEF LinesOf
    <2> QED BY <1>5, <2>1, <2>2 DEF Column
<1>7. CASE field = "matches"
    <2>1. SumOf(PartSizes(S, k, T), T) = Cardinality(S)
        BY <1>3, <1>4, SizeOfParts
    <2>2. PICK q : q = PartSizes(S, k, T)
        OBVIOUS
    <2>3. ASSUME NEW s \in T PROVE q[s] \in Int /\ q[s] = c[s]
        <3>1. q[s] = Cardinality(PartOf(S, k, s))
            BY <2>2 DEF PartSizes
        <3>2. PartOf(S, k, s) \subseteq Finished(table)
            BY DEF PartOf
        <3>3. Cardinality(PartOf(S, k, s)) \in Nat
            BY <3>2, FinishedFinite, FS_CardinalityType
        <3>4. c[s] = Cardinality(PartOf(S, k, s))
            BY <1>6, <1>7 DEF Summary
        <3> QED BY <3>1, <3>3, <3>4
    <2>4. SumOf(q, T) = SumOf(c, T)
        BY <1>3, <2>3, SumSame
    <2>5. Summary(table, S, u)[field] = Cardinality(S)
        BY <1>7 DEF Summary
    <2> QED BY <1>1, <1>5, <2>1, <2>2, <2>4, <2>5, Zenon
<1>8. CASE field = "wins"
    <2>1. PICK W : W = Won(table, S, u)
        OBVIOUS
    <2>2. W \subseteq S
        BY <2>1 DEF Won
    <2>3. IsFiniteSet(W) /\ \A i \in W : k[i] \in T
        BY <1>3, <1>4, <2>2, FS_Subset
    <2>4. SumOf(PartSizes(W, k, T), T) = Cardinality(W)
        BY <1>3, <2>3, SizeOfParts
    <2>5. PICK q : q = PartSizes(W, k, T)
        OBVIOUS
    <2>6. ASSUME NEW s \in T PROVE q[s] \in Int /\ q[s] = c[s]
        <3>1. q[s] = Cardinality(PartOf(W, k, s))
            BY <2>5 DEF PartSizes
        <3>2. PartOf(W, k, s) \subseteq Finished(table)
            BY <2>2 DEF PartOf
        <3>3. Cardinality(PartOf(W, k, s)) \in Nat
            BY <3>2, FinishedFinite, FS_CardinalityType
        <3>4. PartOf(W, k, s) = Won(table, PartOf(S, k, s), u)
            BY <2>1 DEF PartOf, Won
        <3>5. c[s] = Cardinality(PartOf(W, k, s))
            BY <1>6, <1>8, <3>4 DEF Summary
        <3> QED BY <3>1, <3>3, <3>5
    <2>7. SumOf(q, T) = SumOf(c, T)
        BY <1>3, <2>6, SumSame
    <2>8. Summary(table, S, u)[field] = Cardinality(W)
        BY <1>8, <2>1 DEF Summary
    <2> QED BY <1>1, <1>5, <2>4, <2>5, <2>7, <2>8, Zenon
<1>9. CASE field = "setDiff"
    <2>1. PICK f : f = [i \in S |-> SetsDiff(table[i], u)]
        OBVIOUS
    <2>2. \A i \in S : k[i] \in T /\ f[i] \in Int
        BY <1>4, <2>1, SideIs DEF SoundTable
    <2>3. PICK q : q = PartSums(f, S, k, T)
        OBVIOUS
    <2>4. SumOf(q, T) = SumOf(f, S) /\ \A s \in T : q[s] \in Int
        BY <1>3, <2>2, <2>3, SumOfParts
    <2>5. ASSUME NEW s \in T PROVE q[s] = c[s]
        <3>1. PICK V \in SUBSET S : V = PartOf(S, k, s)
            BY DEF PartOf
        <3>2. PICK g : g = [i \in V |-> SetsDiff(table[i], u)]
            OBVIOUS
        <3>3. IsFiniteSet(V) /\ \A i \in V : f[i] \in Int /\ f[i] = g[i]
            BY <1>3, <2>1, <2>2, <3>2, FS_Subset
        <3>4. SumOf(f, V) = SumOf(g, V)
            BY <3>3, SumSame
        <3>5. q[s] = SumOf(f, V)
            BY <2>3, <3>1 DEF PartSums
        <3>6. c[s] = SumOf(g, V)
            BY <1>6, <1>9, <3>1, <3>2, Zenon DEF Summary
        <3> QED BY <3>4, <3>5, <3>6
    <2>6. SumOf(q, T) = SumOf(c, T)
        BY <1>3, <2>4, <2>5, SumSame
    <2>7. Summary(table, S, u)[field] = SumOf(f, S)
        BY <1>9, <2>1, Zenon DEF Summary
    <2> QED BY <1>1, <1>5, <2>4, <2>6, <2>7, Zenon
<1> QED BY <1>7, <1>8, <1>9

LEMMA SportsAgree ==
    ASSUME NEW table, SoundTable(table)
    PROVE  SportsAddUp(table, Account)
<1>1. ASSUME NEW u \in Account
      PROVE  LET all == UserStats(table, u, None)
                 lines == DOMAIN all.bySport
             IN  /\ \A field \in {"matches", "wins", "setDiff"} :
                       all.totals[field] = SumOf([s \in lines |-> all.bySport[s][field]], lines)
                 /\ \A s \in DOMAIN all.bySport : UserStats(table, u, s).totals = all.bySport[s]
    <2>1. PICK S : S = ListParticipant(table, u)
        OBVIOUS
    <2>2. S \subseteq Finished(table)
        BY <2>1 DEF ListParticipant
    <2>3. InSport(table, S, None) = S
        BY DEF InSport
    <2>4. /\ UserStats(table, u, None).totals = Summary(table, S, u)
          /\ UserStats(table, u, None).bySport = LinesOf(table, S, u)
          /\ DOMAIN LinesOf(table, S, u) = SportsIn(table, S)
        BY <2>1, <2>3 DEF UserStats, LinesOf, SportsIn
    <2>5. \A field \in {"matches", "wins", "setDiff"} :
              Summary(table, S, u)[field]
                 = SumOf(Column(LinesOf(table, S, u), field), SportsIn(table, S))
        BY <2>2, LinesAddUp
    <2>6. ASSUME NEW s \in SportsIn(table, S)
          PROVE  UserStats(table, u, s).totals = LinesOf(table, S, u)[s]
        BY <2>1 DEF UserStats, LinesOf
    <2> QED BY <2>4, <2>5, <2>6, Zenon DEF Column
<1> QED BY <1>1 DEF SportsAddUp

-----------------------------------------------------------------------------
(* Ladders *)

\* The matches that count for a member, and the row they make
CountedOf(table, members, sport, u) ==
    {i \in InSport(table, Finished(table), sport) :
        Counts(table[i], members) /\ u \in Players(table[i])}

LadderRow(table, members, sport, u) ==
    LET T == CountedOf(table, members, sport, u) IN
    [user |-> u, matches |-> Cardinality(T),
     wins |-> Cardinality(Won(table, T, u)),
     losses |-> Cardinality(T \ Won(table, T, u)),
     setDiff |-> SumOf([i \in T |-> SetsDiff(table[i], u)], T)]

LadderRows(table, members, sport) == {LadderRow(table, members, sport, u) : u \in members}

LEMMA LadderIsListed ==
    ASSUME NEW table, NEW members, NEW sport
    PROVE  Ladder(table, members, sport)
              = Listed(LadderRows(table, members, sport),
                       [r \in LadderRows(table, members, sport) |->
                           {q \in LadderRows(table, members, sport) : StandingLess(q, r)}])
<1> DEFINE S == {i \in InSport(table, Finished(table), sport) : Counts(table[i], members)}
           Of(u) == {i \in S : u \in Players(table[i])}
           Row(u) == [user |-> u, matches |-> Cardinality(Of(u)),
                      wins |-> Cardinality(Won(table, Of(u), u)),
                      losses |-> Cardinality(Of(u) \ Won(table, Of(u), u)),
                      setDiff |-> SumOf([i \in Of(u) |-> SetsDiff(table[i], u)], Of(u))]
           rows == {Row(u) : u \in members}
<1>1. \A u : Of(u) = CountedOf(table, members, sport, u)
    BY DEF CountedOf
<1>2. Ladder(table, members, sport)
        = Listed(rows, [r \in rows |-> {q \in rows : StandingLess(q, r)}])
    BY Zenon DEF Ladder
<1> HIDE DEF Of
<1>3. \A u : Row(u) = LadderRow(table, members, sport, u)
    BY <1>1, Zenon DEF LadderRow
<1> HIDE DEF Row
<1>4. rows = LadderRows(table, members, sport)
    BY <1>3, Zenon DEF LadderRows
<1> QED BY <1>2, <1>4, Zenon

LEMMA LadderRowIs ==
    ASSUME NEW table, SoundTable(table), NEW members, members \subseteq Account, NEW sport,
           NEW u \in members
    PROVE  LET r == LadderRow(table, members, sport, u)
               T == CountedOf(table, members, sport, u)
           IN  /\ r.user = u /\ r.matches = Cardinality(T)
               /\ r.wins = Cardinality(Won(table, T, u))
               /\ r.wins \in Int /\ r.setDiff \in Int /\ r.user \in Int
<1>1. PICK T : T = CountedOf(table, members, sport, u)
    OBVIOUS
<1>2. T \subseteq Finished(table) /\ Won(table, T, u) \subseteq Finished(table)
    BY <1>1 DEF CountedOf, InSport, Won
<1>3. IsFiniteSet(T) /\ Cardinality(Won(table, T, u)) \in Nat
    BY <1>2, FinishedFinite, FS_CardinalityType
<1>4. PICK f : f = [i \in T |-> SetsDiff(table[i], u)]
    OBVIOUS
<1>5. \A i \in T : f[i] \in Int
    BY <1>2, <1>4, SideIs DEF SoundTable
<1>6. SumOf(f, T) \in Int
    BY <1>3, <1>5, SumStep
<1>7. u \in Int
    <2>1. Account \subseteq Int
        BY HistoryAssumption
    <2> QED BY <2>1
<1>8. PICK r : r = LadderRow(table, members, sport, u)
    OBVIOUS
<1>9. r = [user |-> u, matches |-> Cardinality(T), wins |-> Cardinality(Won(table, T, u)),
           losses |-> Cardinality(T \ Won(table, T, u)), setDiff |-> SumOf(f, T)]
    BY <1>1, <1>4, <1>8, Zenon DEF LadderRow
<1>10. /\ r.user = u /\ r.matches = Cardinality(T)
       /\ r.wins = Cardinality(Won(table, T, u)) /\ r.setDiff = SumOf(f, T)
    BY <1>9
<1> QED BY <1>1, <1>3, <1>6, <1>7, <1>8, <1>10

\* Every place of a ladder has the row of a member.
LEMMA LadderIs ==
    ASSUME NEW table, SoundTable(table), NEW members, members \subseteq Account, NEW sport,
           NEW k \in DOMAIN Ladder(table, members, sport)
    PROVE  \E u \in members : Ladder(table, members, sport)[k] = LadderRow(table, members, sport, u)
<1> DEFINE Row(u) == LadderRow(table, members, sport, u)
           rows == LadderRows(table, members, sport)
           ahead == [r \in rows |-> {q \in rows : StandingLess(q, r)}]
<1>1. IsFiniteSet(rows) /\ Cardinality(rows) \in Nat
    <2> DEFINE f == [u \in members |-> Row(u)]
    <2>1. f \in Surjection(members, rows)
        BY DEF Surjection, LadderRows
    <2> HIDE DEF f
    <2>2. IsFiniteSet(members)
        BY HistoryAssumption, FS_Subset
    <2> QED BY <2>1, <2>2, FS_Surjection, FS_CardinalityType
<1>2. \A r \in rows : /\ r.user \in members /\ r = Row(r.user)
                      /\ r.wins \in Int /\ r.setDiff \in Int /\ r.user \in Int
    <2>1. ASSUME NEW u \in members
          PROVE  /\ Row(u).user = u /\ Row(u).user \in Int
                 /\ Row(u).wins \in Int /\ Row(u).setDiff \in Int
        BY LadderRowIs
    <2> HIDE DEF Row
    <2>2. \A r \in rows : \E u \in members : r = Row(u)
        BY DEF LadderRows, Row
    <2> QED BY <2>1, <2>2, Zenon
<1>3. PICK L : L = Listed(rows, ahead)
    OBVIOUS
<1>4. L = Ladder(table, members, sport)
    BY <1>3, LadderIsListed
<1> HIDE DEF Row, rows
<1>5. Orders(rows, ahead)
    <2>1. PICK p, q, z : /\ p = [r \in rows |-> r.wins] /\ q = [r \in rows |-> r.setDiff]
                         /\ z = [r \in rows |-> r.user]
        OBVIOUS
    <2>2. \A x \in rows : p[x] = x.wins /\ q[x] = x.setDiff /\ z[x] = x.user
        BY <2>1
    <2>3. \A x \in rows : x.wins \in Int /\ x.setDiff \in Int /\ x.user \in Int
        BY <1>2, Zenon
    <2>4. \A x \in rows : p[x] \in Int /\ q[x] \in Int /\ z[x] \in Int
        BY <2>2, <2>3
    <2>5. \A x, y \in rows : z[x] = z[y] => x = y
        <3>1. \A x, y \in rows : x.user = y.user => x = y
            BY <1>2, Zenon
        <3> QED BY <2>2, <3>1, Zenon
    <2>6. \A x, y \in rows : StandingLess(y, x) <=> Outranks(p, q, z, y, x)
        BY <2>2, Zenon DEF StandingLess, Outranks
    <2>7. \A x \in rows : ahead[x] = {y \in rows : Outranks(p, q, z, y, x)}
        BY <2>6
    <2> HIDE DEF ahead
    <2> QED BY <2>4, <2>5, <2>7, RankOrders
<1> HIDE DEF ahead
<1>6. L \in [1 .. Cardinality(rows) -> rows]
    BY <1>1, <1>3, <1>5, ListedIs
<1>7. L[k] \in rows
    BY <1>4, <1>6
<1> QED BY <1>2, <1>4, <1>7, Zenon DEF Row

\* The matches of S whose players are all members
Within(table, S, members) == {i \in S : Players(table[i]) \subseteq members}

\* The matches against registered opponents
LEMMA CountedAre ==
    ASSUME NEW table, SoundTable(table), NEW members, members \subseteq Account,
           NEW s \in Sport, NEW u \in members
    PROVE  CountedOf(table, members, s, u)
              = Within(table, InSport(table, UNION {ListH2H(table, u, v) : v \in Account}, s),
                       members)
<1>1. ASSUME NEW i \in Finished(table)
      PROVE  (\E v \in Account : Opposed(table[i], u, v))
                <=> u \in Players(table[i]) /\ SideA(table[i]) # {} /\ SideB(table[i]) # {}
    <2>1. SoundMatch(table[i])
        BY DEF SoundTable
    <2> QED BY <2>1 DEF SoundMatch, Opposed, Players
<1>2. \A i : i \in UNION {ListH2H(table, u, v) : v \in Account}
                <=> i \in Finished(table) /\ \E v \in Account : Opposed(table[i], u, v)
    BY DEF ListH2H, Opposed
<1>3. \A i : i \in CountedOf(table, members, s, u)
                <=> /\ i \in Finished(table) /\ (s = None \/ table[i].sport = s)
                    /\ Counts(table[i], members) /\ u \in Players(table[i])
    BY DEF CountedOf, InSport
<1>4. s # None
    BY HistoryAssumption
<1> QED BY <1>1, <1>2, <1>3, <1>4 DEF InSport, Counts, CountedOf, Within

LEMMA LaddersAgree ==
    ASSUME NEW table, SoundTable(table)
    PROVE  LadderAgrees(table, Account)
<1>1. ASSUME NEW s \in Sport, NEW k \in DOMAIN Ladder(table, Account, s)
      PROVE  LET row == Ladder(table, Account, s)[k]
                 S == InSport(table, UNION {ListH2H(table, row.user, v) : v \in Account}, s)
             IN  /\ row.matches = Cardinality(S)
                 /\ row.wins = Cardinality(Won(table, S, row.user))
    <2>1. PICK u \in Account : Ladder(table, Account, s)[k] = LadderRow(table, Account, s, u)
        BY LadderIs
    <2>2. PICK row : row = Ladder(table, Account, s)[k]
        OBVIOUS
    <2>3. PICK T : T = CountedOf(table, Account, s, u)
        OBVIOUS
    <2>4. row.user = u /\ row.matches = Cardinality(T) /\ row.wins = Cardinality(Won(table, T, u))
        BY <2>1, <2>2, <2>3, LadderRowIs
    <2>5. PICK S : S = InSport(table, UNION {ListH2H(table, u, v) : v \in Account}, s)
        OBVIOUS
    <2>6. T = Within(table, S, Account)
        BY <2>3, <2>5, CountedAre
    <2>7. S \subseteq Finished(table)
        BY <2>5 DEF InSport, ListH2H
    <2>8. T = S
        BY <2>6, <2>7 DEF SoundTable, SoundMatch, Within
    <2> QED BY <2>2, <2>4, <2>5, <2>8, Zenon
<1>2. ASSUME NEW s \in Sport, NEW v \in Account, NEW k \in DOMAIN Ladder(table, Account \ {v}, s)
      PROVE  LET row == Ladder(table, Account \ {v}, s)[k]
                 S == InSport(table, UNION {ListH2H(table, row.user, w) : w \in Account}, s)
             IN  row.matches = Cardinality({i \in S : v \notin Players(table[i])})
    <2>0. PICK members : members = Account \ {v} /\ members \subseteq Account
        OBVIOUS
    <2>1. PICK u \in members : Ladder(table, members, s)[k] = LadderRow(table, members, s, u)
        BY <2>0, LadderIs
    <2>2. PICK row : row = Ladder(table, members, s)[k]
        OBVIOUS
    <2>3. PICK T : T = CountedOf(table, members, s, u)
        OBVIOUS
    <2>4. row.user = u /\ row.matches = Cardinality(T)
        BY <2>0, <2>1, <2>2, <2>3, LadderRowIs
    <2>5. PICK S : S = InSport(table, UNION {ListH2H(table, u, w) : w \in Account}, s)
        OBVIOUS
    <2>6. T = Within(table, S, members)
        BY <2>0, <2>3, <2>5, CountedAre
    <2>7. S \subseteq Finished(table)
        BY <2>5 DEF InSport, ListH2H
    <2>8. \A i \in S : Players(table[i]) \subseteq members <=> v \notin Players(table[i])
        BY <2>0, <2>7 DEF SoundTable, SoundMatch
    <2>9. T = {i \in S : v \notin Players(table[i])}
        BY <2>6, <2>8 DEF Within
    <2> QED BY <2>0, <2>2, <2>4, <2>5, <2>9, Zenon
<1> QED BY <1>1, <1>2, Zenon DEF LadderAgrees

-----------------------------------------------------------------------------
(* Tables *)

Apart(m) == SideA(m) \cap SideB(m) = {}

\* No account plays on both sides of a match, wherever accounts become guests.
SidesApart == \A i \in Finished(matches) : Apart(matches[i])

LEMMA CardsApart ==
    ASSUME NEW card \in Card
    PROVE  Apart(card)
<1>1. \A p, q \in {"a", "a2", "b", "b2"} : p # q /\ card[p] = card[q] => card[p] = None
    BY CardAssumption
<1>2. /\ card.a = card.b => card.a = None
      /\ card.a = card.b2 => card.a = None
      /\ card.a2 = card.b => card.a2 = None
      /\ card.a2 = card.b2 => card.a2 = None
    BY <1>1
<1> QED BY <1>2 DEF Apart, SideA, SideB

LEMMA ForgetApart ==
    ASSUME NEW m \in MatchRow, Apart(m), NEW u, Forget(m, u) # None
    PROVE  Apart(Forget(m, u))
<1>1. PICK n : n = Forget(m, u)
    OBVIOUS
<1>2. n = [m EXCEPT !.a = IF m.a = u THEN None ELSE m.a, !.a2 = IF m.a2 = u THEN None ELSE m.a2,
                    !.b = IF m.b = u THEN None ELSE m.b, !.b2 = IF m.b2 = u THEN None ELSE m.b2]
    BY <1>1 DEF Forget
<1>3. /\ n.a \in {m.a, None} /\ n.a2 \in {m.a2, None}
      /\ n.b \in {m.b, None} /\ n.b2 \in {m.b2, None}
    BY <1>2 DEF MatchRow
<1>4. SideA(n) \subseteq SideA(m) /\ SideB(n) \subseteq SideB(m)
    BY <1>3 DEF SideA, SideB
<1> QED BY <1>1, <1>4 DEF Apart

LEMMA SidesStayApart ==
    ASSUME IInv, SidesApart, [Next]_vars
    PROVE  SidesApart'
<1>1. matches \in Seq(MatchRow \cup {None})
    BY DEF IInv, MatchesSound
<1>2. CASE matches' = matches
    BY <1>2 DEF SidesApart, Finished
<1>3. ASSUME NEW r \in Req, Insert(r)
      PROVE  SidesApart'
    <2>1. req[r] # None /\ matches' = Append(matches, req[r].card)
        BY <1>3 DEF Insert
    <2>2. Apart(req[r].card)
        BY <2>1, CardsApart DEF IInv, RequestsSound
    <2>3. \A i \in DOMAIN matches' : \/ matches'[i] = req[r].card
                                     \/ i \in DOMAIN matches /\ matches'[i] = matches[i]
        BY <1>1, <2>1
    <2> QED BY <2>2, <2>3 DEF SidesApart, Finished
<1>4. ASSUME NEW i \in DOMAIN matches, DeleteMatch(i)
      PROVE  SidesApart'
    <2>1. matches' = [matches EXCEPT ![i] = None]
        BY <1>4 DEF DeleteMatch
    <2>2. DOMAIN matches' = DOMAIN matches
          /\ \A j \in DOMAIN matches : matches'[j] # None => matches'[j] = matches[j]
        BY <1>1, <2>1
    <2> QED BY <2>2 DEF SidesApart, Finished
<1>5. ASSUME NEW u \in Account, DeleteAccount(u)
      PROVE  SidesApart'
    <2>1. matches' = [i \in DOMAIN matches |-> Forget(matches[i], u)]
        BY <1>5 DEF DeleteAccount
    <2>2. ASSUME NEW i \in DOMAIN matches', matches'[i] # None
          PROVE  Apart(matches'[i])
        <3>1. i \in DOMAIN matches /\ matches'[i] = Forget(matches[i], u)
            BY <2>1
        <3>2. matches[i] # None
            BY <2>2, <3>1 DEF Forget
        <3>3. matches[i] \in MatchRow
            BY <1>1, <3>1, <3>2
        <3>4. Apart(matches[i])
            BY <3>1, <3>2 DEF SidesApart, Finished
        <3> QED BY <2>2, <3>1, <3>3, <3>4, ForgetApart
    <2> QED BY <2>2 DEF SidesApart, Finished
<1>6. CASE UNCHANGED vars
    BY <1>2, <1>6 DEF vars
<1>7. ASSUME NEW r \in Req,
             \/ \E card \in Card : Upload(r, card)
             \/ InsertRefused(r) \/ LockFirst(r) \/ LockSecond(r) \/ LockRefused(r)
             \/ Save(r) \/ Die(r)
      PROVE  SidesApart'
    <2>1. matches' = matches
        BY <1>7 DEF Upload, InsertRefused, LockFirst, LockSecond, LockRefused, Save, Die
    <2> QED BY <1>2, <2>1
<1> QED BY <1>3, <1>4, <1>5, <1>6, <1>7 DEF Next

\* What the views are read off is sound.
LEMMA TableIs ==
    ASSUME IInv, SidesApart
    PROVE  SoundTable(matches)
<1>1. matches \in Seq(MatchRow \cup {None})
    BY DEF IInv, MatchesSound
<1>2. PICK n \in Nat : DOMAIN matches = 1 .. n
    BY <1>1
<1>3. IsFiniteSet(DOMAIN matches) /\ DOMAIN matches \subseteq Nat
    BY <1>2, FS_Interval
<1>4. ASSUME NEW i \in Finished(matches)
      PROVE  SoundMatch(matches[i])
    <2>1. PICK m \in MatchRow : m = matches[i]
        BY <1>1 DEF Finished
    <2>2. Players(m) \subseteq Account
        BY DEF Players, SideA, SideB, MatchRow, Slot
    <2>3. SideA(m) \cap SideB(m) = {}
        BY <2>1 DEF SidesApart, Apart
    <2>4. m.winner \in {"A", "B"} /\ m.sport \in Sport /\ m.setsA \in Int /\ m.setsB \in Int
        BY DEF MatchRow
    <2> QED BY <2>1, <2>2, <2>3, <2>4 DEF SoundMatch
<1> QED BY <1>3, <1>4 DEF SoundTable

-----------------------------------------------------------------------------
(* Theorems *)

LEMMA NextKeeps ==
    ASSUME IInv, [Next]_vars
    PROVE  IInv'
<1>1. ASSUME NEW r \in Req, NEW card \in Card, Upload(r, card)
      PROVE  IInv'
    BY <1>1, UploadKeeps
<1>2. ASSUME NEW r \in Req, Insert(r)
      PROVE  IInv'
    BY <1>2, InsertKeeps
<1>3. ASSUME NEW r \in Req, InsertRefused(r)
      PROVE  IInv'
    <2>1. req[r].id = 0
        BY <1>3 DEF InsertRefused, IInv, RequestsSound
    <2>2. Unrated(r) /\ req[r] # None /\ Finish(r) /\ UNCHANGED <<live, matches, counted, rated>>
        BY <1>3, <2>1 DEF InsertRefused, Unrated
    <2> QED BY <2>2, EndKeeps
<1>4. ASSUME NEW r \in Req, LockFirst(r)
      PROVE  IInv'
    BY <1>4, LockFirstKeeps
<1>5. ASSUME NEW r \in Req, LockSecond(r)
      PROVE  IInv'
    BY <1>5, LockSecondKeeps
<1>6. ASSUME NEW r \in Req, LockRefused(r) \/ Die(r)
      PROVE  IInv'
    BY <1>6, EndKeeps DEF LockRefused, Die
<1>7. ASSUME NEW r \in Req, Save(r)
      PROVE  IInv'
    BY <1>7, SaveKeeps
<1>8. ASSUME NEW i \in DOMAIN matches, DeleteMatch(i)
      PROVE  IInv'
    BY <1>8, DeleteMatchKeeps
<1>9. ASSUME NEW u \in Account, DeleteAccount(u)
      PROVE  IInv'
    BY <1>9, DeleteAccountKeeps
<1>10. CASE UNCHANGED vars
    <2> USE <1>10 DEF vars
    <2>1. RatedExactly' /\ MatchesSound' /\ RatedSound'
        BY DEF IInv, RatedExactly, TypeOK, MatchesSound, RatedSound, Finished, Rateable
    <2>2. RequestsSound'
        BY DEF IInv, RequestsSound, Rating, ReadFirst, ReadSecond
    <2>3. LocksExclusive'
        BY DEF IInv, LocksExclusive, Locks
    <2>4. QuotaKept'
        BY DEF IInv, QuotaKept, Uploaded, Pending, Finished
    <2> QED BY <2>1, <2>2, <2>3, <2>4 DEF IInv
<1> QED BY <1>1, <1>2, <1>3, <1>4, <1>5, <1>6, <1>7, <1>8, <1>9, <1>10 DEF Next

\* The strengthened invariant holds however uploads overlap and die, and matches
\* and accounts are deleted.
THEOREM Inductive == Spec => []IInv
BY InitIInv, NextKeeps, PTL DEF Spec

\* Every rating counts exactly the matches that were rated into it, each match once
\* at most, and no match is forgotten (rateFinished, recordFinished in ratings.go).
THEOREM RatingsCorrect == Spec => []RatedExactly
<1>1. IInv => RatedExactly
    BY DEF IInv
<1> QED BY <1>1, Inductive, PTL

\* Of any number of transactions that rate one can always go on: the order of the
\* locks rules a deadlock out.
THEOREM DeadlockFree == Spec => []SomebodyGoesOn
BY SomebodyCan, Inductive, PTL

\* An account without Pro exceeds its quota by less than the uploads in flight.
THEOREM QuotaCorrect == Spec => []QuotaBounded
BY QuotaIs, Inductive, PTL

\* Statistics, head-to-head and ladders tell the same of every table that uploads,
\* deletions and deleted accounts leave behind, for any accounts and matches
\* (aggregateUserStats, aggregateHeadToHead, buildStandings): opponents see their
\* matches with the sides exchanged, the lines by sport add up to the totals, and a
\* ladder counts for everybody the matches against registered opponents.
THEOREM ViewsCorrect == Spec => []ViewsAgree
<1>1. Init => SidesApart
    BY DEF Init, SidesApart, Finished
<1>2. IInv /\ SidesApart /\ [Next]_vars => SidesApart'
    BY SidesStayApart
<1>3. IInv /\ SidesApart => ViewsAgree
    BY TableIs, HeadToHeadsAgree, SportsAgree, LaddersAgree DEF ViewsAgree
<1> QED BY <1>1, <1>2, <1>3, Inductive, PTL DEF Spec

=============================================================================
