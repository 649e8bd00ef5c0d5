------------------------- MODULE SocialNight_proofs -------------------------
(***************************************************************************)
(* Proofs about SocialNight, for any number of courts, rounds, requests    *)
(* in flight and upsets.                                                   *)
(***************************************************************************)
EXTENDS SocialNight, FiniteSetTheorems, SequenceTheorems, TLAPS

-----------------------------------------------------------------------------
(* The inductive invariant *)

\* What a request can have read: the results of some matches
Reading == {None} \cup UNION {[D -> Results] : D \in SUBSET Match}

Request ==
    [pc     : {"idle", "complete", "report", "reread", "clear", "read", "append", "count", "crown"},
     match  : Match \cup {None},
     result : Results \cup {None},
     todo   : Seq(0 .. Courts - 1),
     seen   : Reading]

Row == [status : {"READY", "PENDING_CONFIRMATION", "COMPLETED"}, result : Results \cup {None}]

\* Values of the columns; a round robin and an americano have all their rows.
Shape ==
    /\ format \in Social \cup {"ROUND_ROBIN"}
    /\ Rows \subseteq Match
    /\ fixture \in [Rows -> Row]
    /\ \A m \in Rows : fixture[m].status = "READY" <=> fixture[m].result = None
    /\ format \notin Drawn => Rows = Match
    /\ status \in {"ONGOING", "COMPLETED"}
    /\ status = "COMPLETED" => Counts(counted)
    /\ req \in [Req -> Request]
    /\ calm \in BOOLEAN

\* Of a request q: it is in flight; it has completed its match and is on its way
\* to the champion; the round it is on.
Active(q) == q.pc # "idle"
Moving(q) == q.pc \in {"read", "append", "count", "crown"}
RoundOf(q) == q.match[1]

\* What a request keeps in memory at each of its steps, whatever it meets
RequestSound(q) ==
    /\ ~Active(q) => q = Idle
    /\ Active(q) => q.match \in Rows
    /\ q.pc \in {"complete", "report"} => q.result \in Results
    /\ q.pc = "append" <=> q.todo # <<>>
    /\ q.pc = "append" => format \in Drawn /\ RoundOf(q) < LastRound
    /\ q.pc \in {"append", "crown"} => Counts(q.seen)
    /\ q.pc = "count" /\ format \in Social => Counts(q.seen)

RequestsSound == \A r \in Req : RequestSound(req[r])

Played(m) == fixture[m].status = "COMPLETED"
AllPlayed == \A m \in Rows : Played(m)

\* Two requests work on different matches and, in a night, on the same round.
Apart(p, q) ==
    Active(p) /\ Active(q) =>
        /\ p.match # q.match
        /\ format \in Social => RoundOf(p) = RoundOf(q)

Alone == \A r, s \in Req : r # s => Apart(req[r], req[s])

\* The match of a request is open until the request completes it.
OpenUntilDone(q) == Active(q) => (Moving(q) <=> Played(q.match))

\* While a request is on a round that decides about the next one, that is the last
\* there is, and untouched.
NextUntouched(q) ==
    format \in Drawn /\ Active(q) =>
        \A m \in Rows :
            /\ m[1] <= RoundOf(q) + 1
            /\ m[1] = RoundOf(q) + 1 => fixture[m].status = "READY"

\* What a request has read is how things are.
ReadingHolds(q) ==
    /\ format \in Social /\ q.pc \in {"append", "count", "crown"} =>
        RoundSettled(RoundOf(q)) /\ q.seen = ResultsNow
    /\ format \in Drawn /\ q.pc \in {"count", "crown"} =>
        RoundOf(q) = LastRound \/ InRound(RoundOf(q) + 1) # {}
    /\ q.pc = "crown" => AllPlayed /\ q.seen = ResultsNow
    /\ format \notin Social /\ q.pc = "read" => AllPlayed

CalmRequest(q) == OpenUntilDone(q) /\ NextUntouched(q) /\ ReadingHolds(q)

\* A round that is drawn from results comes after all before it are played.
RoundsFollow == format \in Drawn => \A m, k \in Rows : k[1] < m[1] => Played(k)

\* What a COMPLETED tournament has behind it
Over == status = "COMPLETED" => AllPlayed /\ InRound(LastRound) # {} /\ counted = ResultsNow

\* With all matches played, a request is on its way to name the champion.
Carried == status = "ONGOING" /\ AllPlayed => \E r \in Req : Moving(req[r])

CalmSound ==
    calm =>
        /\ Alone
        /\ \A r \in Req : CalmRequest(req[r])
        /\ RoundsFollow
        /\ Over
        /\ Carried

IInv == Shape /\ RequestsSound /\ CalmSound

-----------------------------------------------------------------------------
(* Matches, results and rounds *)

\* A match is its round and its position.
LEMMA MatchIs ==
    ASSUME NEW m \in Match
    PROVE  /\ m[1] \in 1 .. LastRound /\ m[1] \in Nat
           /\ m[2] \in 0 .. Courts - 1 /\ m[2] \in Nat
           /\ m = <<m[1], m[2]>>
BY NightAssumption DEF Match

\* A row is a match and has a result unless it is READY.
LEMMA RowIs ==
    ASSUME Shape, NEW m \in Rows
    PROVE  /\ m \in Match
           /\ fixture[m] \in Row
           /\ fixture[m].status # "READY" => fixture[m].result \in Results
BY DEF Shape, Row

\* What the matches show is a reading that a champion can be computed from.
LEMMA ResultsAre ==
    ASSUME Shape
    PROVE  ResultsNow \in Reading /\ Counts(ResultsNow)
<1> DEFINE D == {k \in Rows : fixture[k].status = "COMPLETED"}
<1>1. D \subseteq Match
    BY DEF Shape
<1>2. ResultsNow = [m \in D |-> fixture[m].result]
    BY DEF ResultsNow
<1>3. \A m \in D : fixture[m].result \in Results
    BY RowIs
<1> HIDE DEF D
<1>4. ResultsNow \in [D -> Results] /\ DOMAIN ResultsNow = D
    BY <1>2, <1>3
<1>5. ResultsNow \in Reading
    BY <1>1, <1>4 DEF Reading
<1>6. Counts(ResultsNow)
    BY <1>1, <1>4 DEF Counts
<1> QED BY <1>5, <1>6

\* Nothing remains exactly when every match is played.
LEMMA NothingRemains ==
    ASSUME Shape
    PROVE  Remaining = {} <=> AllPlayed
<1>1. \A m \in Rows : fixture[m].status # "BYE"
    BY RowIs DEF Row
<1> QED BY <1>1 DEF Remaining, AllPlayed, Played

-----------------------------------------------------------------------------
(* The plan of the next round *)

\* Each element of a finite set of numbers has its place in the order: there is
\* one for every count of elements below it.
LEMMA PlacesFilled ==
    ASSUME NEW S, S \subseteq Nat, IsFiniteSet(S),
           NEW i \in 0 .. Cardinality(S) - 1
    PROVE  \E c \in S : Cardinality({k \in S : k < c}) = i
<1> DEFINE Below(c) == {k \in S : k < c}
           Place == [c \in S |-> Cardinality(Below(c))]
           Places == 0 .. Cardinality(S) - 1
<1>1. Cardinality(S) \in Nat
    BY FS_CardinalityType
<1>2. \A c \in S : IsFiniteSet(Below(c)) /\ Cardinality(Below(c)) \in Nat
    BY FS_Subset, FS_CardinalityType
<1>3. ASSUME NEW c \in S, NEW d \in S, c < d
      PROVE  Cardinality(Below(c)) < Cardinality(Below(d))
    <2>1. Below(c) \cup {c} \subseteq Below(d)
        <3>1. c \in Nat /\ d \in Nat /\ \A k \in S : k \in Nat
            OBVIOUS
        <3>2. \A k \in S : k < c => k < d
            BY <1>3, <3>1
        <3> QED BY <1>3, <3>2
    <2>2. c \notin Below(c)
        OBVIOUS
    <2>3. IsFiniteSet(Below(c)) /\ IsFiniteSet(Below(d)) /\ Cardinality(Below(d)) \in Nat
          /\ Cardinality(Below(c)) \in Nat
        BY <1>2
    <2> HIDE DEF Below
    <2>4. /\ IsFiniteSet(Below(c) \cup {c})
          /\ Cardinality(Below(c) \cup {c}) = Cardinality(Below(c)) + 1
        BY <2>2, <2>3, FS_AddElement
    <2>5. Cardinality(Below(c) \cup {c}) <= Cardinality(Below(d))
        BY <2>1, <2>3, FS_Subset
    <2> QED BY <2>3, <2>4, <2>5
<1>4. \A c \in S : Cardinality(Below(c)) \in Places
    <2> TAKE c \in S
    <2>1. Below(c) \subseteq S \ {c}
        OBVIOUS
    <2>2. IsFiniteSet(S \ {c}) /\ Cardinality(S \ {c}) = Cardinality(S) - 1
        BY FS_RemoveElement
    <2>3. Cardinality(Below(c)) <= Cardinality(S) - 1
        BY <2>1, <2>2, FS_Subset
    <2> QED BY <1>1, <1>2, <2>3
<1>5. Place \in Injection(S, Places)
    <2>1. Place \in [S -> Places]
        BY <1>4
    <2>2. ASSUME NEW c \in S, NEW d \in S, Place[c] = Place[d]
          PROVE  c = d
        <3>1. c \in Nat /\ d \in Nat
            OBVIOUS
        <3>2. Cardinality(Below(c)) = Cardinality(Below(d))
            BY <2>2
        <3>3. c < d \/ d < c \/ c = d
            BY <3>1
        <3> HIDE DEF Below
        <3>4. Cardinality(Below(c)) \in Nat /\ Cardinality(Below(d)) \in Nat
            BY <1>2
        <3> QED BY <1>3, <3>2, <3>3, <3>4
    <2> QED BY <2>1, <2>2 DEF Injection, IsInjective
<1>6. IsFiniteSet(Places) /\ Cardinality(Places) = Cardinality(S)
    <2>1. /\ IsFiniteSet(Places)
          /\ Cardinality(Places) =
                IF 0 > Cardinality(S) - 1 THEN 0 ELSE Cardinality(S) - 1 - 0 + 1
        <3>1. 0 \in Int /\ Cardinality(S) - 1 \in Int
            BY <1>1
        <3> QED BY <3>1, FS_Interval
    <2> QED BY <1>1, <2>1
<1> HIDE DEF Place, Places
<1>7. Place \in Surjection(S, Places)
    BY <1>5, <1>6, FS_Injection
<1>8. \E c \in S : Place[c] = i
    BY <1>7 DEF Surjection, Places
<1> QED BY <1>8 DEF Place

\* A set in order lists elements of it, and all of a set that is not empty is not nothing.
LEMMA InOrderIs ==
    ASSUME NEW n \in Nat, NEW S, S \subseteq 0 .. n, S # {}
    PROVE  InOrder(S) \in Seq(0 .. n) /\ InOrder(S) # <<>>
<1>1. IsFiniteSet(S) /\ Cardinality(S) \in Nat /\ Cardinality(S) # 0
    <2>1. IsFiniteSet(0 .. n)
        BY FS_Interval
    <2>2. IsFiniteSet(S)
        BY <2>1, FS_Subset
    <2> QED BY <2>2, FS_CardinalityType, FS_EmptySet
<1>2. ASSUME NEW i \in 1 .. Cardinality(S)
      PROVE  (CHOOSE c \in S : Cardinality({k \in S : k < c}) = i - 1) \in 0 .. n
    <2>1. i - 1 \in 0 .. Cardinality(S) - 1
        BY <1>1
    <2>2. S \subseteq Nat
        OBVIOUS
    <2>3. \E c \in S : Cardinality({k \in S : k < c}) = i - 1
        BY <1>1, <2>1, <2>2, PlacesFilled
    <2> QED BY <2>3
<1>3. InOrder(S) \in [1 .. Cardinality(S) -> 0 .. n]
    BY <1>2 DEF InOrder
<1>4. InOrder(S) \in Seq(0 .. n)
    BY <1>1, <1>3
<1>5. Len(InOrder(S)) = Cardinality(S)
    BY <1>1, <1>3, <1>4
<1> QED BY <1>1, <1>4, <1>5

\* A round has courts, and at most all of them.
LEMMA RoundIs ==
    ASSUME Shape, NEW m \in Rows
    PROVE  /\ IsFiniteSet(InRound(m[1]))
           /\ Cardinality(InRound(m[1])) \in 1 .. Courts
<1> DEFINE All == {m[1]} \X (0 .. Courts - 1)
<1>1. m \in InRound(m[1]) /\ InRound(m[1]) \subseteq All
    BY RowIs, MatchIs DEF InRound
<1>2. IsFiniteSet(0 .. Courts - 1) /\ Cardinality(0 .. Courts - 1) = Courts
    <2>1. /\ IsFiniteSet(0 .. Courts - 1)
          /\ Cardinality(0 .. Courts - 1) = IF 0 > Courts - 1 THEN 0 ELSE Courts - 1 - 0 + 1
        BY NightAssumption, FS_Interval
    <2> QED BY NightAssumption, <2>1
<1>3. IsFiniteSet({m[1]}) /\ Cardinality({m[1]}) = 1
    BY FS_Singleton
<1>4. IsFiniteSet(All) /\ Cardinality(All) = 1 * Courts
    BY <1>2, <1>3, FS_Product
<1> HIDE DEF All
<1>5. IsFiniteSet(InRound(m[1])) /\ Cardinality(InRound(m[1])) <= Courts
    BY NightAssumption, <1>1, <1>4, FS_Subset
<1>6. Cardinality(InRound(m[1])) \in Nat /\ Cardinality(InRound(m[1])) # 0
    BY <1>1, <1>5, FS_CardinalityType, FS_EmptySet
<1> QED BY NightAssumption, <1>5, <1>6

\* However the courts were tied, one of the first two gets four players: court 0
\* keeps four or two, and what a court 1 that was not tied sends up makes it four.
LEMMA SomeCourtFull ==
    ASSUME NEW tied, NEW n \in Nat \ {0}, DOMAIN tied = 0 .. n - 1,
           \A c \in 0 .. n - 1 : tied[c] \in BOOLEAN
    PROVE  \E c \in DOMAIN tied : Arrivals(tied, c) >= 4
<1>1. Cardinality(DOMAIN tied) = n
    <2>1. Cardinality(0 .. n - 1) = IF 0 > n - 1 THEN 0 ELSE n - 1 - 0 + 1
        BY FS_Interval
    <2> QED BY <2>1
<1>2. 0 \in DOMAIN tied /\ (n > 1 => 1 \in DOMAIN tied)
    OBVIOUS
<1>3. CASE tied[0] \/ n = 1 \/ ~tied[1]
    <2>1. Arrivals(tied, 0) >= 4
        BY <1>1, <1>2, <1>3 DEF Arrivals
    <2> QED BY <1>2, <2>1
<1>4. CASE ~(tied[0] \/ n = 1 \/ ~tied[1])
    <2>1. Arrivals(tied, 1) >= 4
        BY <1>1, <1>2, <1>4 DEF Arrivals
    <2> QED BY <1>2, <1>4, <2>1
<1> QED BY <1>3, <1>4

\* The next round has a court, and no more than there are.
LEMMA NextCourtsAre ==
    ASSUME Shape, NEW m \in Rows, format \in Drawn
    PROVE  NextCourts(m[1]) # {} /\ NextCourts(m[1]) \subseteq 0 .. Courts - 1
<1>1. CASE format = "MEXICANO"
    BY <1>1, NightAssumption DEF NextCourts
<1>2. CASE format # "MEXICANO"
    <2> DEFINE n == Cardinality(InRound(m[1]))
               tied == TiedCourts(m[1])
    <2>1. n \in 1 .. Courts
        BY RoundIs
    <2>2. DOMAIN tied = 0 .. n - 1 /\ \A c \in 0 .. n - 1 : tied[c] \in BOOLEAN
        BY DEF TiedCourts
    <2>3. NextCourts(m[1]) = {c \in DOMAIN tied : Arrivals(tied, c) >= 4}
        BY <1>2 DEF NextCourts
    <2> HIDE DEF n, tied
    <2>4. \E c \in DOMAIN tied : Arrivals(tied, c) >= 4
        BY <2>1, <2>2, NightAssumption, SomeCourtFull
    <2>5. 0 .. n - 1 \subseteq 0 .. Courts - 1
        BY <2>1, NightAssumption
    <2> QED BY <2>2, <2>3, <2>4, <2>5
<1> QED BY <1>1, <1>2

-----------------------------------------------------------------------------
(* The first state *)

\* An idle request is sound, and does nothing for or against the rest.
LEMMA IdleIs ==
    /\ Idle \in Request
    /\ ~Active(Idle) /\ ~Moving(Idle)
    /\ RequestSound(Idle)
    /\ CalmRequest(Idle)
    /\ \A q : Apart(Idle, q) /\ Apart(q, Idle)
BY DEF Idle, Request, Reading, Active, Moving, RequestSound, CalmRequest, OpenUntilDone,
    NextUntouched, ReadingHolds, Apart

LEMMA InitIInv == Init => IInv
<1> SUFFICES ASSUME Init PROVE IInv
    OBVIOUS
<1>1. PICK D : /\ D = IF format \in Drawn THEN {k \in Match : k[1] = 1} ELSE Match
               /\ fixture = [m \in D |-> Ready]
    BY DEF Init
<1>2. Rows = D /\ D \subseteq Match /\ \A m \in D : fixture[m] = Ready
    BY <1>1 DEF Rows
<1>3. <<1, 0>> \in D
    <2>1. <<1, 0>> \in Match
        BY NightAssumption DEF Match
    <2> QED BY <1>1, <2>1
<1>4. Shape
    <2>1. fixture \in [Rows -> Row]
        BY <1>1, <1>2 DEF Row, Ready
    <2>2. req \in [Req -> Request]
        BY IdleIs DEF Init
    <2> QED BY <1>1, <1>2, <2>1, <2>2 DEF Init, Shape, Ready, Drawn, Social
<1>5. \A r \in Req : req[r] = Idle
    BY DEF Init
<1>6. RequestsSound
    BY <1>5, IdleIs DEF RequestsSound
<1>7. CalmSound
    <2>1. Alone /\ \A r \in Req : CalmRequest(req[r])
        BY <1>5, IdleIs DEF Alone
    <2>2. RoundsFollow
        <3>1. format \in Drawn => \A m \in Rows : m[1] = 1
            BY <1>1, <1>2
        <3> QED BY <3>1 DEF RoundsFollow
    <2>3. Over /\ Carried
        BY <1>2, <1>3 DEF Init, Over, Carried, AllPlayed, Played, Ready
    <2> QED BY <2>1, <2>2, <2>3 DEF CalmSound
<1> QED BY <1>4, <1>6, <1>7 DEF IInv

-----------------------------------------------------------------------------
(* Steps that write no row *)

\* A request changes while the tournament and its matches stay.
LEMMA RequestStep ==
    ASSUME IInv, UNCHANGED rows,
           NEW r \in Req, NEW x \in Request, req' = [req EXCEPT ![r] = x],
           RequestSound(x),
           calm' \in BOOLEAN,
           calm' => /\ calm
                    /\ \A s \in Req \ {r} : Apart(x, req[s])
                    /\ CalmRequest(x)
                    /\ \/ Moving(x)
                       \/ \E s \in Req \ {r} : Moving(req[s])
                       \/ ~AllPlayed
                       \/ status = "COMPLETED"
    PROVE  IInv'
<1>1. /\ req \in [Req -> Request]
      /\ req'[r] = x
      /\ \A s \in Req \ {r} : req'[s] = req[s]
    BY DEF IInv, Shape
<1>2. UNCHANGED <<format, fixture, status, counted>>
    BY DEF rows
<1>3. UNCHANGED <<Rows, Results, ResultsNow, AllPlayed>> /\ \A i : InRound(i)' = InRound(i)
    BY <1>2 DEF Rows, Results, ResultsNow, AllPlayed, Played, InRound
<1>4. Shape'
    <2>1. req' \in [Req -> Request']
        BY <1>1, <1>2, <1>3 DEF Request, Reading
    <2> QED BY <1>2, <1>3, <2>1 DEF IInv, Shape, Row, Counts
<1>5. \A q : RequestSound(q) <=> RequestSound(q)'
    BY <1>2, <1>3 DEF RequestSound, Active, RoundOf, Counts
<1>6. RequestsSound'
    BY <1>1, <1>5 DEF IInv, RequestsSound
<1>7. CalmSound'
    <2> SUFFICES ASSUME calm' PROVE CalmSound'
        BY DEF CalmSound
    <2>1. /\ Alone /\ RoundsFollow /\ Over /\ Carried
          /\ \A s \in Req : CalmRequest(req[s])
        BY DEF IInv, CalmSound
    <2>2. Alone'
        <3>1. \A p, q : Apart(p, q)' <=> Apart(p, q)
            BY <1>2 DEF Apart, Active, RoundOf
        <3>2. \A p, q : Apart(p, q) => Apart(q, p)
            BY DEF Apart
        <3> QED BY <1>1, <2>1, <3>1, <3>2 DEF Alone
    <2>3. \A s \in Req : CalmRequest(req[s])'
        <3>1. \A q : CalmRequest(q)' <=> CalmRequest(q)
            BY <1>2, <1>3 DEF CalmRequest, OpenUntilDone, NextUntouched, ReadingHolds, Active,
                Moving, Played, RoundOf, RoundSettled
        <3> QED BY <1>1, <2>1, <3>1
    <2>4. RoundsFollow' /\ Over'
        BY <1>2, <1>3, <2>1 DEF RoundsFollow, Over, Played
    <2>5. Carried'
        BY <1>1, <1>2, <1>3, <2>1 DEF Carried, Moving, IInv, Shape
    <2> QED BY <2>2, <2>3, <2>4, <2>5 DEF CalmSound
<1> QED BY <1>4, <1>6, <1>7 DEF IInv

\* The request ends, and calm only if it was not the last that is to name the champion.
LEMMA FinishStep ==
    ASSUME IInv, UNCHANGED rows, NEW r \in Req, Finish(r),
           calm' \in BOOLEAN,
           calm' => calm /\ (Moving(req[r]) => ~AllPlayed)
    PROVE  IInv'
<1>1. req' = [req EXCEPT ![r] = Idle]
    BY DEF Finish
<1>2. calm' => \/ \E s \in Req \ {r} : Moving(req[s])
               \/ ~AllPlayed
               \/ status = "COMPLETED"
    <2> SUFFICES ASSUME calm', AllPlayed, status = "ONGOING"
                 PROVE  \E s \in Req \ {r} : Moving(req[s])
        BY DEF IInv, Shape
    <2> QED BY DEF IInv, CalmSound, Carried
<1> QED BY <1>1, <1>2, IdleIs, RequestStep

LEMMA BeginKeeps ==
    ASSUME IInv, NEW r \in Req, NEW m \in Rows, NEW res \in Results \cup {None},
           NEW pc \in {"complete", "report", "reread", "clear"},
           pc \in {"complete", "report"} => res \in Results,
           fixture[m].status # "COMPLETED",
           Begin(r, pc, m, res)
    PROVE  IInv'
<1> DEFINE x == Asked(pc, m, res)
<1>1. m \in Match
    BY RowIs DEF IInv
<1>2. x \in Request
    BY <1>1 DEF Asked, Request, Reading
<1>3. RequestSound(x)
    BY DEF Asked, RequestSound, Active
<1>4. calm' \in BOOLEAN
    BY DEF Begin, IInv, Shape
<1>5. ~Played(m) /\ ~AllPlayed
    BY DEF Played, AllPlayed
<1>6. ASSUME calm'
      PROVE  calm /\ (\A s \in Req \ {r} : Apart(x, req[s])) /\ CalmRequest(x)
    <2>1. calm /\ ~Meets(m)
        BY <1>6 DEF Begin
    <2>2. \A s \in Req \ {r} : Apart(x, req[s])
        <3> TAKE s \in Req \ {r}
        <3>1. req[s] = Idle \/ (req[s].match # m /\ (format \in Social => req[s].match[1] = m[1]))
            BY <2>1 DEF Meets
        <3> QED BY <3>1, IdleIs DEF Apart, Asked, RoundOf
    <2>3. OpenUntilDone(x) /\ ReadingHolds(x)
        BY <1>5 DEF Asked, OpenUntilDone, Moving, ReadingHolds
    <2>4. NextUntouched(x)
        <3> SUFFICES ASSUME format \in Drawn, NEW k \in Rows
                     PROVE  k[1] <= m[1]
            <4>1. \A k \in Rows : k[1] \in Nat /\ m[1] \in Nat
                BY RowIs, MatchIs DEF IInv
            <4> QED BY <4>1 DEF NextUntouched, Asked, RoundOf
        <3>1. ~(m[1] < k[1])
            BY <1>5, <2>1 DEF IInv, CalmSound, RoundsFollow
        <3>2. k[1] \in Nat /\ m[1] \in Nat
            BY RowIs, MatchIs DEF IInv
        <3> QED BY <3>1, <3>2
    <2> QED BY <2>1, <2>2, <2>3, <2>4 DEF CalmRequest
<1>7. UNCHANGED rows /\ req' = [req EXCEPT ![r] = x]
    BY DEF Begin
<1> HIDE DEF x
<1> QED BY <1>2, <1>3, <1>4, <1>5, <1>6, <1>7, RequestStep

LEMMA SubmitKeeps ==
    ASSUME IInv, NEW r \in Req, NEW m \in Rows, NEW res \in Results,
           NEW pc \in {"complete", "report"}, Submit(r, m, res, pc)
    PROVE  IInv'
BY BeginKeeps DEF Submit

LEMMA ConfirmKeeps ==
    ASSUME IInv, NEW r \in Req, NEW m \in Rows,
           NEW pc \in {"reread", "clear"}, Confirm(r, m, pc)
    PROVE  IInv'
BY BeginKeeps DEF Confirm

\* What is known of a request at its step: its values, and in a calm history the rest.
LEMMA RequestIs ==
    ASSUME IInv, NEW r \in Req
    PROVE  /\ req[r] \in Request
           /\ RequestSound(req[r])
           /\ calm => CalmRequest(req[r])
           /\ Active(req[r]) => /\ req[r].match \in Rows
                                /\ req[r].match \in Match
                                /\ req[r].match[1] \in 1 .. LastRound
<1>1. req[r] \in Request /\ RequestSound(req[r]) /\ (calm => CalmRequest(req[r]))
    BY DEF IInv, Shape, RequestsSound, CalmSound
<1>2. ASSUME Active(req[r])
      PROVE  req[r].match \in Rows /\ req[r].match \in Match
    BY <1>1, <1>2, RowIs DEF RequestSound, IInv
<1> QED BY <1>1, <1>2, MatchIs

\* A request that goes on keeps its match, so it stays apart from the others.
LEMMA StaysApart ==
    ASSUME IInv, calm, NEW r \in Req, Active(req[r]), NEW x, x.match = req[r].match
    PROVE  \A s \in Req \ {r} : Apart(x, req[s])
BY DEF IInv, CalmSound, Alone, Apart, RoundOf

LEMMA RereadKeeps ==
    ASSUME IInv, NEW r \in Req, Reread(r)
    PROVE  IInv'
<1> DEFINE x == [req[r] EXCEPT !.pc = "complete", !.result = fixture[req[r].match].result]
<1>1. /\ req[r].pc = "reread" /\ Active(req[r])
      /\ fixture[req[r].match].result # None
    BY DEF Reread, Active
<1>2. /\ req[r] \in Request /\ RequestSound(req[r]) /\ (calm => CalmRequest(req[r]))
      /\ req[r].match \in Rows
    BY <1>1, RequestIs
<1>3. fixture[req[r].match].result \in Results
    BY <1>1, <1>2 DEF IInv, Shape, Row
<1>4. /\ x \in Request /\ x.pc = "complete"
      /\ x.match = req[r].match /\ x.todo = req[r].todo /\ x.result \in Results
    BY <1>2, <1>3 DEF Request
<1>5. /\ req' = [req EXCEPT ![r] = x]
      /\ UNCHANGED rows /\ UNCHANGED calm
    BY DEF Reread
<1> HIDE DEF x
<1>6. RequestSound(x)
    BY <1>1, <1>2, <1>4 DEF RequestSound, Active
<1>7. calm' \in BOOLEAN
    BY <1>5 DEF IInv, Shape
<1>8. ASSUME calm
      PROVE  CalmRequest(x) /\ ~AllPlayed /\ \A s \in Req \ {r} : Apart(x, req[s])
    <2>1. ~Played(req[r].match)
        BY <1>1, <1>2, <1>8 DEF CalmRequest, OpenUntilDone, Moving
    <2>2. CalmRequest(x)
        BY <1>1, <1>2, <1>4, <1>8, <2>1 DEF CalmRequest, OpenUntilDone, NextUntouched,
            ReadingHolds, Moving, Active, RoundOf
    <2> QED BY <1>1, <1>2, <1>4, <1>8, <2>1, <2>2, StaysApart DEF AllPlayed
<1> QED BY <1>4, <1>5, <1>6, <1>7, <1>8, RequestStep

LEMMA ReadNightKeeps ==
    ASSUME IInv, NEW r \in Req, ReadNight(r)
    PROVE  IInv'
<1>1. PICK round, plan :
        /\ round = req[r].match[1]
        /\ plan = IF Appends(round) THEN InOrder(NextCourts(round)) ELSE <<>>
        /\ req[r].pc = "read"
        /\ format \in Social
        /\ RoundSettled(round)
        /\ req' = [req EXCEPT ![r].pc = IF plan = <<>> THEN "count" ELSE "append",
                              ![r].todo = plan, ![r].seen = Standing(round)]
        /\ UNCHANGED <<rows, upsets, calm>>
    BY DEF ReadNight
<1> DEFINE x == [req[r] EXCEPT !.pc = IF plan = <<>> THEN "count" ELSE "append",
                               !.todo = plan, !.seen = ResultsNow]
<1>2. req' = [req EXCEPT ![r] = x]
    BY <1>1 DEF Standing
<1>3. /\ req[r] \in Request /\ RequestSound(req[r]) /\ (calm => CalmRequest(req[r]))
      /\ req[r].match \in Rows /\ req[r].match \in Match /\ round \in 1 .. LastRound
      /\ Active(req[r]) /\ Moving(req[r])
    BY <1>1, RequestIs DEF Active, Moving
<1>4. ResultsNow \in Reading /\ Counts(ResultsNow)
    BY ResultsAre DEF IInv
<1>5. /\ plan \in Seq(0 .. Courts - 1)
      /\ Appends(round) => plan # <<>>
      /\ plan # <<>> => Appends(round)
    <2>1. CASE Appends(round)
        <3>1. format \in Drawn
            BY <2>1 DEF Appends
        <3>2. NextCourts(round) # {} /\ NextCourts(round) \subseteq 0 .. Courts - 1
            BY <1>1, <1>3, <3>1, NextCourtsAre DEF IInv
        <3>3. Courts - 1 \in Nat
            BY NightAssumption
        <3> QED BY <1>1, <2>1, <3>2, <3>3, InOrderIs
    <2>2. CASE ~Appends(round)
        BY <1>1, <2>2
    <2> QED BY <2>1, <2>2
<1>6. /\ x \in Request /\ x.match = req[r].match /\ x.todo = plan /\ x.seen = ResultsNow
      /\ x.pc = IF plan = <<>> THEN "count" ELSE "append"
    BY <1>3, <1>4, <1>5 DEF Request
<1> HIDE DEF x
<1>7. RequestSound(x)
    <2>1. Active(x) /\ x.pc \in {"count", "append"}
        BY <1>6 DEF Active
    <2>2. x.pc = "append" => format \in Drawn /\ RoundOf(x) < LastRound
        BY <1>1, <1>5, <1>6 DEF Appends, RoundOf
    <2> QED BY <1>3, <1>4, <1>6, <2>1, <2>2 DEF RequestSound
<1>8. calm' = calm /\ calm' \in BOOLEAN
    BY <1>1 DEF IInv, Shape
<1>9. Moving(x)
    BY <1>6 DEF Moving
<1>10. ASSUME calm
       PROVE  CalmRequest(x)
    <2>1. OpenUntilDone(x) /\ NextUntouched(x)
        BY <1>3, <1>6, <1>9, <1>10 DEF CalmRequest, OpenUntilDone, NextUntouched, Active, RoundOf
    <2>2. x.pc = "count" => format \notin Drawn \/ round = LastRound \/ InRound(round + 1) # {}
        BY <1>3, <1>5, <1>6, NightAssumption DEF Appends
    <2>3. ReadingHolds(x)
        BY <1>1, <1>6, <2>2 DEF ReadingHolds, RoundOf
    <2> QED BY <2>1, <2>3 DEF CalmRequest
<1>11. calm => \A s \in Req \ {r} : Apart(x, req[s])
    BY <1>3, <1>6, StaysApart
<1>12. UNCHANGED rows
    BY <1>1
<1> QED BY <1>2, <1>6, <1>7, <1>8, <1>9, <1>10, <1>11, <1>12, RequestStep

LEMMA CountNoneKeeps ==
    ASSUME IInv, NEW r \in Req, CountNone(r)
    PROVE  IInv'
<1> DEFINE x == [req[r] EXCEPT !.pc = IF format \in Social THEN "crown" ELSE "read"]
<1>1. /\ req[r].pc = "count" /\ req' = [req EXCEPT ![r] = x]
      /\ UNCHANGED rows /\ UNCHANGED calm /\ Active(req[r]) /\ Moving(req[r])
    BY DEF CountNone, Go, Active, Moving
<1>2. AllPlayed
    BY NothingRemains DEF CountNone, IInv
<1>3. req[r] \in Request /\ RequestSound(req[r]) /\ (calm => CalmRequest(req[r]))
    BY RequestIs
<1>4. /\ x \in Request /\ x.match = req[r].match /\ x.todo = req[r].todo
      /\ x.seen = req[r].seen
      /\ x.pc = IF format \in Social THEN "crown" ELSE "read"
    BY <1>3 DEF Request
<1> HIDE DEF x
<1>5. RequestSound(x) /\ Moving(x) /\ Active(x)
    BY <1>1, <1>3, <1>4 DEF RequestSound, Active, Moving
<1>6. ASSUME calm
      PROVE  CalmRequest(x)
    BY <1>1, <1>2, <1>3, <1>4, <1>5, <1>6
        DEF CalmRequest, OpenUntilDone, NextUntouched, ReadingHolds, RoundOf
<1>7. calm => \A s \in Req \ {r} : Apart(x, req[s])
    BY <1>1, <1>4, StaysApart
<1>8. calm' \in BOOLEAN
    BY <1>1 DEF IInv, Shape
<1> QED BY <1>1, <1>4, <1>5, <1>6, <1>7, <1>8, RequestStep

LEMMA ReadRobinKeeps ==
    ASSUME IInv, NEW r \in Req, ReadRobin(r)
    PROVE  IInv'
<1> DEFINE x == [req[r] EXCEPT !.pc = "crown", !.seen = ResultsNow]
<1>1. /\ req[r].pc = "read" /\ req' = [req EXCEPT ![r] = x]
      /\ UNCHANGED rows /\ UNCHANGED calm
      /\ format \notin Social /\ Active(req[r]) /\ Moving(req[r])
    BY DEF ReadRobin, Active, Moving, Standing
<1>2. req[r] \in Request /\ RequestSound(req[r]) /\ (calm => CalmRequest(req[r]))
    BY RequestIs
<1>3. ResultsNow \in Reading /\ Counts(ResultsNow)
    BY ResultsAre DEF IInv
<1>4. /\ x \in Request /\ x.match = req[r].match /\ x.todo = req[r].todo
      /\ x.seen = ResultsNow /\ x.pc = "crown"
    BY <1>2, <1>3 DEF Request
<1> HIDE DEF x
<1>5. RequestSound(x) /\ Moving(x) /\ Active(x)
    BY <1>1, <1>2, <1>3, <1>4 DEF RequestSound, Active, Moving
<1>6. ASSUME calm
      PROVE  CalmRequest(x)
    <2>1. format \notin Drawn
        BY <1>1 DEF Social
    <2> QED BY <1>1, <1>2, <1>4, <1>5, <1>6, <2>1
        DEF CalmRequest, OpenUntilDone, NextUntouched, ReadingHolds
<1>7. calm => \A s \in Req \ {r} : Apart(x, req[s])
    BY <1>1, <1>4, StaysApart
<1>8. calm' \in BOOLEAN
    BY <1>1 DEF IInv, Shape
<1> QED BY <1>1, <1>4, <1>5, <1>6, <1>7, <1>8, RequestStep

\* The requests that end without a write, or die.
LEMMA EndKeeps ==
    ASSUME IInv, NEW r \in Req,
           RereadRefused(r) \/ ReadUnsettled(r) \/ AppendRefused(r) \/ CountSome(r) \/ Die(r)
    PROVE  IInv'
<1>1. UNCHANGED rows /\ Finish(r) /\ calm' \in BOOLEAN
    BY DEF RereadRefused, ReadUnsettled, AppendRefused, CountSome, Die, IInv, Shape
<1>2. calm' => calm /\ (Moving(req[r]) => ~AllPlayed)
    <2> SUFFICES ASSUME calm' PROVE calm /\ (Moving(req[r]) => ~AllPlayed)
        OBVIOUS
    <2>1. CASE RereadRefused(r)
        BY <2>1 DEF RereadRefused, Moving
    <2>2. CASE ReadUnsettled(r)
        <3>1. req[r].match \in Rows
            BY <2>2, RequestIs DEF ReadUnsettled, Active
        <3>2. ~AllPlayed
            BY <2>2, <3>1 DEF ReadUnsettled, RoundSettled, InRound, AllPlayed, Played
        <3> QED BY <2>2, <3>2 DEF ReadUnsettled
    <2>3. CASE AppendRefused(r)
        <3>1. calm /\ req[r].pc = "append" /\ NextRow(req[r]) \in Rows
            BY <2>3 DEF AppendRefused
        <3>2. format \in Drawn /\ NextUntouched(req[r]) /\ Active(req[r])
            BY <3>1, RequestIs DEF RequestSound, CalmRequest, Active
        <3>3. NextRow(req[r])[1] = RoundOf(req[r]) + 1
            BY DEF NextRow, RoundOf
        <3>4. fixture[NextRow(req[r])].status = "READY"
            BY <3>1, <3>2, <3>3 DEF NextUntouched
        <3> QED BY <3>1, <3>4 DEF AllPlayed, Played
    <2>4. CASE CountSome(r)
        BY <2>4, NothingRemains DEF CountSome, IInv
    <2>5. CASE Die(r)
        BY <2>5 DEF Die, Moving
    <2> QED BY <2>1, <2>2, <2>3, <2>4, <2>5
<1> QED BY <1>1, <1>2, FinishStep

-----------------------------------------------------------------------------
(* Steps that write a row *)

\* A request writes its match, which was open, and goes on only if it completed it.
LEMMA WriteStep ==
    ASSUME IInv, NEW r \in Req, NEW m, req[r].match = m,
           req[r].pc \in {"complete", "report", "clear"},
           NEW y \in Row, y.status = "READY" <=> y.result = None,
           fixture' = [fixture EXCEPT ![m] = y],
           UNCHANGED <<format, status, counted, calm>>,
           NEW x, req' = [req EXCEPT ![r] = x],
           \/ x = Idle /\ y.status # "COMPLETED"
           \/ /\ x = [req[r] EXCEPT !.pc = IF format \in Social THEN "read" ELSE "count"]
              /\ y.status = "COMPLETED"
    PROVE  IInv'
<1>1. /\ req[r] \in Request /\ RequestSound(req[r]) /\ (calm => CalmRequest(req[r]))
      /\ m \in Rows /\ m \in Match /\ Active(req[r]) /\ ~Moving(req[r])
    BY RequestIs DEF Active, Moving
<1>2. \/ x = Idle /\ y.status # "COMPLETED"
      \/ /\ x \in Request /\ x.match = m /\ x.todo = req[r].todo
         /\ x.pc = IF format \in Social THEN "read" ELSE "count"
         /\ y.status = "COMPLETED"
    BY <1>1 DEF Request
<1>3. /\ req \in [Req -> Request]
      /\ req'[r] = x
      /\ \A s \in Req \ {r} : req'[s] = req[s]
    BY DEF IInv, Shape
<1>4. /\ Rows' = Rows /\ fixture \in [Rows -> Row]
      /\ fixture'[m] = y
      /\ \A k \in Rows \ {m} : fixture'[k] = fixture[k]
    BY <1>1 DEF IInv, Shape, Rows
<1>5. Results' = Results /\ \A i : InRound(i)' = InRound(i)
    BY <1>4 DEF Results, InRound
<1>6. x \in Request /\ RequestSound(x)
    BY <1>1, <1>2, IdleIs DEF RequestSound, Active
<1>7. Shape'
    <2>1. req' \in [Req -> Request']
        BY <1>3, <1>5, <1>6 DEF Request, Reading
    <2>2. fixture' \in [Rows' -> Row']
        BY <1>1, <1>4, <1>5 DEF Row
    <2>3. \A k \in Rows' : fixture'[k].status = "READY" <=> fixture'[k].result = None
        BY <1>4 DEF IInv, Shape
    <2> QED BY <1>4, <1>5, <2>1, <2>2, <2>3 DEF IInv, Shape, Counts
<1>8. RequestsSound'
    <2>1. \A q : RequestSound(q) <=> RequestSound(q)'
        BY <1>4, <1>5 DEF RequestSound, Active, RoundOf, Counts
    <2> QED BY <1>3, <1>6, <2>1 DEF IInv, RequestsSound
<1>9. CalmSound'
    <2> SUFFICES ASSUME calm PROVE CalmSound'
        BY DEF CalmSound
    <2>1. /\ Alone /\ RoundsFollow /\ Over /\ Carried
          /\ \A s \in Req : CalmRequest(req[s]) /\ RequestSound(req[s])
        BY DEF IInv, CalmSound, RequestsSound
    <2>2. ~Played(m) /\ ~AllPlayed
        BY <1>1 DEF CalmRequest, OpenUntilDone, AllPlayed
    <2>3. \A k \in Rows : Played(k) => k # m /\ Played(k)'
        BY <1>4, <2>2 DEF Played
    <2>4. \A s \in Req \ {r} : Apart(req[r], req[s])
        BY <2>1 DEF Alone
    <2>5. Alone'
        <3>1. \A p, q : Apart(p, q)' <=> Apart(p, q)
            BY DEF Apart, Active, RoundOf
        <3>2. \A p, q : Apart(p, q) => Apart(q, p)
            BY DEF Apart
        <3>3. \A s \in Req \ {r} : Apart(x, req[s])
            BY <1>1, <1>2, <2>4, IdleIs DEF Apart, RoundOf
        <3> QED BY <1>3, <2>1, <3>1, <3>2, <3>3 DEF Alone
    <2>6. CalmRequest(x)'
        <3>1. CASE x = Idle
            BY <3>1 DEF CalmRequest, OpenUntilDone, NextUntouched, ReadingHolds, Active, Idle
        <3>2. CASE x # Idle
            <4>1. /\ x.match = m /\ y.status = "COMPLETED"
                  /\ x.pc = IF format \in Social THEN "read" ELSE "count"
                BY <1>2, <3>2
            <4>2. OpenUntilDone(x)'
                BY <1>4, <4>1 DEF OpenUntilDone, Moving, Played
            <4>3. NextUntouched(x)'
                <5> SUFFICES ASSUME format \in Drawn, NEW k \in Rows
                             PROVE  /\ k[1] <= m[1] + 1
                                    /\ k[1] = m[1] + 1 => fixture'[k].status = "READY"
                    BY <1>4, <4>1 DEF NextUntouched, RoundOf
                <5>1. /\ k[1] <= m[1] + 1
                      /\ k[1] = m[1] + 1 => fixture[k].status = "READY"
                    BY <1>1 DEF CalmRequest, NextUntouched, RoundOf
                <5>2. m[1] # m[1] + 1
                    BY <1>1, MatchIs
                <5> QED BY <1>4, <5>1, <5>2
            <4>4. ReadingHolds(x)'
                BY <4>1 DEF ReadingHolds, Drawn, Social
            <4> QED BY <4>2, <4>3, <4>4 DEF CalmRequest
        <3> QED BY <3>1, <3>2
    <2>7. ASSUME NEW s \in Req \ {r}
          PROVE  CalmRequest(req[s])'
        <3>1. CASE ~Active(req[s])
            <4>1. req'[s] = Idle
                BY <1>3, <2>1, <3>1 DEF RequestSound
            <4> QED BY <4>1 DEF CalmRequest, OpenUntilDone, NextUntouched, ReadingHolds, Active,
                Idle
        <3>2. CASE Active(req[s])
            <4>1. PICK q, k : q = req[s] /\ k = q.match
                OBVIOUS
            <4>2. /\ Active(q) /\ k # m /\ k \in Rows /\ k \in Match
                  /\ format \in Social => k[1] = m[1]
                  /\ CalmRequest(q) /\ req'[s] = q
                BY <1>1, <1>3, <2>1, <2>4, <3>2, <4>1, RequestIs DEF Apart, RoundOf
            <4>3. OpenUntilDone(q)'
                BY <1>4, <4>1, <4>2 DEF CalmRequest, OpenUntilDone, Played, Active, Moving
            <4>4. NextUntouched(q)'
                <5> SUFFICES ASSUME format \in Drawn, NEW n \in Rows
                             PROVE  /\ n[1] <= k[1] + 1
                                    /\ n[1] = k[1] + 1 => fixture'[n].status = "READY"
                    BY <1>4, <4>1 DEF NextUntouched, RoundOf
                <5>1. /\ n[1] <= k[1] + 1
                      /\ n[1] = k[1] + 1 => fixture[n].status = "READY"
                    BY <4>1, <4>2 DEF CalmRequest, NextUntouched, RoundOf
                <5>2. m[1] # k[1] + 1
                    BY <4>2, MatchIs DEF Social
                <5> QED BY <1>4, <5>1, <5>2
            <4>5. ReadingHolds(q)'
                <5>1. format \in Social => q.pc \notin {"append", "count", "crown"}
                    <6> SUFFICES ASSUME format \in Social, q.pc \in {"append", "count", "crown"}
                                 PROVE  FALSE
                        OBVIOUS
                    <6>1. RoundSettled(m[1])
                        BY <4>1, <4>2 DEF CalmRequest, ReadingHolds, RoundOf
                    <6> QED BY <1>1, <2>2, <6>1 DEF RoundSettled, InRound, Played
                <5>2. q.pc # "crown" /\ (format \notin Social => q.pc # "read")
                    BY <2>2, <4>2 DEF CalmRequest, ReadingHolds
                <5>3. format \in Drawn => format \in Social
                    BY DEF Social
                <5> QED BY <5>1, <5>2, <5>3 DEF ReadingHolds
            <4>6. CalmRequest(q)'
                BY <4>3, <4>4, <4>5 DEF CalmRequest
            <4> QED BY <4>2, <4>6 DEF CalmRequest, OpenUntilDone, NextUntouched, ReadingHolds,
                Active, Moving, RoundOf
        <3> QED BY <3>1, <3>2
    <2>8. \A s \in Req : CalmRequest(req[s])'
        <3>1. CalmRequest(req[r])'
            BY <1>3, <2>6 DEF CalmRequest, OpenUntilDone, NextUntouched, ReadingHolds,
                Active, Moving, RoundOf
        <3> QED BY <2>7, <3>1
    <2>9. RoundsFollow'
        BY <1>4, <2>1, <2>3 DEF RoundsFollow
    <2>10. Over'
        BY <2>1, <2>2 DEF Over
    <2>11. Carried'
        <3>1. CASE y.status = "COMPLETED"
            <4>1. Moving(req'[r])
                BY <1>2, <1>3, <3>1, IdleIs DEF Moving, Idle
            <4> QED BY <4>1 DEF Carried, Moving
        <3>2. CASE y.status # "COMPLETED"
            <4>1. ~AllPlayed'
                BY <1>1, <1>4, <3>2 DEF AllPlayed, Played
            <4> QED BY <4>1 DEF Carried
        <3> QED BY <3>1, <3>2
    <2> QED BY <2>5, <2>8, <2>9, <2>10, <2>11 DEF CalmSound
<1> QED BY <1>7, <1>8, <1>9 DEF IInv

LEMMA ReportMatchKeeps ==
    ASSUME IInv, NEW r \in Req, ReportMatch(r)
    PROVE  IInv'
<1>1. PICK m, y : m = req[r].match /\ y = Reported(fixture[m], req[r].result)
    OBVIOUS
<1>2. /\ req[r].pc = "report" /\ fixture' = [fixture EXCEPT ![m] = y]
      /\ req' = [req EXCEPT ![r] = Idle] /\ UNCHANGED <<format, status, counted, calm>>
    BY <1>1 DEF ReportMatch, Write, Finish
<1>3. m \in Rows /\ req[r].result \in Results
    BY <1>1, <1>2, RequestIs DEF RequestSound, Active
<1>4. fixture[m] \in Row /\ None \notin Results
    BY <1>3, RowIs, NightAssumption DEF IInv, Results
<1>5. y \in Row /\ y.status = "PENDING_CONFIRMATION" /\ y.result # None
    BY <1>1, <1>3, <1>4 DEF Reported, Row
<1> QED BY <1>1, <1>2, <1>5, WriteStep

LEMMA ClearReportKeeps ==
    ASSUME IInv, NEW r \in Req, ClearReport(r)
    PROVE  IInv'
<1>1. PICK m, y : m = req[r].match /\ y = Cleared(fixture[m])
    OBVIOUS
<1>2. /\ req[r].pc = "clear" /\ fixture' = [fixture EXCEPT ![m] = y]
      /\ req' = [req EXCEPT ![r] = Idle] /\ UNCHANGED <<format, status, counted, calm>>
    BY <1>1 DEF ClearReport, Write, Finish
<1>3. y \in Row /\ y.status = "READY" /\ y.result = None
    BY <1>1 DEF Cleared, Ready, Row
<1> QED BY <1>1, <1>2, <1>3, WriteStep

LEMMA CompleteMatchKeeps ==
    ASSUME IInv, NEW r \in Req, CompleteMatch(r)
    PROVE  IInv'
<1>1. PICK m, y, x :
        /\ m = req[r].match /\ y = Completed(fixture[m], req[r].result)
        /\ x = [req[r] EXCEPT !.pc = IF format \in Social THEN "read" ELSE "count"]
    OBVIOUS
<1>2. /\ req[r].pc = "complete" /\ fixture' = [fixture EXCEPT ![m] = y]
      /\ req' = [req EXCEPT ![r] = x] /\ UNCHANGED <<format, status, counted, calm>>
    BY <1>1 DEF CompleteMatch, Write, Go
<1>3. m \in Rows /\ req[r].result \in Results
    BY <1>1, <1>2, RequestIs DEF RequestSound, Active
<1>4. fixture[m] \in Row /\ None \notin Results
    BY <1>3, RowIs, NightAssumption DEF IInv, Results
<1>5. y \in Row /\ y.status = "COMPLETED" /\ y.result # None
    BY <1>1, <1>3, <1>4 DEF Completed, Row
<1> QED BY <1>1, <1>2, <1>5, WriteStep

\* The next round grows by a row, while every request is on the round before it.
LEMMA AppendKeeps ==
    ASSUME IInv, NEW r \in Req, AppendFixture(r)
    PROVE  IInv'
<1>1. PICK q, n, j : q = req[r] /\ n = NextRow(q) /\ j = q.match[1]
    OBVIOUS
<1> DEFINE x == [q EXCEPT !.todo = Tail(q.todo),
                          !.pc = IF Len(q.todo) = 1 THEN "count" ELSE "append"]
<1>2. /\ q.pc = "append" /\ n \notin Rows
      /\ fixture' = [m \in Rows \cup {n} |-> IF m \in Rows THEN fixture[m] ELSE Ready]
      /\ req' = [req EXCEPT ![r] = x]
      /\ UNCHANGED <<format, status, counted, calm>>
    BY <1>1 DEF AppendFixture
<1>3. /\ q \in Request /\ RequestSound(q) /\ (calm => CalmRequest(q)) /\ Active(q)
      /\ q.match \in Rows /\ q.match \in Match /\ j \in 1 .. LastRound /\ j < LastRound
      /\ format \in Drawn /\ format \in Social /\ Counts(q.seen)
    BY <1>1, <1>2, RequestIs DEF Active, RequestSound, RoundOf, Social
<1>4. /\ q.todo \in Seq(0 .. Courts - 1) /\ q.todo # <<>>
      /\ Head(q.todo) \in 0 .. Courts - 1
      /\ Tail(q.todo) \in Seq(0 .. Courts - 1)
      /\ Tail(q.todo) = <<>> <=> Len(q.todo) = 1
    <2>1. q.todo \in Seq(0 .. Courts - 1) /\ q.todo # <<>>
        BY <1>2, <1>3 DEF Request, RequestSound
    <2>2. /\ Head(q.todo) \in 0 .. Courts - 1
          /\ Tail(q.todo) \in Seq(0 .. Courts - 1)
          /\ Len(Tail(q.todo)) = Len(q.todo) - 1
        BY <2>1, HeadTailProperties
    <2>3. Len(q.todo) \in Nat /\ (Tail(q.todo) = <<>> <=> Len(Tail(q.todo)) = 0)
        BY <2>1, <2>2, EmptySeq, LenProperties
    <2> QED BY <2>1, <2>2, <2>3
<1>5. n \in Match /\ n[1] = j + 1
    <2>1. j + 1 \in 1 .. LastRound
        BY <1>3, NightAssumption
    <2> QED BY <1>1, <1>4, <2>1 DEF NextRow, Match
<1>6. /\ x \in Request /\ x.match = q.match /\ x.seen = q.seen /\ x.todo = Tail(q.todo)
      /\ x.pc = IF Tail(q.todo) = <<>> THEN "count" ELSE "append"
    BY <1>3, <1>4 DEF Request
<1> HIDE DEF x
<1>7. /\ req \in [Req -> Request]
      /\ req'[r] = x
      /\ \A s \in Req \ {r} : req'[s] = req[s]
    BY <1>2 DEF IInv, Shape
<1>8. /\ Rows' = Rows \cup {n} /\ fixture \in [Rows -> Row]
      /\ fixture'[n] = Ready
      /\ \A k \in Rows : fixture'[k] = fixture[k]
    BY <1>2 DEF IInv, Shape, Rows
<1>9. Results' = Results
    BY <1>2 DEF Results
<1>10. RequestSound(x)
    BY <1>3, <1>6 DEF RequestSound, Active, RoundOf
<1>11. Shape'
    <2>1. req' \in [Req -> Request']
        BY <1>2, <1>6, <1>7, <1>9 DEF Request, Reading
    <2>2. fixture' \in [Rows' -> Row'] /\ Rows' \subseteq Match
        <3>1. Ready \in Row
            BY DEF Ready, Row
        <3>2. \A k \in Rows' : fixture'[k] \in Row
            BY <1>8, <3>1
        <3>3. Row' = Row /\ Rows \subseteq Match
            BY <1>9 DEF Row, IInv, Shape
        <3>4. fixture' = [k \in Rows' |-> fixture'[k]]
            BY <1>2, <1>8
        <3> QED BY <1>5, <1>8, <3>2, <3>3, <3>4
    <2>3. \A k \in Rows' : fixture'[k].status = "READY" <=> fixture'[k].result = None
        BY <1>8 DEF IInv, Shape, Ready
    <2> QED BY <1>2, <1>3, <1>9, <2>1, <2>2, <2>3 DEF IInv, Shape, Counts
<1>12. RequestsSound'
    <2>1. \A p : RequestSound(p) => RequestSound(p)'
        BY <1>2, <1>8, <1>9 DEF RequestSound, Active, RoundOf, Counts
    <2> QED BY <1>7, <1>10, <2>1 DEF IInv, RequestsSound
<1>13. CalmSound'
    <2> SUFFICES ASSUME calm PROVE CalmSound'
        BY <1>2 DEF CalmSound
    <2>1. /\ Alone /\ RoundsFollow /\ Over
          /\ \A s \in Req : CalmRequest(req[s]) /\ RequestSound(req[s])
        BY DEF IInv, CalmSound, RequestsSound
    <2>2. /\ \A k \in Rows : k[1] \in Nat /\ k[1] <= j + 1
          /\ \A k \in Rows : k[1] = j + 1 => fixture[k].status = "READY"
          /\ j \in Nat /\ LastRound \in Nat
        BY <1>1, <1>3, RowIs, MatchIs, NightAssumption DEF CalmRequest, NextUntouched, RoundOf,
            IInv
    <2>3. RoundSettled(j) /\ q.seen = ResultsNow
        BY <1>1, <1>2, <1>3 DEF CalmRequest, ReadingHolds, RoundOf
    <2>4. ResultsNow' = ResultsNow
        <3>1. {k \in Rows' : fixture'[k].status = "COMPLETED"}
                = {k \in Rows : fixture[k].status = "COMPLETED"}
            BY <1>8 DEF Ready
        <3> QED BY <1>8, <3>1 DEF ResultsNow
    <2>5. RoundSettled(j)'
        <3>1. InRound(j)' = InRound(j)
            BY <1>5, <1>8, <2>2 DEF InRound
        <3>2. \A k \in InRound(j) : k \in Rows
            BY DEF InRound
        <3> QED BY <1>8, <2>3, <3>1, <3>2 DEF RoundSettled
    <2>6. n \in InRound(j + 1)'
        BY <1>5, <1>8 DEF InRound
    <2>7. Alone'
        <3>1. \A p, s : Apart(p, s)' <=> Apart(p, s)
            BY <1>2 DEF Apart, Active, RoundOf
        <3>2. \A p, s : Apart(p, s) => Apart(s, p)
            BY DEF Apart
        <3>3. \A s \in Req \ {r} : Apart(x, req[s])
            BY <1>1, <1>3, <1>6, StaysApart
        <3> QED BY <1>7, <2>1, <3>1, <3>2, <3>3 DEF Alone
    <2>8. ASSUME NEW p, Active(p), p.match \in Rows, RoundOf(p) = j, CalmRequest(p)
          PROVE  OpenUntilDone(p)' /\ NextUntouched(p)'
        <3>1. OpenUntilDone(p)'
            BY <1>8, <2>8 DEF CalmRequest, OpenUntilDone, Played, Active, Moving
        <3>2. \A k \in Rows' : k[1] <= j + 1 /\ (k[1] = j + 1 => fixture'[k].status = "READY")
            BY <1>5, <1>8, <2>2 DEF Ready
        <3> QED BY <2>8, <3>1, <3>2 DEF NextUntouched, RoundOf
    <2>9. ~(AllPlayed /\ InRound(j + 1) # {})
        BY <2>2 DEF AllPlayed, Played, InRound
    <2>10. ASSUME NEW s \in Req \ {r}
           PROVE  CalmRequest(req[s])'
        <3>1. CASE ~Active(req[s])
            <4>1. req'[s] = Idle
                BY <1>7, <2>1, <3>1 DEF RequestSound
            <4> QED BY <4>1 DEF CalmRequest, OpenUntilDone, NextUntouched, ReadingHolds, Active,
                Idle
        <3>2. CASE Active(req[s])
            <4>1. PICK p : p = req[s]
                OBVIOUS
            <4>2. /\ Active(p) /\ p.match \in Rows /\ RoundOf(p) = j
                  /\ CalmRequest(p) /\ req'[s] = p
                BY <1>1, <1>3, <1>7, <2>1, <3>2, <4>1 DEF Alone, Apart, RoundOf, RequestSound
            <4>3. p.pc # "crown"
                BY <1>3, <2>2, <2>9, <4>2 DEF CalmRequest, ReadingHolds
            <4>4. ReadingHolds(p)'
                BY <1>2, <1>3, <2>3, <2>4, <2>5, <2>6, <4>2, <4>3
                    DEF CalmRequest, ReadingHolds, RoundOf
            <4>5. CalmRequest(p)'
                BY <2>8, <4>2, <4>4 DEF CalmRequest
            <4> QED BY <4>2, <4>5 DEF CalmRequest, OpenUntilDone, NextUntouched, ReadingHolds,
                Active, Moving, RoundOf
        <3> QED BY <3>1, <3>2
    <2>11. CalmRequest(req[r])'
        <3>1. /\ Active(x) /\ Moving(x) /\ Moving(q)
              /\ x.match = q.match /\ RoundOf(x) = j /\ RoundOf(q) = j
            BY <1>1, <1>2, <1>6 DEF Active, Moving, RoundOf
        <3>2. OpenUntilDone(x)' /\ NextUntouched(x)'
            <4>1. OpenUntilDone(q)' /\ NextUntouched(q)'
                BY <1>3, <2>8, <3>1
            <4> QED BY <3>1, <4>1, <1>3 DEF OpenUntilDone, NextUntouched, RoundOf, Active, Moving,
                    Played
        <3>3. ReadingHolds(x)'
            BY <1>2, <1>3, <1>6, <2>3, <2>4, <2>5, <2>6, <3>1 DEF ReadingHolds, RoundOf
        <3>4. CalmRequest(x)'
            BY <3>2, <3>3 DEF CalmRequest
        <3> QED BY <1>7, <3>4 DEF CalmRequest, OpenUntilDone, NextUntouched, ReadingHolds,
                Active, Moving, RoundOf
    <2>12. RoundsFollow'
        <3> SUFFICES ASSUME NEW m \in Rows', NEW k \in Rows', k[1] < m[1]
                     PROVE  Played(k)'
            BY DEF RoundsFollow
        <3>1. k # n
            BY <1>5, <1>8, <2>2
        <3>2. k \in Rows /\ k[1] <= j
            BY <1>5, <1>8, <2>2, <3>1
        <3>3. Played(k)
            <4>1. CASE k[1] = j
                BY <2>3, <3>2, <4>1 DEF RoundSettled, InRound, Played
            <4>2. CASE k[1] < j
                BY <1>1, <1>3, <2>1, <3>2, <4>2 DEF RoundsFollow
            <4> QED BY <2>2, <3>2, <4>1, <4>2
        <3> QED BY <1>8, <3>2, <3>3 DEF Played
    <2>13. Over'
        <3>1. ~(AllPlayed /\ InRound(LastRound) # {})
            BY <1>3, <2>2 DEF AllPlayed, Played, InRound
        <3> QED BY <1>2, <2>1, <3>1 DEF Over
    <2>14. Carried'
        BY <1>8 DEF Carried, AllPlayed, Played, Ready
    <2> QED BY <2>7, <2>10, <2>11, <2>12, <2>13, <2>14 DEF CalmSound
<1> QED BY <1>11, <1>12, <1>13 DEF IInv

\* The champion is named from a reading that holds, after the last round.
LEMMA SetChampionKeeps ==
    ASSUME IInv, NEW r \in Req, SetChampion(r)
    PROVE  IInv'
<1>1. /\ req[r].pc = "crown" /\ counted' = req[r].seen /\ status' = "COMPLETED"
      /\ req' = [req EXCEPT ![r] = Idle] /\ UNCHANGED <<format, fixture, calm>>
    BY DEF SetChampion, Finish
<1>2. /\ RequestSound(req[r]) /\ (calm => CalmRequest(req[r])) /\ Active(req[r])
      /\ req[r].match \in Rows /\ req[r].match \in Match /\ req[r].match[1] \in 1 .. LastRound
    BY <1>1, RequestIs DEF Active
<1>3. /\ req \in [Req -> Request]
      /\ req'[r] = Idle
      /\ \A s \in Req \ {r} : req'[s] = req[s]
    BY <1>1 DEF IInv, Shape
<1>4. UNCHANGED <<Rows, Results, ResultsNow, AllPlayed>> /\ \A i : InRound(i)' = InRound(i)
    BY <1>1 DEF Rows, Results, ResultsNow, AllPlayed, Played, InRound
<1>5. Counts(req[r].seen)
    BY <1>1, <1>2 DEF RequestSound
<1>6. Shape'
    <2>1. req' \in [Req -> Request']
        BY <1>1, <1>3, <1>4, IdleIs DEF Request, Reading
    <2> QED BY <1>1, <1>4, <1>5, <2>1 DEF IInv, Shape, Row, Counts
<1>7. RequestsSound'
    <2>1. \A q : RequestSound(q) <=> RequestSound(q)'
        BY <1>1, <1>4 DEF RequestSound, Active, RoundOf, Counts
    <2> QED BY <1>3, <2>1, IdleIs DEF IInv, RequestsSound
<1>8. CalmSound'
    <2> SUFFICES ASSUME calm PROVE CalmSound'
        BY <1>1 DEF CalmSound
    <2>1. Alone /\ RoundsFollow /\ \A s \in Req : CalmRequest(req[s])
        BY DEF IInv, CalmSound
    <2>2. AllPlayed /\ req[r].seen = ResultsNow
        BY <1>1, <2>1 DEF CalmRequest, ReadingHolds
    <2>3. InRound(LastRound) # {}
        <3>1. CASE format \notin Drawn
            <4>1. <<LastRound, 0>> \in Match
                BY NightAssumption DEF Match
            <4> QED BY <3>1, <4>1 DEF IInv, Shape, InRound
        <3>2. CASE format \in Drawn
            <4>1. RoundOf(req[r]) = LastRound \/ InRound(RoundOf(req[r]) + 1) # {}
                BY <1>1, <2>1, <3>2 DEF CalmRequest, ReadingHolds
            <4>2. InRound(RoundOf(req[r]) + 1) = {}
                BY <1>2, <2>1, <2>2, <3>2 DEF CalmRequest, NextUntouched, AllPlayed, Played,
                    InRound
            <4> QED BY <1>2, <4>1, <4>2 DEF InRound, RoundOf
        <3> QED BY <3>1, <3>2
    <2>4. Alone'
        <3>1. \A p, q : Apart(p, q)' <=> Apart(p, q)
            BY <1>1 DEF Apart, Active, RoundOf
        <3> QED BY <1>3, <2>1, <3>1, IdleIs DEF Alone
    <2>5. \A s \in Req : CalmRequest(req[s])'
        <3>1. \A q : CalmRequest(q)' <=> CalmRequest(q)
            BY <1>1, <1>4 DEF CalmRequest, OpenUntilDone, NextUntouched, ReadingHolds, Active,
                Moving, Played, RoundOf, RoundSettled
        <3> QED BY <1>3, <2>1, <3>1, IdleIs
    <2>6. RoundsFollow'
        BY <1>1, <1>4, <2>1 DEF RoundsFollow, Played
    <2>7. Over'
        BY <1>1, <1>4, <2>2, <2>3 DEF Over
    <2>8. Carried'
        BY <1>1 DEF Carried
    <2> QED BY <2>4, <2>5, <2>6, <2>7, <2>8 DEF CalmSound
<1> QED BY <1>6, <1>7, <1>8 DEF IInv

-----------------------------------------------------------------------------
(* The theorems *)

LEMMA NextKeeps ==
    ASSUME IInv, [Next]_vars
    PROVE  IInv'
<1>1. CASE Next
    <2> PICK r \in Req :
            \/ \E m \in Rows, res \in Results, pc \in {"complete", "report"} : Submit(r, m, res, pc)
            \/ \E m \in Rows, pc \in {"reread", "clear"} : Confirm(r, m, pc)
            \/ ReportMatch(r) \/ ClearReport(r) \/ CompleteMatch(r)
            \/ Reread(r) \/ ReadNight(r) \/ CountNone(r) \/ ReadRobin(r)
            \/ RereadRefused(r) \/ ReadUnsettled(r) \/ AppendRefused(r) \/ CountSome(r) \/ Die(r)
            \/ AppendFixture(r) \/ SetChampion(r)
        BY <1>1 DEF Next
    <2>1. CASE \E m \in Rows, res \in Results, pc \in {"complete", "report"} :
                    Submit(r, m, res, pc)
        BY <2>1, SubmitKeeps
    <2>2. CASE \E m \in Rows, pc \in {"reread", "clear"} : Confirm(r, m, pc)
        BY <2>2, ConfirmKeeps
    <2>3. CASE ReportMatch(r) \/ ClearReport(r) \/ CompleteMatch(r)
        BY <2>3, ReportMatchKeeps, ClearReportKeeps, CompleteMatchKeeps
    <2>4. CASE Reread(r) \/ ReadNight(r) \/ CountNone(r) \/ ReadRobin(r)
        BY <2>4, RereadKeeps, ReadNightKeeps, CountNoneKeeps, ReadRobinKeeps
    <2>5. CASE RereadRefused(r) \/ ReadUnsettled(r) \/ AppendRefused(r) \/ CountSome(r) \/ Die(r)
        BY <2>5, EndKeeps
    <2>6. CASE AppendFixture(r) \/ SetChampion(r)
        BY <2>6, AppendKeeps, SetChampionKeeps
    <2> QED BY <2>1, <2>2, <2>3, <2>4, <2>5, <2>6
<1>2. CASE UNCHANGED vars
    <2>1. UNCHANGED <<format, fixture, status, counted, req, calm>>
        BY <1>2 DEF vars
    <2> QED BY <2>1 DEF IInv, Shape, Row, Rows, Results, Request, Reading, RequestsSound,
            RequestSound, Counts, CalmSound, Alone, Apart, CalmRequest, OpenUntilDone,
            NextUntouched, ReadingHolds, RoundSettled, InRound, ResultsNow, RoundsFollow, Over,
            Carried, AllPlayed, Played, Active, Moving, RoundOf
<1> QED BY <1>1, <1>2

\* The values of rows and requests stay in their columns, and in a history where no
\* two requests meet and none dies on its way, what a request has read still holds.
THEOREM Inductive == Spec => []IInv
BY InitIInv, NextKeeps, PTL DEF Spec

\* A round drawn from results follows a played one, and a tournament is COMPLETED
\* only after its last round.
THEOREM RoundsCorrect == Spec => []RoundsInOrder
<1>1. IInv => RoundsInOrder
    <2> SUFFICES ASSUME IInv PROVE RoundsInOrder
        OBVIOUS
    <2>1. TypeOK
        <3>1. \A m \in Rows : fixture[m] \in Fixture
            BY RowIs DEF IInv, Row, Fixture, Results
        <3>2. \A r \in Req :
                /\ req[r].pc \in {"idle", "complete", "report", "reread", "clear", "read",
                                   "append", "count", "crown"}
                /\ req[r] # Idle => req[r].match \in Rows
                /\ req[r].pc \in {"append", "crown"} => Counts(req[r].seen)
                /\ req[r].pc = "append" <=> req[r].todo # <<>>
            <4> TAKE r \in Req
            <4>1. req[r] \in Request /\ RequestSound(req[r])
                BY RequestIs
            <4> QED BY <4>1 DEF Request, RequestSound
        <3> QED BY <3>1, <3>2 DEF TypeOK, IInv, Shape
    <2>2. calm /\ format \in Drawn =>
            \A m \in Rows : m[1] > 1 => \A k \in InRound(m[1] - 1) : fixture[k].status = "COMPLETED"
        <3> SUFFICES ASSUME calm, format \in Drawn, NEW m \in Rows, NEW k \in InRound(m[1] - 1)
                     PROVE  fixture[k].status = "COMPLETED"
            OBVIOUS
        <3>1. k \in Rows /\ k[1] < m[1]
            BY RowIs, MatchIs DEF InRound, IInv
        <3> QED BY <3>1 DEF IInv, CalmSound, RoundsFollow, Played
    <2>3. calm /\ status = "COMPLETED" =>
            (\A m \in Rows : fixture[m].status = "COMPLETED") /\ InRound(LastRound) # {}
        BY DEF IInv, CalmSound, Over, AllPlayed, Played
    <2> QED BY <2>1, <2>2, <2>3 DEF RoundsInOrder
<1> QED BY <1>1, Inductive, PTL

\* A night that is not over has a match to play or to confirm, or a request on its way.
THEOREM NightGoesOn == Spec => []NightAlive
<1>1. IInv => NightAlive
    <2> SUFFICES ASSUME IInv, calm, status = "ONGOING",
                        ~ \E m \in Rows : fixture[m].status \in {"READY", "PENDING_CONFIRMATION"}
                 PROVE  \E r \in Req : req[r] # Idle
        BY DEF NightAlive
    <2>1. AllPlayed
        BY RowIs DEF IInv, Row, AllPlayed, Played
    <2>2. \E r \in Req : Moving(req[r])
        BY <2>1 DEF IInv, CalmSound, Carried
    <2> QED BY <2>2, IdleIs
<1> QED BY <1>1, Inductive, PTL

\* The champion of a COMPLETED tournament is computed from the results of all matches.
THEOREM ChampionCorrect == Spec => []ChampionCounted
<1>1. IInv => ChampionCounted
    BY DEF IInv, CalmSound, Over, ChampionCounted
<1> QED BY <1>1, Inductive, PTL
=============================================================================
