--------------------------- MODULE Accounts_proofs ---------------------------
(***************************************************************************)
(* Proofs about Accounts, for any accounts, identities, tokens and         *)
(* requests in flight.                                                     *)
(*                                                                         *)
(* Core says what a request knows at each of its steps: that the token it  *)
(* consumed is not free, is revoked once the request has revoked it, and   *)
(* is its account's, so that the account's end is its end too; and that a  *)
(* token just issued is nobody's until the answer arrives.  On top of it   *)
(* three counts are kept: of the successors of a token, of the requests    *)
(* that may still issue one, and of the backfills that may still come.     *)
(***************************************************************************)
EXTENDS Accounts, FiniteSetTheorems, TLAPS

\* Sign-in
UsersSound ==
    /\ \A a \in Account : Live(a) =>
          \E l \in Login : \A m \in Login : identities[m] = a <=> m = l
    /\ \A l \in Login : identities[l] # None => Live(identities[l])
    /\ \A a, b \in Account : Live(a) /\ Live(b) /\ a # b /\ users[a].email # None =>
                                users[a].email # users[b].email

\* A token has its account until it is dropped, and a successor only once it is
\* good no more.
TokenSound(t) ==
    /\ IF tokens[t].state \in {"open", "revoked"}
       THEN tokens[t].user \in Account /\ Live(tokens[t].user)
       ELSE tokens[t].user = None
    /\ tokens[t].state = "free" => t \notin held /\ parent[t] = None
    /\ parent[t] # None => tokens[parent[t]].state \in {"revoked", "dropped"}

TokensSound == \A t \in Token : TokenSound(t)

\* What a request knows at each of its steps
RequestSound(q) ==
    /\ q.at = "create" => q.login \in Login
    /\ q.at \in {"backfill", "revoke", "user", "issue"} =>
          q.user \in Account /\ users[q.user].state # "free"
    /\ q.at \in {"idle", "create", "backfill"} => q.old = None
    /\ q.at \in {"revoke", "user"} => q.old # None
    /\ q.new # None <=> q.at = "answer"
    /\ q.old # None => tokens[q.old].state # "free"
    /\ q.old # None /\ q.new = None /\ tokens[q.old].state \in {"open", "revoked"} =>
          tokens[q.old].user = q.user
    /\ Spent(q) => tokens[q.old].state \in {"revoked", "dropped"}
    /\ q.new # None => q.new \notin held /\ tokens[q.new].state \in {"open", "dropped"}

RequestsSound == \A r \in Req : RequestSound(req[r])

\* A token that has been issued and not been answered is known to its request only.
NewsApart ==
    \A r, p \in Req : req[r].new # None =>
        req[p].old # req[r].new /\ (p # r => req[p].new # req[r].new)

Core == TypeOK /\ UsersSound /\ TokensSound /\ RequestsSound /\ NewsApart

\* The successors of a token, and those that may still come
HeirsCounted(t) == Cardinality(Heirs(t)) + Cardinality(Consuming(t)) <= Cardinality(Req)

\* A client that keeps a revoked token waits for its successor, or has lost it.
HeldTold(t) ==
    t \in held /\ tokens[t].state = "revoked" =>
        t \in lost \/ \E r \in Req : Spent(req[r]) /\ req[r].old = t

\* The names overwritten so far, and the backfills that may overwrite another
NamesCounted(a) ==
    IF Live(a) /\ users[a].name # None
    THEN overwritten[a] + Cardinality(Backfilling(a)) <= Cardinality(Req)
    ELSE overwritten[a] = 0 /\ users[a].name = None

Counts ==
    /\ \A t \in Token : HeirsCounted(t) /\ HeldTold(t)
    /\ \A a \in Account : NamesCounted(a)

IInv == Core /\ Counts

-----------------------------------------------------------------------------
(* Core *)

\* What a request knows does not change behind its back: its tokens stay, are
\* revoked or dropped, and nobody else gets to know the one it issued.
LEMMA RequestFrame ==
    ASSUME NEW p \in Req, RequestSound(req[p]), req'[p] = req[p],
           \A b \in Account : users[b].state # "free" => users'[b].state # "free",
           req[p].old # None =>
               \/ tokens'[req[p].old] = tokens[req[p].old]
               \/ /\ tokens'[req[p].old].user = tokens[req[p].old].user
                  /\ tokens[req[p].old].state = "open" /\ tokens'[req[p].old].state = "revoked"
               \/ tokens'[req[p].old].state = "dropped",
           req[p].new # None =>
               /\ tokens'[req[p].new] = tokens[req[p].new] \/ tokens'[req[p].new].state = "dropped"
               /\ req[p].new \notin held'
    PROVE  RequestSound(req[p])'
BY DEF RequestSound, Spent

LEMMA InitIInv ==
    ASSUME Init
    PROVE  IInv
<1> USE DEF Init
<1>1. Idle \in Request
    BY DEF Idle, Request
<1>2. TypeOK
    BY <1>1, AccountsAssumption DEF TypeOK, UserRow, TokenRow, Name
<1>3. \A a \in Account : ~Live(a)
    BY DEF Live
<1>4. UsersSound
    BY <1>3 DEF UsersSound
<1>5. TokensSound
    BY DEF TokensSound, TokenSound
<1>6. RequestsSound /\ NewsApart
    BY DEF RequestsSound, RequestSound, Spent, NewsApart, Idle
<1>7. ASSUME NEW t \in Token
      PROVE  HeirsCounted(t) /\ HeldTold(t)
    <2>1. t # None
        BY AccountsAssumption
    <2>2. Heirs(t) = {} /\ Consuming(t) = {}
        BY <2>1 DEF Heirs, Consuming, Idle
    <2>3. Cardinality({}) = 0 /\ Cardinality(Req) \in Nat
        BY FS_EmptySet, FS_CardinalityType, AccountsAssumption
    <2>4. HeirsCounted(t)
        BY <2>2, <2>3 DEF HeirsCounted
    <2> QED BY <2>4 DEF HeldTold
<1>8. \A a \in Account : NamesCounted(a)
    BY <1>3 DEF NamesCounted
<1> QED BY <1>2, <1>4, <1>5, <1>6, <1>7, <1>8 DEF IInv, Core, Counts

\* The request r does q next, and the others what they did.
LEMMA NextRequest ==
    ASSUME TypeOK, NEW r \in Req, NEW q, req' = [req EXCEPT ![r] = q]
    PROVE  /\ req'[r] = q /\ \A p \in Req : p # r => req'[p] = req[p]
           /\ q \in Request => req' \in [Req -> Request]
BY DEF TypeOK

LEMMA IdleIs ==
    /\ Idle \in Request /\ Idle.at = "idle" /\ Idle.old = None /\ Idle.new = None
    /\ Idle.user = None
BY DEF Idle, Request

\* A step of a request that leaves the tables
LEMMA AdvanceKeeps ==
    ASSUME Core, NEW r \in Req, NEW q \in Request, req' = [req EXCEPT ![r] = q],
           UNCHANGED <<rows, held, parent>>, lost' \subseteq Token,
           overwritten' \in [Account -> Nat],
           RequestSound(q), q.new = None, q.old # None => q.old = req[r].old \/ q.old \in held
    PROVE  Core'
<1>1. /\ req'[r] = q /\ \A p \in Req : p # r => req'[p] = req[p]
      /\ req' \in [Req -> Request]
    BY NextRequest DEF Core
<1>2. TypeOK'
    BY <1>1 DEF Core, TypeOK, rows
<1>3. UsersSound' /\ TokensSound'
    BY DEF Core, UsersSound, TokensSound, TokenSound, Live, rows
<1>4. RequestsSound'
    <2>1. RequestSound(req[r])'
        BY <1>1 DEF RequestSound, Spent, rows
    <2>2. ASSUME NEW p \in Req, p # r
          PROVE  RequestSound(req[p])'
        <3>1. RequestSound(req[p])
            BY DEF Core, RequestsSound
        <3> QED BY <1>1, <2>2, <3>1, RequestFrame DEF Core, RequestsSound, RequestSound, rows
    <2> QED BY <2>1, <2>2 DEF RequestsSound
<1>5. NewsApart'
    <2> SUFFICES ASSUME NEW o \in Req, NEW p \in Req, req'[o].new # None
                 PROVE  req'[p].old # req'[o].new /\ (p # o => req'[p].new # req'[o].new)
        BY DEF NewsApart
    <2>1. o # r /\ req'[o] = req[o]
        BY <1>1
    <2>2. req[o].new \notin held
        BY <2>1 DEF Core, RequestsSound, RequestSound
    <2>3. CASE p = r
        BY <1>1, <2>1, <2>2, <2>3 DEF Core, NewsApart
    <2>4. CASE p # r
        BY <1>1, <2>1, <2>4 DEF Core, NewsApart
    <2> QED BY <2>3, <2>4
<1> QED BY <1>2, <1>3, <1>4, <1>5 DEF Core

\* A request is over: it is refused, it dies, or its account is gone.
LEMMA FinishKeeps ==
    ASSUME Core, NEW r \in Req, Finish(r), UNCHANGED <<rows, held, parent, overwritten>>,
           lost' \subseteq Token
    PROVE  Core'
<1>1. RequestSound(Idle)
    BY IdleIs DEF RequestSound, Spent
<1>2. overwritten' \in [Account -> Nat]
    BY DEF Core, TypeOK
<1> QED BY <1>1, <1>2, IdleIs, AdvanceKeeps DEF Finish

LEMMA SignInKeeps ==
    ASSUME Core, NEW r \in Req, NEW l \in Login, NEW given \in BOOLEAN, SignIn(r, l, given)
    PROVE  Core'
<1> DEFINE a == identities[l]
           next == IF a = None THEN "create"
                   ELSE IF given /\ NeedsName(a) THEN "backfill" ELSE "issue"
           q == [Idle EXCEPT !.at = next, !.user = a,
                             !.login = IF next = "create" THEN l ELSE None,
                             !.given = next = "create" /\ given]
<1>1. req' = [req EXCEPT ![r] = q] /\ UNCHANGED <<rows, history>>
    BY DEF SignIn
<1>2. a \in Account \cup {None} /\ (a # None => a \in Account /\ Live(a))
    BY DEF Core, TypeOK, UsersSound
<1>3. next \in {"create", "backfill", "issue"} /\ (next = "create" <=> a = None)
    OBVIOUS
<1> HIDE DEF a, next
<1>4. /\ q \in Request /\ q.at = next /\ q.user = a /\ q.old = None /\ q.new = None
      /\ (next = "create" => q.login = l)
    BY <1>2, <1>3 DEF Idle, Request
<1> HIDE DEF q
<1>5. RequestSound(q)
    BY <1>2, <1>3, <1>4 DEF RequestSound, Spent, Live
<1>6. lost' \subseteq Token /\ overwritten' \in [Account -> Nat]
    BY <1>1 DEF Core, TypeOK, history
<1> QED BY <1>1, <1>4, <1>5, <1>6, AdvanceKeeps DEF history

LEMMA RefreshKeeps ==
    ASSUME Core, NEW r \in Req, NEW t \in Token, Refresh(r, t)
    PROVE  Core'
<1> DEFINE q == [Idle EXCEPT !.at = "revoke", !.user = tokens[t].user, !.old = t]
<1>1. /\ req' = [req EXCEPT ![r] = q] /\ UNCHANGED <<rows, history>>
      /\ t \in held /\ tokens[t].state = "open"
    BY DEF Refresh
<1>2. tokens[t].user \in Account /\ Live(tokens[t].user) /\ t # None
    BY <1>1, AccountsAssumption DEF Core, TokensSound, TokenSound
<1>3. /\ q \in Request /\ q.at = "revoke" /\ q.user = tokens[t].user /\ q.old = t
      /\ q.new = None
    BY <1>2 DEF Idle, Request
<1> HIDE DEF q
<1>4. RequestSound(q)
    BY <1>1, <1>2, <1>3 DEF RequestSound, Spent, Live
<1>5. lost' \subseteq Token /\ overwritten' \in [Account -> Nat]
    BY <1>1 DEF Core, TypeOK, history
<1> QED BY <1>1, <1>3, <1>4, <1>5, AdvanceKeeps DEF history

LEMMA LoadUserKeeps ==
    ASSUME Core, NEW r \in Req, LoadUser(r)
    PROVE  Core'
<1> DEFINE q == [req[r] EXCEPT !.at = "issue"]
<1>1. req[r].at = "user" /\ UNCHANGED <<rows, history>>
    BY DEF LoadUser
<1>2. lost' \subseteq Token /\ overwritten' \in [Account -> Nat]
    BY <1>1 DEF Core, TypeOK, history
<1>3. CASE Live(req[r].user)
    <2>1. req' = [req EXCEPT ![r] = q]
        BY <1>3 DEF LoadUser
    <2>2. req[r] \in Request /\ RequestSound(req[r])
        BY DEF Core, TypeOK, RequestsSound
    <2>3. /\ q \in Request /\ q.at = "issue" /\ q.user = req[r].user /\ q.old = req[r].old
          /\ q.new = req[r].new
        BY <2>2 DEF Request
    <2> HIDE DEF q
    <2>4. RequestSound(q) /\ q.new = None
        BY <1>1, <2>2, <2>3 DEF RequestSound, Spent
    <2> QED BY <1>1, <1>2, <2>1, <2>3, <2>4, AdvanceKeeps DEF history
<1>4. CASE ~Live(req[r].user)
    <2>1. Finish(r)
        BY <1>4 DEF LoadUser
    <2> QED BY <1>1, <1>2, <2>1, FinishKeeps DEF history
<1> QED BY <1>3, <1>4

\* A first sign-in: an account that nobody has had, for an identity and an e-mail
\* that no account has.
LEMMA CreateUserKeeps ==
    ASSUME Core, NEW r \in Req, NEW a \in Account, CreateUser(r, a)
    PROVE  Core'
<1> DEFINE l == req[r].login
           u == [state |-> "live", email |-> emailOf[l],
                 name |-> IF req[r].given THEN "given" ELSE None]
           q == [Idle EXCEPT !.at = "issue", !.user = a]
<1>1. /\ req[r].at = "create" /\ ~Taken(l) /\ users[a].state = "free"
      /\ users' = [users EXCEPT ![a] = u] /\ identities' = [identities EXCEPT ![l] = a]
      /\ req' = [req EXCEPT ![r] = q]
      /\ UNCHANGED <<emailOf, tokens, history>>
    BY DEF CreateUser
<1>2. l \in Login /\ req[r].old = None /\ req[r].new = None
    BY <1>1 DEF Core, RequestsSound, RequestSound
<1>3. u \in UserRow /\ u.state = "live" /\ u.email = emailOf[l]
    BY <1>2 DEF Core, TypeOK, UserRow, Name
<1> HIDE DEF u
<1>4. q \in Request /\ q.at = "issue" /\ q.user = a /\ q.old = None /\ q.new = None
    BY DEF Idle, Request
<1> HIDE DEF q
<1>5. /\ req'[r] = q /\ \A p \in Req : p # r => req'[p] = req[p]
      /\ req' \in [Req -> Request]
    BY <1>1, <1>4, NextRequest DEF Core
<1>6. /\ users'[a] = u /\ \A b \in Account : b # a => users'[b] = users[b]
      /\ identities'[l] = a /\ \A m \in Login : m # l => identities'[m] = identities[m]
    BY <1>1, <1>2 DEF Core, TypeOK
<1>7. TypeOK'
    BY <1>1, <1>2, <1>3, <1>5 DEF Core, TypeOK, history
<1>8. identities[l] = None /\ a # None /\ ~Live(a)
    BY <1>1, AccountsAssumption DEF Taken, Live
<1>9. \A m \in Login : identities[m] # a
    BY <1>8 DEF Core, UsersSound
<1>10. UsersSound'
    <2>1. ASSUME NEW b \in Account, Live(b)'
          PROVE  \E k \in Login : \A m \in Login : identities'[m] = b <=> m = k
        <3>1. CASE b = a
            BY <1>2, <1>6, <1>9, <3>1
        <3>2. CASE b # a
            <4>1. Live(b)
                BY <1>6, <2>1, <3>2 DEF Live
            <4>2. PICK k \in Login : \A m \in Login : identities[m] = b <=> m = k
                BY <4>1 DEF Core, UsersSound
            <4>3. k # l /\ b # None
                BY <1>8, <4>2, AccountsAssumption
            <4> QED BY <1>6, <3>2, <4>2, <4>3
        <3> QED BY <3>1, <3>2
    <2>2. ASSUME NEW m \in Login, identities'[m] # None
          PROVE  Live(identities[m])'
        <3>1. CASE m = l
            <4>1. identities'[m] = a /\ users'[a].state = "live"
                BY <1>3, <1>6, <3>1
            <4> QED BY <4>1 DEF Live
        <3>2. CASE m # l
            <4>1. identities'[m] = identities[m] /\ Live(identities[m])
                BY <1>6, <2>2, <3>2 DEF Core, UsersSound
            <4>2. identities[m] \in Account /\ identities[m] # a
                <5>1. identities[m] # None /\ identities[m] # a
                    BY <1>9, <2>2, <4>1
                <5> QED BY <5>1 DEF Core, TypeOK
            <4>3. users'[identities[m]] = users[identities[m]]
                BY <1>6, <4>2
            <4> QED BY <4>1, <4>3 DEF Live
        <3> QED BY <3>1, <3>2
    <2>3. ASSUME NEW b \in Account, NEW c \in Account, Live(b)', Live(c)', b # c,
                 users'[b].email # None
          PROVE  users'[b].email # users'[c].email
        <3>1. \A d \in Account : Live(d) => users[d].email # emailOf[l] \/ emailOf[l] = None
            BY <1>1 DEF Taken
        <3>2. \A d \in Account : d # a => (Live(d)' <=> Live(d))
            BY <1>6 DEF Live
        <3>3. CASE b = a
            <4>1. Live(c) /\ users'[c] = users[c] /\ users'[b].email = emailOf[l]
                BY <1>3, <1>6, <2>3, <3>2, <3>3
            <4> QED BY <2>3, <3>1, <4>1
        <3>4. CASE c = a
            <4>1. Live(b) /\ users'[b] = users[b] /\ users'[c].email = emailOf[l]
                BY <1>3, <1>6, <2>3, <3>2, <3>4
            <4> QED BY <2>3, <3>1, <4>1
        <3>5. CASE b # a /\ c # a
            <4>1. Live(b) /\ Live(c) /\ users'[b] = users[b] /\ users'[c] = users[c]
                BY <1>6, <2>3, <3>2, <3>5
            <4> QED BY <2>3, <4>1 DEF Core, UsersSound
        <3> QED BY <3>3, <3>4, <3>5
    <2> QED BY <2>1, <2>2, <2>3 DEF UsersSound
<1>11. TokensSound'
    BY <1>1, <1>6, <1>8 DEF Core, TokensSound, TokenSound, Live, history
<1>12. RequestsSound'
    <2>1. \A b \in Account : users[b].state # "free" => users'[b].state # "free"
        BY <1>3, <1>6
    <2>2. RequestSound(req[r])'
        BY <1>3, <1>4, <1>5, <1>6 DEF RequestSound, Spent
    <2>3. ASSUME NEW p \in Req, p # r
          PROVE  RequestSound(req[p])'
        <3>1. RequestSound(req[p])
            BY DEF Core, RequestsSound
        <3> QED BY <1>1, <1>5, <2>1, <2>3, <3>1, RequestFrame DEF RequestSound, history
    <2> QED BY <2>2, <2>3 DEF RequestsSound
<1>13. NewsApart'
    BY <1>4, <1>5, AccountsAssumption DEF Core, NewsApart
<1> QED BY <1>7, <1>10, <1>11, <1>12, <1>13 DEF Core

\* A step that only changes the name of an account
LEMMA Renamed ==
    ASSUME Core, NEW a \in Account, NEW name \in Name,
           users' = [users EXCEPT ![a].name = name]
    PROVE  /\ users' \in [Account -> UserRow]
           /\ \A b \in Account : /\ users'[b].state = users[b].state
                                 /\ users'[b].email = users[b].email
           /\ users'[a].name = name /\ \A b \in Account : b # a => users'[b] = users[b]
<1>1. users \in [Account -> UserRow]
    BY DEF Core, TypeOK
<1>2. users'[a] = [users[a] EXCEPT !.name = name]
    BY <1>1
<1>3. users[a] \in UserRow
    BY <1>1
<1>4. /\ users'[a] \in UserRow /\ users'[a].name = name
      /\ users'[a].state = users[a].state /\ users'[a].email = users[a].email
    BY <1>2, <1>3 DEF UserRow
<1> QED BY <1>1, <1>4

LEMMA NamesFrame ==
    ASSUME Core, UNCHANGED <<emailOf, identities, tokens, held, parent>>,
           users' \in [Account -> UserRow],
           \A b \in Account : /\ users'[b].state = users[b].state
                              /\ users'[b].email = users[b].email
    PROVE  UsersSound' /\ TokensSound'
<1>1. \A b \in Account : Live(b)' <=> Live(b)
    BY DEF Live
<1>2. UsersSound'
    <2>1. \A l \in Login : identities[l] # None => identities[l] \in Account
        BY DEF Core, TypeOK
    <2> QED BY <1>1, <2>1 DEF Core, UsersSound
<1>3. TokensSound'
    BY <1>1 DEF Core, TokensSound, TokenSound
<1> QED BY <1>2, <1>3

LEMMA BackfillKeeps ==
    ASSUME Core, NEW r \in Req, Backfill(r)
    PROVE  Core'
<1> DEFINE a == req[r].user
           q == [req[r] EXCEPT !.at = "issue"]
<1>1. /\ req[r].at = "backfill" /\ req' = [req EXCEPT ![r] = q]
      /\ users' = IF Live(a) THEN [users EXCEPT ![a].name = "given"] ELSE users
      /\ overwritten' = IF users[a].name = "own" THEN [overwritten EXCEPT ![a] = @ + 1]
                        ELSE overwritten
      /\ UNCHANGED <<emailOf, identities, tokens, held, parent, lost>>
    BY DEF Backfill
<1>2. /\ a \in Account /\ req[r].old = None /\ req[r].new = None /\ users[a].state # "free"
      /\ req[r] \in Request
    BY <1>1 DEF Core, RequestsSound, RequestSound, TypeOK
<1>3. q \in Request /\ q.at = "issue" /\ q.user = a /\ q.old = None /\ q.new = None
    BY <1>2 DEF Request
<1> HIDE DEF q
<1>4. /\ req'[r] = q /\ \A p \in Req : p # r => req'[p] = req[p]
      /\ req' \in [Req -> Request]
    BY <1>1, <1>3, NextRequest DEF Core
<1>5. /\ users' \in [Account -> UserRow]
      /\ \A b \in Account : /\ users'[b].state = users[b].state
                            /\ users'[b].email = users[b].email
    <2>1. "given" \in Name
        BY DEF Name
    <2>2. users \in [Account -> UserRow]
        BY DEF Core, TypeOK
    <2> QED BY <1>1, <1>2, <2>1, <2>2, Renamed
<1>6. UsersSound' /\ TokensSound'
    BY <1>1, <1>5, NamesFrame
<1>7. TypeOK'
    <2>1. overwritten' \in [Account -> Nat]
        BY <1>1, <1>2 DEF Core, TypeOK
    <2> QED BY <1>1, <1>4, <1>5, <2>1 DEF Core, TypeOK
<1>8. RequestsSound'
    <2>1. RequestSound(req[r])'
        <3>1. users'[a].state # "free"
            BY <1>2, <1>5
        <3> QED BY <1>2, <1>3, <1>4, <3>1 DEF RequestSound, Spent
    <2>2. ASSUME NEW p \in Req, p # r
          PROVE  RequestSound(req[p])'
        <3>1. RequestSound(req[p])
            BY DEF Core, RequestsSound
        <3>2. \A b \in Account : users[b].state # "free" => users'[b].state # "free"
            BY <1>5
        <3> QED BY <1>1, <1>4, <2>2, <3>1, <3>2, RequestFrame DEF RequestSound
    <2> QED BY <2>1, <2>2 DEF RequestsSound
<1>9. NewsApart'
    BY <1>3, <1>4, AccountsAssumption DEF Core, NewsApart
<1> QED BY <1>6, <1>7, <1>8, <1>9 DEF Core

LEMMA PatchMeKeeps ==
    ASSUME Core, NEW a \in Account, PatchMe(a)
    PROVE  Core'
<1>1. /\ Live(a) /\ users' = [users EXCEPT ![a].name = "own"]
      /\ UNCHANGED <<emailOf, identities, tokens, req, history>>
    BY DEF PatchMe
<1>2. "own" \in Name
    BY DEF Name
<1>3. /\ users' \in [Account -> UserRow]
      /\ \A b \in Account : /\ users'[b].state = users[b].state
                            /\ users'[b].email = users[b].email
    BY <1>1, <1>2, Renamed
<1>4. UsersSound' /\ TokensSound'
    BY <1>1, <1>3, NamesFrame DEF history
<1>5. TypeOK'
    BY <1>1, <1>3 DEF Core, TypeOK, history
<1>6. RequestsSound'
    BY <1>1, <1>3 DEF Core, RequestsSound, RequestSound, Spent, history
<1>7. NewsApart'
    BY <1>1 DEF Core, NewsApart
<1> QED BY <1>4, <1>5, <1>6, <1>7 DEF Core

\* A token that is revoked keeps its owner.
LEMMA RevokedIs ==
    ASSUME Core, NEW t \in Token, tokens' = Revoked(t)
    PROVE  /\ tokens' \in [Token -> TokenRow]
           /\ \A u \in Token : /\ tokens'[u].user = tokens[u].user
                               /\ \/ tokens'[u].state = tokens[u].state
                                  \/ tokens[u].state = "open" /\ tokens'[u].state = "revoked"
           /\ \A u \in Token : u # t => tokens'[u] = tokens[u]
           /\ tokens'[t].state # "open"
<1>1. tokens \in [Token -> TokenRow] /\ tokens[t] \in TokenRow
    BY DEF Core, TypeOK
<1>2. CASE tokens[t].state = "open"
    <2>1. tokens'[t] = [tokens[t] EXCEPT !.state = "revoked"]
          /\ \A u \in Token : u # t => tokens'[u] = tokens[u]
        BY <1>1, <1>2 DEF Revoked
    <2>2. tokens'[t] \in TokenRow /\ tokens'[t].state = "revoked" /\ tokens'[t].user = tokens[t].user
        BY <1>1, <2>1 DEF TokenRow
    <2>3. tokens' \in [Token -> TokenRow]
        BY <1>1, <1>2, <2>2 DEF Revoked
    <2> QED BY <1>2, <2>1, <2>2, <2>3
<1>3. CASE tokens[t].state # "open"
    BY <1>1, <1>3 DEF Revoked
<1> QED BY <1>2, <1>3

\* A revoked token is still its account's.
LEMMA RevokedFrame ==
    ASSUME Core, NEW t \in Token, tokens[t].state # "free", tokens' = Revoked(t),
           UNCHANGED <<emailOf, users, identities, parent>>, held' \subseteq held
    PROVE  UsersSound' /\ TokensSound'
<1>1. UsersSound'
    BY DEF Core, UsersSound, Live
<1>2. \A u \in Token : /\ tokens'[u].user = tokens[u].user
                       /\ \/ tokens'[u].state = tokens[u].state
                          \/ tokens[u].state = "open" /\ tokens'[u].state = "revoked"
    BY RevokedIs
<1>3. \A u \in Token : parent[u] # None => parent[u] \in Token
    BY DEF Core, TypeOK
<1>4. TokensSound'
    BY <1>2, <1>3 DEF Core, TokensSound, TokenSound, Live
<1> QED BY <1>1, <1>4

\* The token of a request that has one
LEMMA OldIs ==
    ASSUME Core, NEW r \in Req, req[r].old # None
    PROVE  req[r].old \in Token /\ tokens[req[r].old].state # "free"
<1>1. req[r] \in Request /\ RequestSound(req[r])
    BY DEF Core, TypeOK, RequestsSound
<1>2. req[r].old \in Token \cup {None}
    BY <1>1 DEF Request
<1> QED BY <1>1, <1>2 DEF RequestSound

\* What r has issued nobody else revokes.
LEMMA NewIs ==
    ASSUME Core, NEW r \in Req, req[r].new # None
    PROVE  /\ req[r].new \in Token /\ req[r].new \notin held
           /\ tokens[req[r].new].state \in {"open", "dropped"}
           /\ \A p \in Req : /\ req[p].old # req[r].new
                             /\ p # r => req[p].new # req[r].new
<1>1. req[r] \in Request /\ RequestSound(req[r])
    BY DEF Core, TypeOK, RequestsSound
<1>2. req[r].new \in Token \cup {None}
    BY <1>1 DEF Request
<1> QED BY <1>1, <1>2 DEF RequestSound, Core, NewsApart

\* A revocation of a token that no request has issued
LEMMA RevokedOthers ==
    ASSUME Core, NEW t \in Token, tokens' = Revoked(t), UNCHANGED users, held' \subseteq held,
           \A p \in Req : req[p].new # t,
           NEW p \in Req, req'[p] = req[p]
    PROVE  RequestSound(req[p])'
<1>1. RequestSound(req[p])
    BY DEF Core, RequestsSound
<1>2. \A u \in Token : /\ tokens'[u].user = tokens[u].user
                       /\ \/ tokens'[u] = tokens[u]
                          \/ tokens[u].state = "open" /\ tokens'[u].state = "revoked"
    BY DEF Revoked, Core, TypeOK, TokenRow
<1>3. \A u \in Token : u # t => tokens'[u] = tokens[u]
    BY RevokedIs
<1>4. req[p].old # None => req[p].old \in Token
    BY OldIs
<1>5. req[p].new # None => req[p].new \in Token /\ req[p].new \notin held /\ req[p].new # t
    BY NewIs
<1>6. req[p].new # None => req[p].new \notin held'
    BY <1>5
<1> QED BY <1>1, <1>2, <1>3, <1>4, <1>5, <1>6, RequestFrame

LEMMA RevokeConsumedKeeps ==
    ASSUME Core, NEW r \in Req, RevokeConsumed(r)
    PROVE  Core'
<1> DEFINE t == req[r].old
           q == [req[r] EXCEPT !.at = "user"]
<1>1. /\ req[r].at = "revoke" /\ tokens' = Revoked(t) /\ req' = [req EXCEPT ![r] = q]
      /\ UNCHANGED <<emailOf, users, identities, history>>
    BY DEF RevokeConsumed
<1>2. req[r] \in Request /\ RequestSound(req[r]) /\ t # None /\ req[r].new = None
    BY <1>1 DEF Core, TypeOK, RequestsSound, RequestSound
<1>3. t \in Token /\ tokens[t].state # "free"
    BY <1>2, OldIs
<1>4. /\ q \in Request /\ q.at = "user" /\ q.user = req[r].user /\ q.old = t
      /\ q.new = None
    BY <1>2 DEF Request
<1> HIDE DEF q
<1>5. /\ req'[r] = q /\ \A p \in Req : p # r => req'[p] = req[p]
      /\ req' \in [Req -> Request]
    BY <1>1, <1>4, NextRequest DEF Core
<1>6. /\ tokens' \in [Token -> TokenRow]
      /\ tokens'[t].user = tokens[t].user /\ tokens'[t].state # "open"
      /\ \/ tokens'[t].state = tokens[t].state
         \/ tokens[t].state = "open" /\ tokens'[t].state = "revoked"
    BY <1>1, <1>3, RevokedIs
<1>7. TypeOK'
    BY <1>1, <1>5, <1>6 DEF Core, TypeOK, history
<1>8. UsersSound' /\ TokensSound'
    BY <1>1, <1>3, RevokedFrame DEF history
<1>9. RequestsSound'
    <2>1. RequestSound(req[r])'
        <3>1. tokens'[t].state \in {"revoked", "dropped"}
            BY <1>3, <1>6 DEF TokenRow
        <3>2. tokens'[t].state \in {"open", "revoked"} => tokens'[t].user = req[r].user
            BY <1>2, <1>6 DEF RequestSound
        <3> QED BY <1>1, <1>2, <1>4, <1>5, <3>1, <3>2 DEF RequestSound, Spent
    <2>2. ASSUME NEW p \in Req, p # r
          PROVE  RequestSound(req[p])'
        <3>1. \A o \in Req : req[o].new # t
            BY <1>2, NewIs
        <3> QED BY <1>1, <1>3, <1>5, <2>2, <3>1, RevokedOthers DEF history
    <2> QED BY <2>1, <2>2 DEF RequestsSound
<1>10. NewsApart'
    BY <1>2, <1>4, <1>5 DEF Core, NewsApart
<1> QED BY <1>7, <1>8, <1>9, <1>10 DEF Core

LEMMA LogoutKeeps ==
    ASSUME Core, NEW t \in Token, Logout(t)
    PROVE  Core'
<1>1. /\ t \in held /\ tokens' = Revoked(t) /\ held' = held \ {t} /\ lost' = lost \ {t}
      /\ UNCHANGED <<emailOf, users, identities, req, parent, overwritten>>
    BY DEF Logout
<1>2. tokens[t].state # "free"
    BY <1>1 DEF Core, TokensSound, TokenSound
<1>3. TypeOK'
    BY <1>1, RevokedIs DEF Core, TypeOK
<1>4. UsersSound' /\ TokensSound'
    BY <1>1, <1>2, RevokedFrame
<1>5. RequestsSound'
    <2>1. \A p \in Req : req[p].new # t
        BY <1>1, AccountsAssumption DEF Core, RequestsSound, RequestSound
    <2>2. ASSUME NEW p \in Req
          PROVE  RequestSound(req[p])'
        BY <1>1, <2>1, RevokedOthers
    <2> QED BY <2>2 DEF RequestsSound
<1>6. NewsApart'
    BY <1>1 DEF Core, NewsApart
<1> QED BY <1>3, <1>4, <1>5, <1>6 DEF Core

LEMMA IssueSessionKeeps ==
    ASSUME Core, NEW r \in Req, NEW t \in Token, IssueSession(r, t)
    PROVE  Core'
<1> DEFINE row == [state |-> "open", user |-> req[r].user]
           q == [Idle EXCEPT !.at = "answer", !.old = req[r].old, !.new = t]
<1>1. /\ req[r].at = "issue" /\ Live(req[r].user) /\ tokens[t].state = "free"
      /\ tokens' = [tokens EXCEPT ![t] = row] /\ parent' = [parent EXCEPT ![t] = req[r].old]
      /\ req' = [req EXCEPT ![r] = q]
      /\ UNCHANGED <<emailOf, users, identities, held, lost, overwritten>>
    BY DEF IssueSession
<1>2. req[r] \in Request /\ RequestSound(req[r]) /\ req[r].user \in Account /\ t # None
    BY <1>1, AccountsAssumption DEF Core, TypeOK, RequestsSound, RequestSound
<1>3. req[r].old \in Token \cup {None}
    BY <1>2 DEF Request
<1>4. /\ row \in TokenRow /\ row.state = "open" /\ row.user = req[r].user
      /\ q \in Request /\ q.at = "answer" /\ q.old = req[r].old /\ q.new = t
    BY <1>2, <1>3 DEF TokenRow, Idle, Request
<1> HIDE DEF row, q
<1>5. /\ req'[r] = q /\ \A p \in Req : p # r => req'[p] = req[p]
      /\ req' \in [Req -> Request]
    BY <1>1, <1>4, NextRequest DEF Core
<1>6. /\ tokens'[t] = row /\ \A u \in Token : u # t => tokens'[u] = tokens[u]
      /\ parent'[t] = req[r].old /\ \A u \in Token : u # t => parent'[u] = parent[u]
    BY <1>1 DEF Core, TypeOK
<1>7. TypeOK'
    <2>1. tokens' \in [Token -> TokenRow] /\ parent' \in [Token -> Token \cup {None}]
        BY <1>1, <1>3, <1>4 DEF Core, TypeOK
    <2> QED BY <1>1, <1>5, <2>1 DEF Core, TypeOK
<1>8. UsersSound'
    BY <1>1 DEF Core, UsersSound, Live
<1>9. \A p \in Req : /\ req[p].old # None => req[p].old \in Token /\ req[p].old # t
                     /\ req[p].new # None => req[p].new \in Token /\ req[p].new # t
    BY <1>1, OldIs, NewIs
<1>10. TokensSound'
    <2>1. TokenSound(t)'
        <3>1. req[r].old # None => tokens'[req[r].old].state \in {"revoked", "dropped"}
            BY <1>1, <1>2, <1>6, <1>9 DEF RequestSound, Spent
        <3> QED BY <1>1, <1>2, <1>4, <1>6, <3>1 DEF TokenSound, Live
    <2>2. ASSUME NEW u \in Token, u # t
          PROVE  TokenSound(u)'
        <3>1. TokenSound(u) /\ (parent[u] # None => parent[u] \in Token)
            BY DEF Core, TokensSound, TypeOK
        <3>2. parent[u] # None => parent[u] # t
            BY <1>1, <3>1 DEF TokenSound
        <3> QED BY <1>1, <1>6, <2>2, <3>1, <3>2 DEF TokenSound, Live
    <2> QED BY <2>1, <2>2 DEF TokensSound
<1>11. RequestsSound'
    <2>1. RequestSound(req[r])'
        <3>1. t \notin held
            BY <1>1 DEF Core, TokensSound, TokenSound
        <3>2. req[r].old # None => tokens'[req[r].old] = tokens[req[r].old]
            BY <1>6, <1>9
        <3> QED BY <1>1, <1>2, <1>4, <1>5, <1>6, <3>1, <3>2 DEF RequestSound, Spent
    <2>2. ASSUME NEW p \in Req, p # r
          PROVE  RequestSound(req[p])'
        <3>1. RequestSound(req[p])
            BY DEF Core, RequestsSound
        <3>2. req[p].new # None => req[p].new \notin held'
            BY <1>1, <3>1 DEF RequestSound
        <3> QED BY <1>1, <1>5, <1>6, <1>9, <2>2, <3>1, <3>2, RequestFrame
    <2> QED BY <2>1, <2>2 DEF RequestsSound
<1>12. NewsApart'
    <2> SUFFICES ASSUME NEW o \in Req, NEW p \in Req, req'[o].new # None
                 PROVE  req'[p].old # req'[o].new /\ (p # o => req'[p].new # req'[o].new)
        BY DEF NewsApart
    <2>1. req'[p].old = req[p].old
        BY <1>4, <1>5
    <2>2. CASE o = r
        BY <1>2, <1>4, <1>5, <1>9, <2>1, <2>2
    <2>3. CASE o # r
        <3>1. req'[o].new = req[o].new /\ req[o].new # t
            BY <1>5, <1>9, <2>3
        <3>2. p # r => req'[p].new = req[p].new
            BY <1>5
        <3>3. p = r => req'[p].new = t
            BY <1>4, <1>5
        <3> QED BY <2>1, <3>1, <3>2, <3>3 DEF Core, NewsApart
    <2> QED BY <2>2, <2>3
<1> QED BY <1>7, <1>8, <1>10, <1>11, <1>12 DEF Core

LEMMA AnswerKeeps ==
    ASSUME Core, NEW r \in Req, Answer(r)
    PROVE  Core'
<1>1. /\ req[r].at = "answer" /\ req' = [req EXCEPT ![r] = Idle]
      /\ held' = (held \ {req[r].old}) \cup {req[r].new} /\ lost' = lost \ {req[r].old}
      /\ UNCHANGED <<rows, parent, overwritten>>
    BY DEF Answer, Finish
<1>2. req[r].new # None
    BY <1>1 DEF Core, RequestsSound, RequestSound
<1>3. /\ req[r].new \in Token /\ tokens[req[r].new].state \in {"open", "dropped"}
      /\ \A p \in Req : p # r => req[p].new # req[r].new
    BY <1>2, NewIs
<1>4. /\ req'[r] = Idle /\ \A p \in Req : p # r => req'[p] = req[p]
      /\ req' \in [Req -> Request]
    BY <1>1, IdleIs, NextRequest DEF Core
<1>5. TypeOK'
    BY <1>1, <1>3, <1>4 DEF Core, TypeOK, rows
<1>6. UsersSound' /\ TokensSound'
    BY <1>1, <1>3 DEF Core, UsersSound, TokensSound, TokenSound, Live, rows
<1>7. RequestsSound'
    <2>1. RequestSound(req[r])'
        BY <1>4, IdleIs DEF RequestSound, Spent
    <2>2. ASSUME NEW p \in Req, p # r
          PROVE  RequestSound(req[p])'
        <3>1. RequestSound(req[p])
            BY DEF Core, RequestsSound
        <3>2. req[p].new # None => req[p].new \notin held'
            BY <1>1, <1>3, <2>2, <3>1 DEF RequestSound
        <3> QED BY <1>1, <1>4, <2>2, <3>1, <3>2, RequestFrame DEF rows
    <2> QED BY <2>1, <2>2 DEF RequestsSound
<1>8. NewsApart'
    BY <1>4, IdleIs DEF Core, NewsApart
<1> QED BY <1>5, <1>6, <1>7, <1>8 DEF Core

\* The end of an account drops its tokens, wherever requests are.
LEMMA DeleteMeKeeps ==
    ASSUME Core, NEW a \in Account, DeleteMe(a)
    PROVE  Core'
<1> DEFINE gone == [state |-> "gone", email |-> None, name |-> None]
           dropped == [state |-> "dropped", user |-> None]
<1>1. /\ Live(a) /\ users' = [users EXCEPT ![a] = gone]
      /\ identities' = [l \in Login |-> IF identities[l] = a THEN None ELSE identities[l]]
      /\ tokens' = [t \in Token |-> IF tokens[t].user = a THEN dropped ELSE tokens[t]]
      /\ held' = {t \in held : tokens[t].user # a} /\ lost' = {t \in lost : tokens[t].user # a}
      /\ parent' = [t \in Token |-> IF tokens[t].user = a THEN None ELSE parent[t]]
      /\ overwritten' = [overwritten EXCEPT ![a] = 0]
      /\ UNCHANGED <<emailOf, req>>
    BY DEF DeleteMe
<1>2. /\ gone \in UserRow /\ gone.state = "gone" /\ dropped \in TokenRow
      /\ dropped.state = "dropped" /\ dropped.user = None /\ a # None
    BY AccountsAssumption DEF UserRow, Name, TokenRow
<1> HIDE DEF gone, dropped
<1>3. /\ users'[a] = gone /\ \A b \in Account : b # a => users'[b] = users[b]
      /\ \A b \in Account : b # a => (Live(b) <=> users'[b].state = "live")
    BY <1>1 DEF Core, TypeOK, Live
<1>4. \A t \in Token : /\ tokens'[t] = IF tokens[t].user = a THEN dropped ELSE tokens[t]
                       /\ parent'[t] = IF tokens[t].user = a THEN None ELSE parent[t]
    BY <1>1
<1>5. TypeOK'
    <2>1. /\ users' \in [Account -> UserRow] /\ tokens' \in [Token -> TokenRow]
          /\ parent' \in [Token -> Token \cup {None}]
        BY <1>1, <1>2 DEF Core, TypeOK
    <2>2. identities' \in [Login -> Account \cup {None}] /\ overwritten' \in [Account -> Nat]
        BY <1>1 DEF Core, TypeOK
    <2> QED BY <1>1, <2>1, <2>2 DEF Core, TypeOK
<1>6. UsersSound'
    <2>1. ASSUME NEW b \in Account, Live(b)'
          PROVE  b # a /\ Live(b)
        BY <1>2, <1>3, <2>1 DEF Live
    <2>2. ASSUME NEW b \in Account, Live(b)'
          PROVE  \E l \in Login : \A m \in Login : identities'[m] = b <=> m = l
        <3>1. b # None
            BY AccountsAssumption
        <3>2. PICK l \in Login : \A m \in Login : identities[m] = b <=> m = l
            BY <2>1, <2>2 DEF Core, UsersSound
        <3>3. \A m \in Login : identities'[m] = b <=> identities[m] = b
            BY <1>1, <2>1, <2>2, <3>1
        <3> QED BY <3>2, <3>3
    <2>3. ASSUME NEW l \in Login, identities'[l] # None
          PROVE  Live(identities[l])' /\ identities'[l] = identities[l]
        <3>1. identities'[l] = identities[l] /\ identities[l] # a /\ Live(identities[l])
              /\ identities[l] \in Account
            BY <1>1, <2>3 DEF Core, UsersSound, TypeOK
        <3> QED BY <1>3, <3>1 DEF Live
    <2>4. ASSUME NEW b \in Account, NEW c \in Account, Live(b)', Live(c)', b # c,
                 users'[b].email # None
          PROVE  users'[b].email # users'[c].email
        <3>1. Live(b) /\ Live(c) /\ users'[b] = users[b] /\ users'[c] = users[c]
            BY <1>3, <2>1, <2>4
        <3> QED BY <2>4, <3>1 DEF Core, UsersSound
    <2> QED BY <2>2, <2>3, <2>4 DEF UsersSound
<1>7. TokensSound'
    <2> SUFFICES ASSUME NEW t \in Token PROVE TokenSound(t)'
        BY DEF TokensSound
    <2>1. TokenSound(t) /\ (parent[t] # None => parent[t] \in Token)
        BY DEF Core, TokensSound, TypeOK
    <2>2. CASE tokens[t].user = a
        BY <1>2, <1>4, <2>2 DEF TokenSound
    <2>3. CASE tokens[t].user # a
        <3>1. tokens'[t] = tokens[t] /\ parent'[t] = parent[t]
            BY <1>4, <2>3
        <3>2. parent[t] # None => tokens'[parent[t]].state \in {"revoked", "dropped"}
            BY <1>2, <1>4, <2>1 DEF TokenSound
        <3> QED BY <1>1, <1>3, <2>1, <2>3, <3>1, <3>2 DEF TokenSound, Live
    <2> QED BY <2>2, <2>3
<1>8. RequestsSound'
    <2>1. ASSUME NEW p \in Req
          PROVE  RequestSound(req[p])'
        <3>1. RequestSound(req[p])
            BY DEF Core, RequestsSound
        <3>2. \A b \in Account : users[b].state # "free" => users'[b].state # "free"
            BY <1>2, <1>3
        <3>3. req[p].old # None => \/ tokens'[req[p].old] = tokens[req[p].old]
                                   \/ tokens'[req[p].old].state = "dropped"
            BY <1>2, <1>4, OldIs
        <3>4. req[p].new # None => /\ \/ tokens'[req[p].new] = tokens[req[p].new]
                                      \/ tokens'[req[p].new].state = "dropped"
                                   /\ req[p].new \notin held'
            BY <1>1, <1>2, <1>4, NewIs
        <3> QED BY <1>1, <3>1, <3>2, <3>3, <3>4, RequestFrame
    <2> QED BY <2>1 DEF RequestsSound
<1>9. NewsApart'
    BY <1>1 DEF Core, NewsApart
<1> QED BY <1>5, <1>6, <1>7, <1>8, <1>9 DEF Core

-----------------------------------------------------------------------------
(* Counts *)

\* Sets of requests and tokens can be counted.
LEMMA HeirsFinite ==
    ASSUME NEW t \in Token
    PROVE  /\ IsFiniteSet(Heirs(t)) /\ Cardinality(Heirs(t)) \in Nat
           /\ IsFiniteSet(Consuming(t)) /\ Cardinality(Consuming(t)) \in Nat
           /\ IsFiniteSet(Req) /\ Cardinality(Req) \in Nat
<1>1. Heirs(t) \subseteq Token /\ Consuming(t) \subseteq Req
    BY DEF Heirs, Consuming
<1>2. IsFiniteSet(Heirs(t)) /\ IsFiniteSet(Consuming(t)) /\ IsFiniteSet(Req)
    BY <1>1, AccountsAssumption, FS_Subset
<1> QED BY <1>2, FS_CardinalityType

LEMMA BackfillsFinite ==
    ASSUME NEW a \in Account
    PROVE  /\ IsFiniteSet(Backfilling(a)) /\ Cardinality(Backfilling(a)) \in Nat
           /\ IsFiniteSet(Req) /\ Cardinality(Req) \in Nat
<1>1. Backfilling(a) \subseteq Req
    BY DEF Backfilling
<1>2. IsFiniteSet(Backfilling(a)) /\ IsFiniteSet(Req)
    BY <1>1, AccountsAssumption, FS_Subset
<1> QED BY <1>2, FS_CardinalityType

\* A part of a finite set
LEMMA PartOf ==
    ASSUME NEW S, NEW T, IsFiniteSet(T), S \subseteq T
    PROVE  IsFiniteSet(S) /\ Cardinality(S) \in Nat /\ Cardinality(S) <= Cardinality(T)
BY FS_Subset, FS_CardinalityType

\* From p to q a request starts neither a backfill nor a refresh.
GoesOn(p, q) ==
    \/ q = p
    \/ /\ q.at # "backfill"
       /\ \/ q.old = None \/ q.at = "answer"
          \/ q.old = p.old /\ p.at \in {"revoke", "user", "issue"}

LEMMA AllGoOn ==
    ASSUME \A p \in Req : GoesOn(req[p], req'[p]), NEW t \in Token, NEW a \in Account
    PROVE  Consuming(t)' \subseteq Consuming(t) /\ Backfilling(a)' \subseteq Backfilling(a)
<1>1. t # None
    BY AccountsAssumption
<1> QED BY <1>1 DEF GoesOn, Consuming, Backfilling

LEMMA FinishGoesOn ==
    ASSUME Core, NEW r \in Req, Finish(r)
    PROVE  \A p \in Req : /\ GoesOn(req[p], req'[p])
                          /\ req'[p] = IF p = r THEN Idle ELSE req[p]
<1>1. req'[r] = Idle /\ \A p \in Req : p # r => req'[p] = req[p]
    BY NextRequest DEF Finish, Core
<1> QED BY <1>1, IdleIs DEF GoesOn

LEMMA NextGoesOn ==
    ASSUME Core, NEW r \in Req, NEW q, req' = [req EXCEPT ![r] = q], GoesOn(req[r], q)
    PROVE  \A p \in Req : GoesOn(req[p], req'[p])
BY NextRequest DEF Core, GoesOn

\* Only a sign-in starts a backfill, and only a refresh has a token to consume.
LEMMA StepsGoOn ==
    ASSUME Core, NEW r \in Req,
           \/ \E a \in Account : CreateUser(r, a)
           \/ CreateConflicts(r) \/ Backfill(r) \/ RevokeConsumed(r) \/ LoadUser(r)
           \/ \E t \in Token : IssueSession(r, t)
           \/ IssueRefused(r) \/ Answer(r) \/ Die(r)
    PROVE  \A p \in Req : GoesOn(req[p], req'[p])
<1>1. req[r] \in Request /\ RequestSound(req[r])
    BY DEF Core, TypeOK, RequestsSound
<1>2. CASE CreateConflicts(r) \/ IssueRefused(r) \/ Answer(r) \/ Die(r)
    BY <1>2, FinishGoesOn DEF CreateConflicts, IssueRefused, Answer, Die
<1>3. ASSUME NEW a \in Account, CreateUser(r, a)
      PROVE  \A p \in Req : GoesOn(req[p], req'[p])
    <2> DEFINE q == [Idle EXCEPT !.at = "issue", !.user = a]
    <2>1. req' = [req EXCEPT ![r] = q]
        BY <1>3 DEF CreateUser
    <2>2. q.at = "issue" /\ q.old = None
        BY DEF Idle
    <2> HIDE DEF q
    <2> QED BY <2>1, <2>2, NextGoesOn DEF GoesOn
<1>4. ASSUME NEW next \in {"user", "issue"}, req' = [req EXCEPT ![r].at = next],
             req[r].at \in {"backfill", "revoke", "user"}
      PROVE  \A p \in Req : GoesOn(req[p], req'[p])
    <2> DEFINE q == [req[r] EXCEPT !.at = next]
    <2>1. req' = [req EXCEPT ![r] = q]
        BY <1>4
    <2>2. q.at = next /\ q.old = req[r].old
        BY <1>1 DEF Request
    <2> HIDE DEF q
    <2>3. req[r].at = "backfill" => q.old = None
        BY <1>1, <2>2 DEF RequestSound
    <2> QED BY <1>4, <2>1, <2>2, <2>3, NextGoesOn DEF GoesOn
<1>5. CASE Backfill(r) \/ RevokeConsumed(r)
    BY <1>4, <1>5 DEF Backfill, RevokeConsumed
<1>6. CASE LoadUser(r)
    BY <1>4, <1>6, FinishGoesOn DEF LoadUser
<1>7. ASSUME NEW t \in Token, IssueSession(r, t)
      PROVE  \A p \in Req : GoesOn(req[p], req'[p])
    <2> DEFINE q == [Idle EXCEPT !.at = "answer", !.old = req[r].old, !.new = t]
    <2>1. req' = [req EXCEPT ![r] = q]
        BY <1>7 DEF IssueSession
    <2>2. q.at = "answer"
        BY DEF Idle
    <2> HIDE DEF q
    <2> QED BY <2>1, <2>2, NextGoesOn DEF GoesOn
<1> QED BY <1>2, <1>3, <1>5, <1>6, <1>7

-----------------------------------------------------------------------------
(* The successors of a token *)

LEMMA HeirsStay ==
    ASSUME NEW t \in Token, HeirsCounted(t), Heirs(t)' \subseteq Heirs(t),
           Consuming(t)' \subseteq Consuming(t)
    PROVE  HeirsCounted(t)'
<1>1. PICK H, C : H = Heirs(t)' /\ C = Consuming(t)'
    OBVIOUS
<1>2. /\ IsFiniteSet(Heirs(t)) /\ Cardinality(Heirs(t)) \in Nat
      /\ IsFiniteSet(Consuming(t)) /\ Cardinality(Consuming(t)) \in Nat
      /\ Cardinality(Req) \in Nat
    BY HeirsFinite
<1>3. /\ Cardinality(H) \in Nat /\ Cardinality(H) <= Cardinality(Heirs(t))
      /\ Cardinality(C) \in Nat /\ Cardinality(C) <= Cardinality(Consuming(t))
    BY <1>1, <1>2, PartOf
<1>4. Cardinality(H) + Cardinality(C) <= Cardinality(Req)
    BY <1>2, <1>3 DEF HeirsCounted
<1> QED BY <1>1, <1>4 DEF HeirsCounted

\* A token that is open has no successor: what may come is no more than the requests.
LEMMA HeirsFirst ==
    ASSUME Core, NEW t \in Token, tokens[t].state = "open", UNCHANGED parent
    PROVE  HeirsCounted(t)'
<1>1. t # None
    BY AccountsAssumption
<1>2. Heirs(t)' = {}
    BY <1>1 DEF Core, TokensSound, TokenSound, Heirs
<1>3. PICK C : C = Consuming(t)'
    OBVIOUS
<1>4. C \subseteq Req
    BY <1>3 DEF Consuming
<1>5. Cardinality(C) \in Nat /\ Cardinality(C) <= Cardinality(Req) /\ Cardinality(Req) \in Nat
    BY <1>4, HeirsFinite, PartOf
<1>6. Cardinality({}) = 0
    BY FS_EmptySet
<1>7. Cardinality({}) + Cardinality(C) <= Cardinality(Req)
    BY <1>5, <1>6
<1> QED BY <1>2, <1>3, <1>7 DEF HeirsCounted

\* A request that issues a successor will not issue another.
LEMMA IssueCounted ==
    ASSUME Core, NEW r \in Req, NEW u \in Token, IssueSession(r, u),
           NEW t \in Token, HeirsCounted(t)
    PROVE  HeirsCounted(t)'
<1>1. /\ req[r].at = "issue" /\ parent' = [parent EXCEPT ![u] = req[r].old]
      /\ req' = [req EXCEPT ![r] = [Idle EXCEPT !.at = "answer", !.old = req[r].old, !.new = u]]
    BY DEF IssueSession
<1>2. \A p \in Req : GoesOn(req[p], req'[p])
    BY StepsGoOn
<1>3. Consuming(t)' \subseteq Consuming(t)
    <2>1. t # None
        BY AccountsAssumption
    <2> QED BY <1>2, <2>1 DEF GoesOn, Consuming
<1>4. parent'[u] = req[r].old /\ \A v \in Token : v # u => parent'[v] = parent[v]
    BY <1>1 DEF Core, TypeOK
<1>5. CASE req[r].old # t
    <2>1. Heirs(t)' \subseteq Heirs(t)
        BY <1>4, <1>5 DEF Heirs
    <2> QED BY <1>3, <2>1, HeirsStay
<1>6. CASE req[r].old = t
    <2>1. PICK H, C : H = Heirs(t)' /\ C = Consuming(t)'
        OBVIOUS
    <2>2. r \in Consuming(t)
        BY <1>1, <1>6 DEF Consuming
    <2>3. r \notin C
        <3>1. req'[r].at = "answer"
            BY <1>1 DEF Core, TypeOK, Idle
        <3> QED BY <2>1, <3>1 DEF Consuming
    <2>4. C \subseteq Consuming(t) \ {r} /\ H \subseteq Heirs(t) \cup {u}
        BY <1>3, <1>4, <2>1, <2>3 DEF Heirs
    <2>5. /\ IsFiniteSet(Heirs(t)) /\ Cardinality(Heirs(t)) \in Nat
          /\ IsFiniteSet(Consuming(t)) /\ Cardinality(Consuming(t)) \in Nat
          /\ Cardinality(Req) \in Nat
        BY HeirsFinite
    <2>6. /\ IsFiniteSet(Consuming(t) \ {r})
          /\ Cardinality(Consuming(t) \ {r}) = Cardinality(Consuming(t)) - 1
        BY <2>2, <2>5, FS_RemoveElement
    <2>7. /\ IsFiniteSet(Heirs(t) \cup {u})
          /\ Cardinality(Heirs(t) \cup {u}) \in {Cardinality(Heirs(t)), Cardinality(Heirs(t)) + 1}
        BY <2>5, FS_AddElement
    <2>8. Cardinality(C) \in Nat /\ Cardinality(C) <= Cardinality(Consuming(t)) - 1
        BY <2>4, <2>6, PartOf
    <2>9. Cardinality(H) \in Nat /\ Cardinality(H) <= Cardinality(Heirs(t)) + 1
        <3>1. Cardinality(H) \in Nat /\ Cardinality(H) <= Cardinality(Heirs(t) \cup {u})
            BY <2>4, <2>7, PartOf
        <3> QED BY <2>5, <2>7, <3>1
    <2>10. Cardinality(H) + Cardinality(C) <= Cardinality(Req)
        BY <2>5, <2>8, <2>9 DEF HeirsCounted
    <2> QED BY <2>1, <2>10 DEF HeirsCounted
<1> QED BY <1>5, <1>6

LEMMA HeirsKept ==
    ASSUME Core, [Next]_vars, NEW t \in Token, HeirsCounted(t)
    PROVE  HeirsCounted(t)'
<1>1. ASSUME UNCHANGED parent, \A p \in Req : GoesOn(req[p], req'[p])
      PROVE  HeirsCounted(t)'
    <2>1. t # None
        BY AccountsAssumption
    <2>2. Heirs(t)' \subseteq Heirs(t) /\ Consuming(t)' \subseteq Consuming(t)
        BY <1>1, <2>1 DEF GoesOn, Heirs, Consuming
    <2> QED BY <2>2, HeirsStay
<1>2. ASSUME NEW r \in Req, NEW l \in Login, NEW given \in BOOLEAN, SignIn(r, l, given)
      PROVE  HeirsCounted(t)'
    <2>1. req'[r].old = None /\ \A p \in Req : p # r => req'[p] = req[p]
        BY <1>2 DEF SignIn, Idle, Core, TypeOK
    <2>2. t # None
        BY AccountsAssumption
    <2>3. Heirs(t)' \subseteq Heirs(t) /\ Consuming(t)' \subseteq Consuming(t)
        BY <1>2, <2>1, <2>2 DEF SignIn, history, Heirs, Consuming
    <2> QED BY <2>3, HeirsStay
<1>3. ASSUME NEW r \in Req, NEW u \in Token, Refresh(r, u)
      PROVE  HeirsCounted(t)'
    <2>1. /\ tokens[u].state = "open" /\ UNCHANGED parent /\ req'[r].old = u
          /\ \A p \in Req : p # r => req'[p] = req[p]
        BY <1>3 DEF Refresh, Idle, Core, TypeOK, history
    <2>2. CASE u = t
        BY <2>1, <2>2, HeirsFirst
    <2>3. CASE u # t
        <3>1. Heirs(t)' \subseteq Heirs(t) /\ Consuming(t)' \subseteq Consuming(t)
            BY <2>1, <2>3 DEF Heirs, Consuming
        <3> QED BY <3>1, HeirsStay
    <2> QED BY <2>2, <2>3
<1>4. ASSUME NEW r \in Req, NEW u \in Token, IssueSession(r, u)
      PROVE  HeirsCounted(t)'
    BY <1>4, IssueCounted
<1>5. ASSUME NEW r \in Req, NEW a \in Account, CreateUser(r, a)
      PROVE  HeirsCounted(t)'
    BY <1>1, <1>5, StepsGoOn DEF CreateUser, history
<1>6. ASSUME NEW r \in Req,
             \/ CreateConflicts(r) \/ Backfill(r) \/ RevokeConsumed(r) \/ LoadUser(r)
             \/ IssueRefused(r) \/ Answer(r) \/ Die(r)
      PROVE  HeirsCounted(t)'
    <2>1. UNCHANGED parent
        BY <1>6 DEF CreateConflicts, Backfill, RevokeConsumed, LoadUser, IssueRefused, Answer, Die,
                    history
    <2>2. \A p \in Req : GoesOn(req[p], req'[p])
        BY <1>6, StepsGoOn
    <2> QED BY <1>1, <2>1, <2>2
<1>7. ASSUME NEW u \in Token, Logout(u)
      PROVE  HeirsCounted(t)'
    BY <1>1, <1>7 DEF Logout, GoesOn
<1>8. ASSUME NEW a \in Account, PatchMe(a)
      PROVE  HeirsCounted(t)'
    BY <1>1, <1>8 DEF PatchMe, history, GoesOn
<1>9. ASSUME NEW a \in Account, DeleteMe(a)
      PROVE  HeirsCounted(t)'
    <2>1. t # None /\ Consuming(t)' \subseteq Consuming(t)
        BY <1>9, AccountsAssumption DEF DeleteMe, Consuming
    <2>2. Heirs(t)' \subseteq Heirs(t)
        BY <1>9, <2>1 DEF DeleteMe, Heirs
    <2> QED BY <2>1, <2>2, HeirsStay
<1>10. CASE UNCHANGED vars
    BY <1>1, <1>10 DEF vars, history, GoesOn
<1> QED BY <1>2, <1>3, <1>4, <1>5, <1>6, <1>7, <1>8, <1>9, <1>10 DEF Next, Step

-----------------------------------------------------------------------------
(* Revoked tokens of clients *)

\* What a client waits for, or has lost, while its token stays
LEMMA HeldStay ==
    ASSUME Core, NEW t \in Token, HeldTold(t), t \in held' => t \in held,
           tokens'[t].state = "revoked" => tokens[t].state = "revoked",
           t \in held' /\ t \in lost => t \in lost',
           \A r \in Req : Spent(req[r]) /\ req[r].old = t /\ t \in held'
                          /\ tokens'[t].state = "revoked" =>
               t \in lost' \/ (Spent(req'[r]) /\ req'[r].old = t)
    PROVE  HeldTold(t)'
BY DEF HeldTold, Spent

\* A request of an account that is gone has no revoked token.
LEMMA GoneHasNone ==
    ASSUME Core, NEW r \in Req, req[r].new = None, req[r].old # None, ~Live(req[r].user)
    PROVE  tokens[req[r].old].state # "revoked"
<1>1. RequestSound(req[r]) /\ req[r].old \in Token
    BY OldIs DEF Core, RequestsSound
<1> QED BY <1>1 DEF RequestSound, Core, TokensSound, TokenSound

LEMMA HeldKept ==
    ASSUME Core, [Next]_vars, NEW t \in Token, HeldTold(t)
    PROVE  HeldTold(t)'
<1>1. ASSUME UNCHANGED <<tokens, held, lost>>,
             \A r \in Req : req'[r] = req[r] \/ ~Spent(req[r])
                            \/ (Spent(req'[r]) /\ req'[r].old = req[r].old)
                            \/ tokens[req[r].old].state # "revoked"
      PROVE  HeldTold(t)'
    BY <1>1, HeldStay
<1>2. req \in [Req -> Request]
    BY DEF Core, TypeOK
<1>3. ASSUME NEW r \in Req, NEW l \in Login, NEW given \in BOOLEAN, SignIn(r, l, given)
      PROVE  HeldTold(t)'
    <2>1. ~Spent(req[r]) /\ \A p \in Req : p # r => req'[p] = req[p]
        BY <1>2, <1>3 DEF SignIn, Spent
    <2> QED BY <1>1, <1>3, <2>1 DEF SignIn, rows, history
<1>4. ASSUME NEW r \in Req, NEW a \in Account, CreateUser(r, a)
      PROVE  HeldTold(t)'
    <2>1. ~Spent(req[r]) /\ \A p \in Req : p # r => req'[p] = req[p]
        BY <1>2, <1>4 DEF CreateUser, Spent
    <2> QED BY <1>1, <1>4, <2>1 DEF CreateUser, history
<1>5. ASSUME NEW r \in Req, CreateConflicts(r)
      PROVE  HeldTold(t)'
    <2>1. ~Spent(req[r]) /\ \A p \in Req : p # r => req'[p] = req[p]
        BY <1>2, <1>5 DEF CreateConflicts, Finish, Spent
    <2> QED BY <1>1, <1>5, <2>1 DEF CreateConflicts, rows, history
<1>6. ASSUME NEW r \in Req, Backfill(r)
      PROVE  HeldTold(t)'
    <2>1. ~Spent(req[r]) /\ \A p \in Req : p # r => req'[p] = req[p]
        BY <1>2, <1>6 DEF Backfill, Spent
    <2> QED BY <1>1, <1>6, <2>1 DEF Backfill
<1>7. ASSUME NEW r \in Req, NEW u \in Token, Refresh(r, u)
      PROVE  HeldTold(t)'
    <2>1. ~Spent(req[r]) /\ \A p \in Req : p # r => req'[p] = req[p]
        BY <1>2, <1>7 DEF Refresh, Spent
    <2> QED BY <1>1, <1>7, <2>1 DEF Refresh, rows, history
<1>8. ASSUME NEW r \in Req, RevokeConsumed(r)
      PROVE  HeldTold(t)'
    <2>1. /\ req[r].at = "revoke" /\ tokens' = Revoked(req[r].old)
          /\ req' = [req EXCEPT ![r] = [req[r] EXCEPT !.at = "user"]]
          /\ UNCHANGED <<held, lost>>
        BY <1>8 DEF RevokeConsumed, history
    <2>2. req[r] \in Request /\ RequestSound(req[r])
        BY DEF Core, TypeOK, RequestsSound
    <2>3. req[r].old # None
        BY <2>1, <2>2 DEF RequestSound
    <2>4. Spent(req'[r]) /\ req'[r].old = req[r].old /\ ~Spent(req[r])
        BY <1>2, <2>1, <2>2, <2>3 DEF Spent, Request
    <2>5. CASE t = req[r].old
        BY <2>4, <2>5 DEF HeldTold
    <2>6. CASE t # req[r].old
        <3>1. tokens'[t] = tokens[t]
            BY <2>1, <2>3, <2>6, OldIs, RevokedIs
        <3>2. \A p \in Req : p # r => req'[p] = req[p]
            BY <1>2, <2>1
        <3> QED BY <2>1, <2>4, <3>1, <3>2, HeldStay
    <2> QED BY <2>5, <2>6
<1>9. ASSUME NEW r \in Req, LoadUser(r)
      PROVE  HeldTold(t)'
    <2>1. req[r].at = "user" /\ UNCHANGED <<tokens, held, lost>>
        BY <1>9 DEF LoadUser, rows, history
    <2>2. req[r] \in Request /\ RequestSound(req[r])
        BY DEF Core, TypeOK, RequestsSound
    <2>3. req[r].old # None /\ req[r].new = None
        BY <2>1, <2>2 DEF RequestSound
    <2>4. CASE Live(req[r].user)
        <3>1. req' = [req EXCEPT ![r] = [req[r] EXCEPT !.at = "issue"]]
            BY <1>9, <2>4 DEF LoadUser
        <3>2. Spent(req'[r]) /\ req'[r].old = req[r].old
            BY <1>2, <2>2, <2>3, <3>1 DEF Spent, Request
        <3>3. \A p \in Req : p # r => req'[p] = req[p]
            BY <1>2, <3>1
        <3> QED BY <1>1, <2>1, <3>2, <3>3
    <2>5. CASE ~Live(req[r].user)
        <3>1. tokens[req[r].old].state # "revoked"
            BY <2>3, <2>5, GoneHasNone
        <3>2. \A p \in Req : p # r => req'[p] = req[p]
            BY <1>2, <1>9, <2>5 DEF LoadUser, Finish
        <3> QED BY <1>1, <2>1, <3>1, <3>2
    <2> QED BY <2>4, <2>5
<1>10. ASSUME NEW r \in Req, NEW u \in Token, IssueSession(r, u)
       PROVE  HeldTold(t)'
    <2>1. /\ req[r].at = "issue" /\ tokens[u].state = "free"
          /\ tokens' = [tokens EXCEPT ![u] = [state |-> "open", user |-> req[r].user]]
          /\ req' = [req EXCEPT ![r] = [Idle EXCEPT !.at = "answer", !.old = req[r].old, !.new = u]]
          /\ UNCHANGED <<held, lost>>
        BY <1>10 DEF IssueSession
    <2>2. tokens'[t].state = "revoked" => tokens[t].state = "revoked"
        BY <2>1 DEF Core, TypeOK
    <2>3. Spent(req[r]) => Spent(req'[r]) /\ req'[r].old = req[r].old
        BY <1>2, <2>1 DEF Spent, Idle
    <2>4. \A p \in Req : p # r => req'[p] = req[p]
        BY <1>2, <2>1
    <2> QED BY <2>1, <2>2, <2>3, <2>4, HeldStay
<1>11. ASSUME NEW r \in Req, IssueRefused(r)
       PROVE  HeldTold(t)'
    <2>1. /\ req[r].at = "issue" /\ ~Live(req[r].user) /\ UNCHANGED <<tokens, held, lost>>
          /\ Finish(r)
        BY <1>11 DEF IssueRefused, rows, history
    <2>2. req[r].new = None
        BY <2>1 DEF Core, RequestsSound, RequestSound
    <2>3. Spent(req[r]) => tokens[req[r].old].state # "revoked"
        BY <2>1, <2>2, GoneHasNone DEF Spent
    <2>4. \A p \in Req : p # r => req'[p] = req[p]
        BY <1>2, <2>1 DEF Finish
    <2> QED BY <1>1, <2>1, <2>3, <2>4
<1>12. ASSUME NEW r \in Req, Answer(r)
       PROVE  HeldTold(t)'
    <2>1. /\ req[r].at = "answer" /\ req' = [req EXCEPT ![r] = Idle] /\ UNCHANGED tokens
          /\ held' = (held \ {req[r].old}) \cup {req[r].new} /\ lost' = lost \ {req[r].old}
        BY <1>12 DEF Answer, Finish, rows
    <2>2. req[r].new # None
        BY <2>1 DEF Core, RequestsSound, RequestSound
    <2>3. tokens[req[r].new].state # "revoked"
        BY <2>2, NewIs
    <2>4. \A p \in Req : p # r => req'[p] = req[p]
        BY <1>2, <2>1
    <2>5. CASE t = req[r].new
        BY <2>1, <2>3, <2>5 DEF HeldTold
    <2>6. CASE t # req[r].new
        BY <2>1, <2>4, <2>6, HeldStay
    <2> QED BY <2>5, <2>6
<1>13. ASSUME NEW r \in Req, Die(r)
       PROVE  HeldTold(t)'
    <2>1. /\ req' = [req EXCEPT ![r] = Idle] /\ UNCHANGED <<tokens, held>>
          /\ lost' = IF Spent(req[r]) THEN lost \cup ({req[r].old} \cap held) ELSE lost
        BY <1>13 DEF Die, Finish, rows
    <2>2. \A p \in Req : p # r => req'[p] = req[p]
        BY <1>2, <2>1
    <2> QED BY <2>1, <2>2, HeldStay
<1>14. ASSUME NEW u \in Token, Logout(u)
       PROVE  HeldTold(t)'
    <2>1. /\ tokens' = Revoked(u) /\ held' = held \ {u} /\ lost' = lost \ {u} /\ UNCHANGED req
        BY <1>14 DEF Logout
    <2>2. CASE t = u
        BY <2>1, <2>2 DEF HeldTold
    <2>3. CASE t # u
        <3>1. tokens'[t] = tokens[t]
            BY <2>1, <2>3, RevokedIs
        <3> QED BY <2>1, <2>3, <3>1, HeldStay
    <2> QED BY <2>2, <2>3
<1>15. ASSUME NEW a \in Account, PatchMe(a)
       PROVE  HeldTold(t)'
    BY <1>1, <1>15 DEF PatchMe, history
<1>16. ASSUME NEW a \in Account, DeleteMe(a)
       PROVE  HeldTold(t)'
    <2>1. /\ tokens'[t] = IF tokens[t].user = a THEN [state |-> "dropped", user |-> None]
                          ELSE tokens[t]
          /\ held' = {u \in held : tokens[u].user # a} /\ lost' = {u \in lost : tokens[u].user # a}
          /\ UNCHANGED req
        BY <1>16 DEF DeleteMe
    <2> QED BY <2>1, HeldStay
<1>17. CASE UNCHANGED vars
    BY <1>1, <1>17 DEF vars, rows, history
<1> QED BY <1>3, <1>4, <1>5, <1>6, <1>7, <1>8, <1>9, <1>10, <1>11, <1>12, <1>13, <1>14, <1>15,
           <1>16, <1>17 DEF Next, Step

-----------------------------------------------------------------------------
(* Names *)

\* A step that leaves the account and its name, and starts no backfill of it
LEMMA NamesStay ==
    ASSUME Core, NEW a \in Account, NamesCounted(a), overwritten'[a] = overwritten[a],
           users'[a].state = users[a].state, users'[a].name = users[a].name,
           Live(a) /\ users[a].name # None => Backfilling(a)' \subseteq Backfilling(a)
    PROVE  NamesCounted(a)'
<1>1. CASE Live(a) /\ users[a].name # None
    <2>1. PICK S : S = Backfilling(a)'
        OBVIOUS
    <2>2. /\ Cardinality(S) \in Nat /\ Cardinality(S) <= Cardinality(Backfilling(a))
          /\ Cardinality(Backfilling(a)) \in Nat /\ Cardinality(Req) \in Nat
        BY <1>1, <2>1, BackfillsFinite, PartOf
    <2>3. overwritten[a] \in Nat
        BY DEF Core, TypeOK
    <2>4. overwritten[a] + Cardinality(S) <= Cardinality(Req)
        BY <1>1, <2>2, <2>3 DEF NamesCounted
    <2> QED BY <1>1, <2>1, <2>4 DEF NamesCounted, Live
<1>2. CASE ~(Live(a) /\ users[a].name # None)
    BY <1>2 DEF NamesCounted, Live
<1> QED BY <1>1, <1>2

\* No name was overwritten yet: at most every request is a backfill.
LEMMA NamesFirst ==
    ASSUME NEW a \in Account, overwritten'[a] = 0, Live(a)' \/ users'[a].name = None
    PROVE  NamesCounted(a)'
<1>1. PICK S : S = Backfilling(a)'
    OBVIOUS
<1>2. S \subseteq Req
    BY <1>1 DEF Backfilling
<1>3. Cardinality(S) \in Nat /\ Cardinality(S) <= Cardinality(Req) /\ Cardinality(Req) \in Nat
    BY <1>2, BackfillsFinite, PartOf
<1>4. 0 + Cardinality(S) <= Cardinality(Req)
    BY <1>3
<1> QED BY <1>1, <1>4 DEF NamesCounted

\* A backfill that overwrites a name is not on its way any more.
LEMMA BackfillCounted ==
    ASSUME Core, NEW r \in Req, Backfill(r), NEW a \in Account, NamesCounted(a)
    PROVE  NamesCounted(a)'
<1>1. /\ req[r].at = "backfill" /\ req' = [req EXCEPT ![r] = [req[r] EXCEPT !.at = "issue"]]
      /\ users' = IF Live(req[r].user) THEN [users EXCEPT ![req[r].user].name = "given"] ELSE users
      /\ overwritten' = IF users[req[r].user].name = "own"
                        THEN [overwritten EXCEPT ![req[r].user] = @ + 1] ELSE overwritten
    BY DEF Backfill
<1>2. Backfilling(a)' \subseteq Backfilling(a)
    <2>1. \A p \in Req : GoesOn(req[p], req'[p])
        BY StepsGoOn
    <2> QED BY <2>1 DEF GoesOn, Backfilling
<1>3. users \in [Account -> UserRow] /\ overwritten \in [Account -> Nat] /\ overwritten[a] \in Nat
    BY DEF Core, TypeOK
<1>4. CASE req[r].user # a
    <2>1. users'[a] = users[a] /\ overwritten'[a] = overwritten[a]
        BY <1>1, <1>3, <1>4
    <2> QED BY <1>2, <2>1, NamesStay
<1>5. CASE req[r].user = a /\ ~Live(a)
    <2>1. users[a].name # "own"
        BY <1>5, AccountsAssumption DEF NamesCounted
    <2>2. users'[a] = users[a] /\ overwritten'[a] = overwritten[a]
        BY <1>1, <1>5, <2>1
    <2> QED BY <1>2, <2>2, NamesStay
<1>6. CASE req[r].user = a /\ Live(a)
    <2>0. Live(a)' /\ users'[a].name # None
        <3>1. users'[a] = [users[a] EXCEPT !.name = "given"] /\ users[a] \in UserRow
            BY <1>1, <1>3, <1>6
        <3> QED BY <1>6, <3>1, AccountsAssumption DEF UserRow, Live
    <2>1. CASE users[a].name = None
        <3>1. overwritten[a] = 0 /\ overwritten'[a] = overwritten[a]
            BY <1>1, <1>6, <2>1, AccountsAssumption DEF NamesCounted
        <3> QED BY <2>0, <3>1, NamesFirst
    <2>2. CASE users[a].name # None
        <3>1. PICK S : S = Backfilling(a)'
            OBVIOUS
        <3>2. r \in Backfilling(a) /\ r \notin S
            <4>1. req'[r].at = "issue"
                BY <1>1 DEF Core, TypeOK, Request
            <4> QED BY <1>1, <1>6, <3>1, <4>1 DEF Backfilling
        <3>3. S \subseteq Backfilling(a) \ {r}
            BY <1>2, <3>1, <3>2
        <3>4. /\ IsFiniteSet(Backfilling(a) \ {r}) /\ Cardinality(Req) \in Nat
              /\ Cardinality(Backfilling(a) \ {r}) = Cardinality(Backfilling(a)) - 1
              /\ Cardinality(Backfilling(a)) \in Nat
            BY <3>2, BackfillsFinite, FS_RemoveElement
        <3>5. Cardinality(S) \in Nat /\ Cardinality(S) <= Cardinality(Backfilling(a)) - 1
            BY <3>3, <3>4, PartOf
        <3>6. overwritten'[a] \in Nat /\ overwritten'[a] <= overwritten[a] + 1
            BY <1>1, <1>3, <1>6
        <3>7. overwritten[a] + Cardinality(Backfilling(a)) <= Cardinality(Req)
            BY <1>6, <2>2 DEF NamesCounted
        <3>8. overwritten'[a] + Cardinality(S) <= Cardinality(Req)
            BY <1>3, <3>4, <3>5, <3>6, <3>7
        <3> QED BY <2>0, <3>1, <3>8 DEF NamesCounted
    <2> QED BY <2>1, <2>2
<1> QED BY <1>4, <1>5, <1>6

LEMMA NamesKept ==
    ASSUME Core, [Next]_vars, NEW a \in Account, NamesCounted(a)
    PROVE  NamesCounted(a)'
<1>1. ASSUME UNCHANGED <<users, overwritten>>, \A p \in Req : GoesOn(req[p], req'[p])
      PROVE  NamesCounted(a)'
    <2>1. Backfilling(a)' \subseteq Backfilling(a)
        BY <1>1 DEF GoesOn, Backfilling
    <2> QED BY <1>1, <2>1, NamesStay
<1>2. ASSUME NEW r \in Req, NEW l \in Login, NEW given \in BOOLEAN, SignIn(r, l, given)
      PROVE  NamesCounted(a)'
    <2>1. /\ \A p \in Req : p # r => req'[p] = req[p]
          /\ req'[r].at = "backfill" => req'[r].user \in Account /\ NeedsName(req'[r].user)
        BY <1>2 DEF SignIn, Idle, Core, TypeOK
    <2>2. users[a].name # None => Backfilling(a)' \subseteq Backfilling(a)
        BY <2>1 DEF Backfilling, NeedsName
    <2> QED BY <1>2, <2>2, NamesStay DEF SignIn, rows, history
<1>3. ASSUME NEW r \in Req, NEW u \in Token, Refresh(r, u)
      PROVE  NamesCounted(a)'
    <2>1. req'[r].at = "revoke" /\ \A p \in Req : p # r => req'[p] = req[p]
        BY <1>3 DEF Refresh, Idle, Core, TypeOK
    <2>2. Backfilling(a)' \subseteq Backfilling(a)
        BY <2>1 DEF Backfilling
    <2> QED BY <1>3, <2>2, NamesStay DEF Refresh, rows, history
<1>4. ASSUME NEW r \in Req, NEW b \in Account, CreateUser(r, b)
      PROVE  NamesCounted(a)'
    <2>1. /\ users[b].state = "free" /\ \A c \in Account : c # b => users'[c] = users[c]
          /\ UNCHANGED overwritten
        BY <1>4 DEF CreateUser, Core, TypeOK, history
    <2>2. CASE a = b
        <3>1. overwritten'[a] = 0
            BY <2>1, <2>2 DEF NamesCounted, Live
        <3>2. Live(a)'
            BY <1>4, <2>2 DEF CreateUser, Core, TypeOK, Live
        <3> QED BY <3>1, <3>2, NamesFirst
    <2>3. CASE a # b
        <3>1. \A p \in Req : GoesOn(req[p], req'[p])
            BY <1>4, StepsGoOn
        <3>2. Backfilling(a)' \subseteq Backfilling(a)
            BY <3>1 DEF GoesOn, Backfilling
        <3> QED BY <2>1, <2>3, <3>2, NamesStay
    <2> QED BY <2>2, <2>3
<1>5. ASSUME NEW r \in Req, Backfill(r)
      PROVE  NamesCounted(a)'
    BY <1>5, BackfillCounted
<1>6. ASSUME NEW r \in Req, NEW u \in Token, IssueSession(r, u)
      PROVE  NamesCounted(a)'
    BY <1>1, <1>6, StepsGoOn DEF IssueSession
<1>7. ASSUME NEW r \in Req,
             \/ CreateConflicts(r) \/ RevokeConsumed(r) \/ LoadUser(r)
             \/ IssueRefused(r) \/ Answer(r) \/ Die(r)
      PROVE  NamesCounted(a)'
    <2>1. UNCHANGED <<users, overwritten>>
        BY <1>7 DEF CreateConflicts, RevokeConsumed, LoadUser, IssueRefused, Answer, Die, rows, history
    <2>2. \A p \in Req : GoesOn(req[p], req'[p])
        BY <1>7, StepsGoOn
    <2> QED BY <1>1, <2>1, <2>2
<1>8. ASSUME NEW u \in Token, Logout(u)
      PROVE  NamesCounted(a)'
    BY <1>1, <1>8 DEF Logout, GoesOn
<1>9. ASSUME NEW b \in Account, PatchMe(b)
      PROVE  NamesCounted(a)'
    <2>1. /\ Live(b) /\ users' = [users EXCEPT ![b].name = "own"] /\ UNCHANGED <<req, overwritten>>
          /\ users \in [Account -> UserRow]
        BY <1>9 DEF PatchMe, history, Core, TypeOK
    <2>2. Backfilling(a)' \subseteq Backfilling(a)
        BY <2>1 DEF Backfilling
    <2>3. CASE a # b
        BY <2>1, <2>2, <2>3, NamesStay
    <2>4. CASE a = b /\ users[a].name = None
        <3>1. overwritten'[a] = 0
            BY <2>1, <2>4 DEF NamesCounted
        <3>2. Live(a)'
            BY <2>1, <2>4 DEF Live
        <3> QED BY <3>1, <3>2, NamesFirst
    <2>5. CASE a = b /\ users[a].name # None
        <3>1. users'[a] = [users[a] EXCEPT !.name = "own"] /\ users[a] \in UserRow
            BY <2>1, <2>5
        <3>2. Live(a) /\ Live(a)' /\ users'[a].name # None
            BY <2>1, <2>5, <3>1, AccountsAssumption DEF UserRow, Live
        <3>3. overwritten[a] + Cardinality(Backfilling(a)) <= Cardinality(Req)
            BY <2>5, <3>2 DEF NamesCounted
        <3>4. Backfilling(a)' = Backfilling(a)
            BY <2>1 DEF Backfilling
        <3> QED BY <2>1, <3>2, <3>3, <3>4 DEF NamesCounted
    <2> QED BY <2>3, <2>4, <2>5
<1>10. ASSUME NEW b \in Account, DeleteMe(b)
       PROVE  NamesCounted(a)'
    <2>1. /\ overwritten' = [overwritten EXCEPT ![b] = 0] /\ UNCHANGED req
          /\ \A c \in Account : c # b => users'[c] = users[c]
        BY <1>10 DEF DeleteMe, Core, TypeOK
    <2>2. CASE a = b
        <3>1. overwritten'[a] = 0
            BY <2>1, <2>2 DEF Core, TypeOK
        <3>2. users'[a].name = None
            BY <1>10, <2>2 DEF DeleteMe, Core, TypeOK
        <3> QED BY <3>1, <3>2, NamesFirst
    <2>3. CASE a # b
        <3>1. overwritten'[a] = overwritten[a]
            BY <2>1, <2>3 DEF Core, TypeOK
        <3>2. Backfilling(a)' \subseteq Backfilling(a)
            BY <2>1 DEF Backfilling
        <3> QED BY <2>1, <2>3, <3>1, <3>2, NamesStay
    <2> QED BY <2>2, <2>3
<1>11. CASE UNCHANGED vars
    BY <1>1, <1>11 DEF vars, rows, history, GoesOn
<1> QED BY <1>2, <1>3, <1>4, <1>5, <1>6, <1>7, <1>8, <1>9, <1>10, <1>11 DEF Next, Step

-----------------------------------------------------------------------------
(* Theorems *)

LEMMA CoreKept ==
    ASSUME Core, [Next]_vars
    PROVE  Core'
<1>1. ASSUME NEW r \in Req, Step(r)
      PROVE  Core'
    <2>1. ASSUME NEW l \in Login, NEW given \in BOOLEAN, SignIn(r, l, given)
          PROVE  Core'
        BY <2>1, SignInKeeps
    <2>2. ASSUME NEW a \in Account, CreateUser(r, a)
          PROVE  Core'
        BY <2>2, CreateUserKeeps
    <2>3. CASE CreateConflicts(r) \/ IssueRefused(r)
        <3>1. lost' \subseteq Token
            BY <2>3 DEF CreateConflicts, IssueRefused, history, Core, TypeOK
        <3> QED BY <2>3, <3>1, FinishKeeps DEF CreateConflicts, IssueRefused, history
    <2>4. CASE Backfill(r)
        BY <2>4, BackfillKeeps
    <2>5. ASSUME NEW t \in Token, Refresh(r, t)
          PROVE  Core'
        BY <2>5, RefreshKeeps
    <2>6. CASE RevokeConsumed(r) \/ LoadUser(r)
        BY <2>6, RevokeConsumedKeeps, LoadUserKeeps
    <2>7. ASSUME NEW t \in Token, IssueSession(r, t)
          PROVE  Core'
        BY <2>7, IssueSessionKeeps
    <2>8. CASE Answer(r)
        BY <2>8, AnswerKeeps
    <2>9. CASE Die(r)
        <3>1. lost' \subseteq Token
            BY <2>9 DEF Die, Core, TypeOK
        <3> QED BY <2>9, <3>1, FinishKeeps DEF Die
    <2> QED BY <1>1, <2>1, <2>2, <2>3, <2>4, <2>5, <2>6, <2>7, <2>8, <2>9 DEF Step
<1>2. ASSUME NEW t \in Token, Logout(t)
      PROVE  Core'
    BY <1>2, LogoutKeeps
<1>3. ASSUME NEW a \in Account, PatchMe(a) \/ DeleteMe(a)
      PROVE  Core'
    BY <1>3, PatchMeKeeps, DeleteMeKeeps
<1>4. CASE UNCHANGED vars
    <2> USE <1>4 DEF vars, rows, history
    <2>1. TypeOK' /\ UsersSound' /\ TokensSound'
        BY DEF Core, TypeOK, UsersSound, TokensSound, TokenSound, Live
    <2>2. RequestsSound' /\ NewsApart'
        BY DEF Core, RequestsSound, RequestSound, Spent, NewsApart
    <2> QED BY <2>1, <2>2 DEF Core
<1> QED BY <1>1, <1>2, <1>3, <1>4 DEF Next

LEMMA NextKeeps ==
    ASSUME IInv, [Next]_vars
    PROVE  IInv'
BY CoreKept, HeirsKept, HeldKept, NamesKept DEF IInv, Counts

\* The strengthened invariant holds however sign-ins, refreshes and deletions
\* interleave, and wherever a request dies.
THEOREM Inductive == Spec => []IInv
BY InitIInv, NextKeeps, PTL DEF Spec

\* Every account has one identity, identities and tokens have their account, and an
\* e-mail has one account at most (createUserWithIdentity, deleteUser in repo.go).
THEOREM AccountsCorrect == Spec => []AccountsSound
<1>1. ASSUME IInv
      PROVE  AccountsSound
    <2>1. ASSUME NEW a \in Account, Live(a)
          PROVE  Cardinality({l \in Login : identities[l] = a}) = 1
        <3>1. PICK l \in Login : \A m \in Login : identities[m] = a <=> m = l
            BY <1>1, <2>1 DEF IInv, Core, UsersSound
        <3>2. {m \in Login : identities[m] = a} = {l}
            BY <3>1
        <3> QED BY <3>2, FS_Singleton
    <2> QED BY <1>1, <2>1 DEF IInv, Core, UsersSound, TokensSound, TokenSound, AccountsSound
<1> QED BY <1>1, Inductive, PTL

\* A token that was exchanged is good no more; the refreshes that read it while it
\* was good bound how often it is exchanged; and a client has a revoked token only
\* while its refresh runs or after one died (consumeRefreshToken in repo.go).
THEOREM RotationCorrect == Spec => []RotationBounded
<1>1. ASSUME IInv
      PROVE  RotationBounded
    <2>1. ASSUME NEW t \in Token
          PROVE  /\ Heirs(t) # {} => tokens[t].state # "open"
                 /\ Cardinality(Heirs(t)) + Cardinality(Consuming(t)) <= Cardinality(Req)
                 /\ HeldTold(t)
        <3>1. Heirs(t) # {} => tokens[t].state # "open"
            BY <1>1, AccountsAssumption DEF IInv, Core, TokensSound, TokenSound, Heirs
        <3> QED BY <1>1, <3>1 DEF IInv, Counts, HeirsCounted
    <2>2. held \subseteq Token
        BY <1>1 DEF IInv, Core, TypeOK
    <2> QED BY <2>1, <2>2 DEF RotationBounded, HeldTold
<1> QED BY <1>1, Inductive, PTL

\* The name of an account is overwritten by sign-ins that were on their way when it
\* first got one, and by no other (AuthWithProvider in service.go).
THEOREM NamesCorrect == Spec => []LostNamesBounded
<1>1. IInv => LostNamesBounded
    BY DEF IInv, Counts, NamesCounted, LostNamesBounded
<1> QED BY <1>1, Inductive, PTL

=============================================================================
