------------------------------ MODULE Accounts ------------------------------
(***************************************************************************)
(* internal/modules/identity: accounts, the provider identities that sign  *)
(* in to them, and refresh tokens.                                         *)
(*                                                                         *)
(* A request is a goroutine that runs one SQL statement, or one            *)
(* transaction that Postgres orders, per step; between two steps the       *)
(* others run, and at any step the request may die (the client hangs up,   *)
(* the process stops).  Every operation of one statement is one action.    *)
(* The access tokens (JWTs) are checked without the database: a request of *)
(* an account may come after the account is gone.                          *)
(***************************************************************************)
EXTENDS Naturals, FiniteSets

CONSTANTS
    Account, \* ids of users
    Login,   \* provider identities: a provider and its subject
    Email,   \* e-mail addresses
    Emails,  \* bound: the e-mails of the identities, None where the provider keeps it
    Token,   \* refresh tokens
    Req,     \* bound: sign-ins and refreshes in flight at a time
    None

ASSUME AccountsAssumption ==
    /\ None \notin Account \cup Login \cup Token \cup Email \cup {"given", "own"}
    /\ Emails \subseteq [Login -> Email \cup {None}]
    /\ IsFiniteSet(Token) /\ IsFiniteSet(Req)

VARIABLES
    emailOf,    \* the e-mail each provider has for its identity, which never changes
    users,      \* table users: state, e-mail and name
    identities, \* table auth_identities: the account of each identity
    tokens,     \* table refresh_tokens
    req,        \* what each request in flight does next, and its locals
    held,       \* history: tokens that clients keep to refresh with
    parent,     \* history: the token each token was exchanged for, while its account lives
    lost,       \* history: those of them whose refresh died after it had revoked them
    overwritten \* history: how often a backfill replaced the name an account had set

rows == <<emailOf, users, identities, tokens>>
history == <<held, parent, lost, overwritten>>
vars == <<rows, req, history>>

\* A name is absent, given by the provider or set by the user.
Name == {None, "given", "own"}

UserRow == [state : {"free", "live", "gone"}, email : Email \cup {None}, name : Name]

TokenRow == [state : {"free", "open", "revoked", "dropped"}, user : Account \cup {None}]

\* user: the account it works for, old: the token it consumed, new: the one it
\* issued; empty: the name was absent when it read the user, given: the
\* credential has one
Request == [at : {"idle", "create", "backfill", "revoke", "user", "issue", "answer"},
            login : Login \cup {None}, user : Account \cup {None},
            old : Token \cup {None}, new : Token \cup {None}, given : BOOLEAN]

Idle == [at |-> "idle", login |-> None, user |-> None, old |-> None, new |-> None, given |-> FALSE]

TypeOK ==
    /\ emailOf \in [Login -> Email \cup {None}]
    /\ users \in [Account -> UserRow]
    /\ identities \in [Login -> Account \cup {None}]
    /\ tokens \in [Token -> TokenRow]
    /\ req \in [Req -> Request]
    /\ held \in SUBSET Token
    /\ parent \in [Token -> Token \cup {None}]
    /\ lost \in SUBSET Token
    /\ overwritten \in [Account -> Nat]

Init ==
    /\ emailOf \in Emails
    /\ users = [a \in Account |-> [state |-> "free", email |-> None, name |-> None]]
    /\ identities = [l \in Login |-> None]
    /\ tokens = [t \in Token |-> [state |-> "free", user |-> None]]
    /\ req = [r \in Req |-> Idle]
    /\ held = {}
    /\ parent = [t \in Token |-> None]
    /\ lost = {}
    /\ overwritten = [a \in Account |-> 0]

Live(a) == users[a].state = "live"

Finish(r) == req' = [req EXCEPT ![r] = Idle]

-----------------------------------------------------------------------------
(* POST /v1/auth/{provider}: AuthWithProvider *)

\* Broken variant of NeedsName: the provider's name wins.
NeedsNameAlways(a) == TRUE

\* A name is backfilled only if the user has none.
NeedsName(a) == users[a].name = None

\* The credential is verified, and the account of its identity is looked up.
SignIn(r, l, given) ==
    /\ req[r].at = "idle"
    /\ LET a == identities[l]
           next == IF a = None THEN "create"
                   ELSE IF given /\ NeedsName(a) THEN "backfill" ELSE "issue"
       IN  req' = [req EXCEPT ![r] = [Idle EXCEPT !.at = next, !.user = a,
                                              !.login = IF next = "create" THEN l ELSE None,
                                              !.given = next = "create" /\ given]]
    /\ UNCHANGED <<rows, history>>

\* Broken variant of Taken: an identity without an e-mail is never in use.
TakenByEmail(l) ==
    emailOf[l] # None /\ \E a \in Account : Live(a) /\ users[a].email = emailOf[l]

\* An identity and an e-mail have one account at most.
Taken(l) ==
    \/ identities[l] # None
    \/ emailOf[l] # None /\ \E a \in Account : Live(a) /\ users[a].email = emailOf[l]

\* createUserWithIdentity: the user and its identity in one transaction
CreateUser(r, a) ==
    LET l == req[r].login IN
    /\ req[r].at = "create"
    /\ ~Taken(l)
    /\ users[a].state = "free"
    /\ users' = [users EXCEPT ![a] = [state |-> "live", email |-> emailOf[l],
                                      name |-> IF req[r].given THEN "given" ELSE None]]
    /\ identities' = [identities EXCEPT ![l] = a]
    /\ req' = [req EXCEPT ![r] = [Idle EXCEPT !.at = "issue", !.user = a]]
    /\ UNCHANGED <<emailOf, tokens, history>>

\* One of the two INSERTs meets a unique index: both are rolled back, and the
\* answer is 401.
CreateConflicts(r) ==
    /\ req[r].at = "create"
    /\ Taken(req[r].login)
    /\ Finish(r)
    /\ UNCHANGED <<rows, history>>

\* updateUser with the provider's name; its failure is ignored.
Backfill(r) ==
    LET a == req[r].user IN
    /\ req[r].at = "backfill"
    /\ users' = IF Live(a) THEN [users EXCEPT ![a].name = "given"] ELSE users
    /\ overwritten' = IF users[a].name = "own" THEN [overwritten EXCEPT ![a] = @ + 1] ELSE overwritten
    /\ req' = [req EXCEPT ![r].at = "issue"]
    /\ UNCHANGED <<emailOf, identities, tokens, held, parent, lost>>

-----------------------------------------------------------------------------
(* POST /v1/auth/refresh: RefreshSession *)

\* consumeRefreshToken reads the token, which has neither been revoked nor expired
\* (any token may have: a token that expires is one that is not refreshed any more) ...
Refresh(r, t) ==
    /\ req[r].at = "idle"
    /\ t \in held
    /\ tokens[t].state = "open"
    /\ req' = [req EXCEPT ![r] = [Idle EXCEPT !.at = "revoke", !.user = tokens[t].user, !.old = t]]
    /\ UNCHANGED <<rows, history>>

\* Broken variant of Revoked: the row keeps its revoked_at.
RevokedNot(t) == tokens

\* UPDATE ... SET revoked_at
Revoked(t) == IF tokens[t].state = "open" THEN [tokens EXCEPT ![t].state = "revoked"] ELSE tokens

\* ... and revokes it, whatever became of it since the read.
RevokeConsumed(r) ==
    LET t == req[r].old IN
    /\ req[r].at = "revoke"
    /\ tokens' = Revoked(t)
    /\ req' = [req EXCEPT ![r].at = "user"]
    /\ UNCHANGED <<emailOf, users, identities, history>>

\* getUserByID: 500 if the account is gone
LoadUser(r) ==
    /\ req[r].at = "user"
    /\ IF Live(req[r].user) THEN req' = [req EXCEPT ![r].at = "issue"] ELSE Finish(r)
    /\ UNCHANGED <<rows, history>>

-----------------------------------------------------------------------------
(* Both end in issueSession *)

\* The foreign key admits tokens of existing accounts only.
IssueSession(r, t) ==
    LET q == req[r] IN
    /\ q.at = "issue"
    /\ Live(q.user)
    /\ tokens[t].state = "free"
    /\ tokens' = [tokens EXCEPT ![t] = [state |-> "open", user |-> q.user]]
    /\ parent' = [parent EXCEPT ![t] = q.old]
    /\ req' = [req EXCEPT ![r] = [Idle EXCEPT !.at = "answer", !.old = q.old, !.new = t]]
    /\ UNCHANGED <<emailOf, users, identities, held, lost, overwritten>>

IssueRefused(r) ==
    /\ req[r].at = "issue"
    /\ ~Live(req[r].user)
    /\ Finish(r)
    /\ UNCHANGED <<rows, history>>

\* The client keeps the new token in place of the one it presented.
Answer(r) ==
    /\ req[r].at = "answer"
    /\ held' = (held \ {req[r].old}) \cup {req[r].new}
    /\ lost' = lost \ {req[r].old}
    /\ Finish(r)
    /\ UNCHANGED <<rows, parent, overwritten>>

\* It has revoked the token it presented.
Spent(q) == q.old # None /\ q.at \in {"user", "issue", "answer"}

\* The request dies, or its answer is lost. An open transaction is rolled back.
Die(r) ==
    /\ req[r].at # "idle"
    /\ Finish(r)
    /\ lost' = IF Spent(req[r]) THEN lost \cup ({req[r].old} \cap held) ELSE lost
    /\ UNCHANGED <<rows, held, parent, overwritten>>

-----------------------------------------------------------------------------
(* Operations of one statement *)

\* POST /v1/auth/logout: RevokeSession. The client forgets its token.
Logout(t) ==
    /\ t \in held
    /\ tokens' = Revoked(t)
    /\ held' = held \ {t}
    /\ lost' = lost \ {t}
    /\ UNCHANGED <<emailOf, users, identities, req, parent, overwritten>>

\* PATCH /v1/me with a name
PatchMe(a) ==
    /\ Live(a)
    /\ users' = [users EXCEPT ![a].name = "own"]
    /\ UNCHANGED <<emailOf, identities, tokens, req, history>>

\* DELETE /v1/me: the rows that refer to the account go with it.
DeleteMe(a) ==
    /\ Live(a)
    /\ users' = [users EXCEPT ![a] = [state |-> "gone", email |-> None, name |-> None]]
    /\ identities' = [l \in Login |-> IF identities[l] = a THEN None ELSE identities[l]]
    /\ tokens' = [t \in Token |-> IF tokens[t].user = a
                                  THEN [state |-> "dropped", user |-> None]
                                  ELSE tokens[t]]
    /\ held' = {t \in held : tokens[t].user # a}
    /\ lost' = {t \in lost : tokens[t].user # a}
    /\ parent' = [t \in Token |-> IF tokens[t].user = a THEN None ELSE parent[t]]
    /\ overwritten' = [overwritten EXCEPT ![a] = 0]
    /\ UNCHANGED <<emailOf, req>>

-----------------------------------------------------------------------------

Step(r) ==
    \/ \E l \in Login, given \in BOOLEAN : SignIn(r, l, given)
    \/ \E a \in Account : CreateUser(r, a)
    \/ CreateConflicts(r)
    \/ Backfill(r)
    \/ \E t \in Token : Refresh(r, t)
    \/ RevokeConsumed(r)
    \/ LoadUser(r)
    \/ \E t \in Token : IssueSession(r, t)
    \/ IssueRefused(r)
    \/ Answer(r)
    \/ Die(r)

Next ==
    \/ \E r \in Req : Step(r)
    \/ \E t \in Token : Logout(t)
    \/ \E a \in Account : PatchMe(a) \/ DeleteMe(a)

Spec == Init /\ [][Next]_vars

-----------------------------------------------------------------------------
(* Properties *)

\* Two first sign-ins of one identity, a sign-in that meets an e-mail in use and
\* a deleted account leave no user without an identity, no identity or token
\* without its user, and no e-mail with two users.
AccountsSound ==
    /\ TypeOK
    /\ \A a \in Account : Live(a) => Cardinality({l \in Login : identities[l] = a}) = 1
    /\ \A l \in Login : identities[l] # None => Live(identities[l])
    /\ \A t \in Token : tokens[t].state \in {"open", "revoked"} => Live(tokens[t].user)
    /\ \A a, b \in Account : Live(a) /\ Live(b) /\ a # b /\ users[a].email # None =>
                                users[a].email # users[b].email

Heirs(t) == {u \in Token : parent[u] = t}

\* The requests that have read t and not issued its successor yet
Consuming(t) == {r \in Req : req[r].old = t /\ req[r].at \in {"revoke", "user", "issue"}}

\* "looks up a valid ... refresh token and atomically revokes it": two refreshes that
\* meet both read it, and each issues a successor.  A token that has a successor
\* is good no more; it has one at most for each refresh that read it before the
\* first revocation (with one request at a time, one); and a client is left with a
\* revoked token only if a refresh of just this token died after revoking it.
RotationBounded ==
    /\ \A t \in Token :
          /\ Heirs(t) # {} => tokens[t].state # "open"
          /\ Cardinality(Heirs(t)) + Cardinality(Consuming(t)) <= Cardinality(Req)
    /\ \A t \in held : tokens[t].state = "revoked" =>
            t \in lost \/ \E r \in Req : Spent(req[r]) /\ req[r].old = t

Backfilling(a) == {r \in Req : req[r].at = "backfill" /\ req[r].user = a}

\* "Backfill ... if the user hasn't set them yet": what decides is the account as it
\* was read, so a backfill on its way overwrites a name set in between, and another
\* one the name set after that.  In the life of an account that happens once for
\* each sign-in that was on its way when it first got a name, and never again.
LostNamesBounded ==
    \A a \in Account : Live(a) /\ users[a].name # None =>
        overwritten[a] + Cardinality(Backfilling(a)) <= Cardinality(Req)

==============================================================================
