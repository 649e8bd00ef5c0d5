# CourtScore backend: TLA+ models and proofs

This directory holds TLA+ models of the CourtScore backend (a Go modular
monolith over Postgres with an in-memory event hub), the TLC configurations
that check them on small instances, and TLAPS proofs of what matters most for
every instance.  Paths below are relative to `src/`.

## The system

Every HTTP request is a goroutine of its own.  A handler makes a handful of
database calls, each one statement (READ COMMITTED) or one transaction, and
decides in memory on what it read; apart from the rating transaction nothing
locks a row from one call to the next.  So the hard behaviour is the same
everywhere: two requests pass the same test together, a write lands after the
state it was decided on is gone, and a request that ends half way (client gone,
database error, shutdown after 15 s) leaves its first writes done.

| component | state | operations | what makes it correct | module |
|---|---|---|---|---|
| score: live sessions (`internal/modules/score`) | `live_matches`, the `matches` row of an ended session | start, update, end, cancel, accept, decline, share, expiry | a session ends once and keeps its score and its history row; invitations end by unanimous declines; opponents cancel only play | `LiveMatch`, `LiveSession` |
| score: history and ratings | `matches`, `user_ratings` | create with the free quota, delete, rate | a result is rated once at most and no update is lost, raters never wait for each other, the quota is exceeded by less than the uploads in flight | `History` |
| score: statistics, head-to-head; the ladder of a group | none (derived) | aggregate | all views of one table of matches tell the same | `Records` |
| score: point log | none (derived) | cap, summarize | the figures tell what was played | `PointLog`, `Computations` |
| SSE hub (`internal/platform/sse`) | map of slices of channels under a RW lock | Subscribe, unsubscribe, Publish | every connection gets every event, no Publish waits, gone clients are forgotten | `SseHub` |
| tournament lifecycle (`internal/modules/tournament`) | `tournaments`, `tournament_participants`, `tournament_matches` | create, join, leave, lock, draw, delete, result | the roster is bounded, the status only moves on, fixtures keep their players, history is not wiped | `Tournament` |
| draws and standings | none (pure) | single elimination, round robin and its table, Americano, Mexicano, king of the court | everybody plays, nobody twice at once, byes are not lost, the table is fair | `Draws`, `DrawChecks` |
| single elimination results | `tournament_matches`, champion | submit, confirm, reject, advance | each match is decided once, by the winners of its feeders | `Knockout`, `Bracket` |
| round robin and social results | `tournament_matches`, champion | submit, confirm, append rounds, complete | a round follows a settled one, the night never gets stuck, it ends after its last match with a champion computed from all of them | `SocialNight` |
| social (`internal/modules/social`) | `friendships`, `groups`, `group_members` | request, accept, reject, unfriend; create, join, leave, delete group | one row for two accounts, nobody is a friend without consent, both sides see the same, an accepted friendship is undone only by requests from before, no group without its owner | `Friends` |
| notify (`internal/modules/notify`) | `device_tokens` | register, unregister; push | a late sign-out does not take away a token of another account | `Friends` |
| identity (`internal/modules/identity`) | `users`, `auth_identities`, `refresh_tokens` | provider login, refresh, logout, edit, delete | one account per identity and e-mail; a refresh token is exchanged, and a name the user set is overwritten, no more often than requests overlap | `Accounts` |
| billing (`internal/modules/billing`) | `subscriptions` | verify and link, store notifications, is-Pro | a subscription belongs to an account that linked it and entitles exactly as the report written last says; nobody is Pro in a period that nothing the code read names | `Billing` |
| migrate, platform helpers, wiring | schema | - | - | not modelled |

Interactions: `score` asks `social` whether two accounts are friends and the
entitlement gate (`billing` and the quota) whether an account may archive or
share, writes history, and publishes through the hub after its write;
`tournament` asks the gate for the size limit at creation and publishes to all
participants; `social` reads `matches` for the ladder of a group; deleting an
account in `identity` cascades through the foreign keys into every other table
(`DeleteAccount` in `Friends`, `Billing` and `History`, `DeleteMe` in
`Accounts`); `notify` sends pushes and its failure is only logged.

## Modules

Each stateful module has one action per database call (or per call to a store).
A handler that reads, decides and writes is two or more actions, with what it
keeps in memory in `req[r]`, `r` being one of the requests in flight; `Die(r)`
ends a request anywhere.  Constraints of the tables (foreign keys, unique
indexes, `WHERE` of an `UPDATE`) are named guards: `Insertable`, `Taken`,
`MayDecide`, `EndWhere`.  Variables marked "history" are observations that no
guard reads.

- **`LiveMatch`** `row` is `live_matches`, `history` the `matches` rows
  EndLiveMatch writes.  `StartBegin` ... `ShareBegin` are the reads and tests of
  the handlers; `StartExpire`, `StartProbe`, `StartInsert`, `UpdateWrite`,
  `EndArchive`, `EndRate`, `EndFinish`, `CancelWrite`, `AcceptWrite`,
  `DeclineSet`, `DeclineClose`, `ShareWrite` their writes; `Browse` the reads
  that expire sessions; `DayPasses` and `TurnStale` the clock behind
  `updated_at`.  `refused`, `closing` and `lost` are observations: who was told
  what, which call closed a session, which history rows lost their handler.
  Friendship and the gate's answer are free choices.
- **`LiveSession`** is what a session promises: invited, playing, over, with a
  score and a record that stay as they are once it is over.
- **`History`** is CreateMatch, DeleteMatch and the rating transaction.  `Upload`
  is the validation and the gate, `Insert` the row, `LockFirst`, `LockSecond` and
  `Save` the transaction of `rateFinished`: `Locks(r)` are the rows it holds
  until it commits, and a locker waits for them.  A rating is the number of
  matches it counts; the Elo arithmetic is left out.  A deleted account leaves
  guests in the matches of others.
- **`Records`** are the functions that read the table `History` writes:
  `UserStats` (totals, form, rivals, lines by sport), `HeadToHead`, `Ladder`, with
  the filters and orders of the queries and of the Go code.
- **`Collections`** is what `Records` and `Draws` share.  A sort is `Listed`: an
  element's place is one more than the number of those that come before it.  A
  sum over rows is `SumOf`.
- **`PointLog`** is the point log and its figures; **`Computations`** adds an
  external scoreboard, by the rules of tennis, that produces the logs, and puts
  the match beside the draws in one specification.
- **`SseHub`** models one user's slice as memory: `cells[a][i]` is a cell of an
  array, `list` the slice header in the map, `pub[p]` the walk of a Publish over
  its copy.  Unsubscribing holds the write lock (`writer`) and shifts one cell
  at a step; a racing read returns the cell's value or one it held since the
  walk began (`past`), which is what the data race can produce.
- **`Tournament`** A draw is the set of participants it was made from, its number,
  and whether a match of it is reported or has been completed.  The foreign keys
  and the unique key of `005_tournaments.sql` are guards of the writes
  (`Insertable`, `Removable`, `DrawReplace`).
- **`Draws`** holds the draws, the standings of a night, the table of a round
  robin and the king of the court moves as pure functions.  **`DrawChecks`** makes each draw for every field up to a bound, plays
  nights round by round and round robins match by match from them, and states what
  was wanted of each (`DrawSpec`; `AllSpec` in `Computations` adds the match).
- **`Knockout`** takes the fixtures `Draws` makes and runs SubmitResult,
  ConfirmResult and advance over them.  `calm` is a history variable: no two
  requests met on one match, and none died between completing a match and the
  end of `advance`.
- **`SocialNight`** runs the results of the other four formats over two rounds:
  what a request decides from its one reading of the matches, the next round
  inserted row by row, the count, the champion.  Who plays is left to `Draws`; a
  court is its position, a result is decided or tied.  Its `calm` also asks that
  requests in flight are on matches of one round (any round in a round robin): a
  request that stalls after it read the matches while the next round is played
  does name a champion from the older results, and can end a night whose round
  is half inserted.
- **`Bracket`** is what a bracket promises: a match is decided once, after the
  two that feed it, in favour of one of their winners.
- **`Accounts`** is AuthWithProvider (`SignIn`, `CreateUser`, `Backfill`), the
  rotation of refresh tokens (`Refresh`, `RevokeConsumed`, `LoadUser`,
  `IssueSession`, and `Answer`, when the client has the new token), logout, a
  profile edit and account deletion.  `parent[t]` is the token that `t` was
  exchanged for, `held` what clients keep, `lost` the tokens of clients whose
  refresh died after it had revoked them, `overwritten` how often a backfill
  replaced a name that the account had set.
- **`Friends`** is friendships, groups and device tokens.  A send reads the row of
  two accounts and later inserts or reopens (`InsertRequest`, `ReopenRequest`); a
  join or a leave reads the group first; everything else is one statement.
  `willing[i]` is who asked for or accepted row `i` since its last rejection,
  `undone[i]` how often since then it went back from accepted to pending;
  `leaving` are sign-outs on their way.  The lists, `areFriends`, the search's
  status and the profile are the operators `ListFriends`, `ListIncoming`,
  `Friends`, `DeriveStatus`, `StatusFor`.
- **`Billing`** has both stores as external actors: `reports[p]` is all that the
  store has said of purchase `p`.  An Apple report says what was true when it was
  signed, so any of them may be read; Google is asked and answers the latest, and
  may leave out the end of the period, or say a state that the code does not list
  (`other`: pending, paused, on hold).  `Unverified` is what payloads say whose
  signature does not verify: the code decodes them all the same (`apple.go:148`).
  `Link` and `Notify` read (`Verified` is what they make of it), `FindOwner` and
  `Upsert` are the database calls.  `last`, `handled` and `linker` say which report
  and which link a row is from; `overtaken` are transactions of which Google's
  newer answer was written before an older one, `crossed` those linked while a
  notification had read another owner, and `unreported` is until when readings
  without an end, and unverified payloads, have granted a purchase.

Definitions called "Broken variant of X" are not part of the models: each is a
plausible mistake in X that one of the properties catches when it is put in X's
place.

## Runs

| run | instance | shows |
|---|---|---|
| `live_sessions` | 3 accounts, 1 session in singles, doubles or with guests, 2 history rows, 2 requests | answers, cancels, ends, shares and expiry race: links, declines, history rows, and every step is one of `LiveSession` |
| `history` | 3 accounts (1 Pro), 5 kinds of matches in 2 sports, 3 rows, 2 uploads | each rating counts what was rated, no deadlock among raters, quota, and all views agree on every table that results |
| `sse_hub` | 3 connections, 1 Publish | the registry is exact, quiet publishes reach everybody once, and liveness |
| `sse_publish` | as `sse_hub` | violation: a Publish that walks a shifting array skips a connection |
| `tournament` | 3 accounts, a tournament for 2, 2 + 1 requests, 2 draws | roster, fixtures, deletion, status flow |
| `draws` | fields of 2 to 12, 1 to 4 courts, nights of 3 rounds with clear wins and ties, round robins of up to 4 with any results; matches of up to 10 points of which 9 are kept | all draws, the rounds that follow from results, tables, and the figures of the point log |
| `knockout` | 4 players; 3 players with a bye and a playing organizer; 2 requests, 1 upset | the bracket under any race, and the abstract bracket while the run is calm |
| `social_night` | 2 rounds of 2 courts in 4 formats, 2 requests, 1 upset | rounds follow settled rounds, the night goes on and ends with everything counted, while the run is calm |
| `accounts` | 2 accounts, 2 identities with one e-mail or a hidden one, 3 tokens, 2 requests | no second account, how often one token can be exchanged, and a name be lost, when requests overlap |
| `friends` | 2 accounts, 3 rows, 1 group, 1 device, 3 requests, 1 late sign-out | tables and views, consent, how often an accepted friendship can be undone, who may take a token away |
| `billing` | 2 accounts, 1 purchase in either store, 2 reports and an unverified payload, 2 periods, 2 requests | owners, rows that entitle just as the report written last says, and nobody Pro without a period to account for it |
| `renewal_unknown` | as `billing` | violation: a Google renewal of a linked purchase is unknown |

Why the bounds are enough: every race of this code is between two requests
(judgement of one, write of the other) and a third that changes the state
between them, so two slots, with the operations of a single statement beside
them, show it; a second session or a second purchase would share no row with the
first (the interplay of sessions through history rows is covered by the proofs,
for any number of both).  Four players are the smallest bracket with two
semifinals that feed one final, and three the smallest with a bye; two courts are
the fewest whose results can come in together or whose sizes a tie can change,
and every round decides about the next one in the same way.  Three tokens are a
session that is refreshed twice, or two sessions of one account; two accounts and
two identities are the fewest that can collide on an e-mail.  Three friendship rows
let two crossed requests make two, or follow a friendship that ended, and with
three requests an accepted friendship is undone once, which the bound for two
does not allow.  Two reports are a purchase and any one thing that can become of it
(a renewal, a pause, a grace period, its end, a revocation), each of which may be
read before and after; two periods let each run out.  Two singles with
the players swapped lock in opposite order; form and rivals are cut at two and
one so that the cut happens, as the point log is at nine.  `CHECK_DEADLOCK FALSE`
is set where the bounded supply of rows, tokens, rounds or matches runs out.

Fairness: only `HubFairSpec` of `SseHub` assumes any.  A Publish in progress, an
unsubscribe in progress and the detection of a gone client (the request's
context, or the failing write of the 25 second heartbeat) go on eventually:
goroutines are scheduled and none of these steps waits for a client.  No
property assumes that users do anything, and everywhere else a request may die
instead of going on, so nothing that takes one request more is promised to
happen.

## Where the code differs from what it says

Two disagreements are runs that TLC must refute:

- `sse_publish`: "Publish sends an event to all connections of a specific user"
  (`internal/platform/sse/hub.go:56`); a racing unsubscribe makes it skip one.
- `renewal_unknown`: "unknown purchase; ignore webhook until a client links it"
  (`internal/modules/billing/service.go:173`); Google gives a renewal an order id
  of its own, which `google.go:86` takes for the transaction, so the renewal of a
  purchase that *was* linked is ignored.

These follow from the models too; the properties that hold are stated around
them:

- A cancel between the archive and the UPDATE of an end leaves a history row of a
  cancelled session (`score/service.go:417-433` against the comment at 448 "without
  writing match history").  `HistoryAccounted` counts such rows as ended otherwise.
- Two starts at once leave two open sessions with one opponent
  (`score/service.go:317`; `test/test.md:61` says "duplicate open → 409").
- A delete that read LOCKED before a draw wipes an ongoing tournament
  (`tournament/service.go:230-246`, against its comment).  It takes two requests of
  the organizer at once; `HistoryKept` is stated for one at a time.
- "atomically revokes it" (`identity/repo.go:180`): the token is read and then
  revoked by an UPDATE by its hash that looks at nothing else, so two refreshes of one
  token that meet both go on, and each issues a successor.  `RotationBounded` says
  how many successors that can make.
- "Backfill ... if the user hasn't set them yet" (`identity/service.go:86`): the
  account was read before, so a backfill on its way overwrites a name set in
  between.  `LostNamesBounded` says how often.
- "turns a rejected row back into a pending one" (`social/repo.go:186`): the UPDATE is by id
  alone, and a reopening that read the rejection undoes a friendship that was
  accepted in the meantime.  `UndoneBounded` says how often.
- An answer of Google Play without an end of the period, or with a state that is not
  listed (pending, paused), counts as bought: without an end, for 30 days from
  each time it is read (`billing/google.go:60`, `81`).  A payload of Apple whose
  signature does not verify is decoded and taken like one that does
  (`billing/apple.go:148`; `TestAppleJWSFallbackPayload`, `service_test.go:161`, expects
  it to be active).  `ProAccounted` names both as reasons for an account to be Pro.
- An old report of Apple that is handled last wins, and so does an answer of Google
  that was asked for before another; a notification that found the owner before
  another account linked the purchase gives it back to that owner
  (`billing/service.go:138`, `168`).  `RowsAsReported` and `OwnerIsLinker` say what a
  row is worth then.
- A request that dies between completeMatch and advance leaves a bracket that
  nobody can finish (`tournament/service.go:489`).  `BracketAlive` and
  `ImplementsBracket` are stated for runs in which that does not happen;
  `BracketSound` and `SeatsKept` hold even then.
- A request that stalls after it read the matches of a night names a champion from
  older results, and a round that is half inserted can be played and end the night
  (`tournament/social.go:405`, `tournament/repo.go:482`).  The three properties of
  `social_night` are stated for requests on matches of one round.
- A report and a confirmation of one player that overlap let a player confirm his
  own result (`tournament/service.go:525-548`): `BracketSound` says what holds then.
- After a tie on the second court of a king of the court night, winners of the
  first court may sit out (`tournament/social.go:117`, `141-170`): `KingSound` asks
  for decisive rounds where it speaks of who sits out.

## Proofs

`tlapm` checks these for every value of the constants.

- `LiveScore_proofs`, of `LiveMatch`: `Spec => []IInv` and from it `TypeOK`, `LinkSound`,
  `DeclineUnanimous`, `HistoryAccounted`.  The three properties are not
  inductive: they need to know what a handler still knows at its write.
  `LocalSound` says it: the row a request works on exists; the history row it
  holds was written for that session with that score; the opponent who cancels
  saw the session running (so it is not pending any more, as a session never
  goes back); the list of a decline adds only its caller to declines that
  succeeded.  `AbsentIsEmpty`, `ClosedIsEnded` and `DeclinedIsTrue` tie the
  observations to the rows.  Under `IInv` each step maps to a step of
  `LiveSession` or to a stutter: `ImplementsSession` and `OpponentEndsOnlyPlay`.
- `LiveScore_proofs`, of `SseHub`, which streams the events of a live score (its
  `HubInit`, `HubNext`, `HubSpec` are named so that the two stand side by side):
  `HubSpec => []HubInv` gives `RegistrySound` and `QuietPublishExact`.  An
  unsubscribe shifts the very array a publisher may walk: `ListSound` and
  `WriterSound` say what the list holds beside the hole at each step of the shift,
  `WalksSound` what a walk can rely on, and `QuietSound` that while nobody leaves
  the copied part is a prefix of the list.
- `Knockout_proofs`: `Spec => []IInv`, and from it `BracketCorrect`
  (`BracketSound`), `SeatsAreKept` (`SeatsKept`), `NeverStuck` (`BracketAlive`) and
  `Implements` (every calm step is a step of `Bracket` or a stutter), for every
  field, number of requests and of results that change a winner.  The tree itself
  comes first: powers of two, counted as powersets, give the rounds, their widths
  and the two feeders of each match of any field (`Rounds` is a `CHOOSE`, and
  no recursion is needed).  `RowsSound` and `RequestsSound` hold whatever requests
  meet and die: each seat holds somebody of the half of the draw below it.
  `CalmSound` is for histories without a meeting or a crash: both winners who feed
  a match are seated, or a request is at the step that seats them.
  `BracketAlive` needs it in the least round that still has an open match: all
  before it is decided, so its match has both seats and accepts a result.
- `Knockout_proofs`, of the draws and the point log (`AllSpec` of `Computations`),
  for any field, courts, rounds and results:
  - `BracketDrawn` (`ElimSound`): from the same lemmas on powers of two, the first
    round is split into matches of two and byes without a gap, and each match of
    a later round has two feeders (`FieldInv`: the participants are 1 to n, in this order).
  - `NightsAreFair` (`NightsFair`): an Americano window is a segment of the circle of
    players, and two such segments overlap in what remainders say.  A Mexicano
    round is cut from the standings, which are a permutation of the field:
    `ListedIs` shows that counting who comes before gives every place once, for
    any strict order (`RanksBefore` is one).  `NightInv` is the invariant:
    the field, a court at least, every participant tallied, nothing scored
    before the draw, and the courts of a Mexicano are those of its standings.
  - `KingGoesOn` (`KingSound`): the courts of a round are renumbered, and those who
    go to a court come from the one above and the one below, two from each if no
    court was tied; `KingInv` adds to the property what a round in play must look like for the next
    one (two teams of two to a court, no more courts than asked for, positions
    without a gap).
  - `MatchIsTold` (`PointsTold`): `LogInv`: the scores a running game can have
    (`Runs`), and that the games the board has counted are as many as the
    points of the log that closed one, kept or lost by the server (`BoardSound`);
    that `Summarize` takes exactly these points for games, and a break only for
    a break point, is then a matter of the score shown before each of them
    (`FaceTells`).
  - `RobinIsFair` (`RobinSound`): the rotations have a closed form (`From`, `To`: who
    sits where in which round), and two places face each other in one round
    because their sum, modulo an odd number, takes every value once (`FaceOnce`).
    `RobinInv` says that the results are between pairs of the draw, a pair once.
    A sum is a fold over a set: `SumTake` takes any element out of it, by the
    least set for which that would fail, and with it one more result leaves the
    columns of the table balanced (`ColumnsMatchStill`).  The order of the table
    is again one of `ListedIs`.
- `SocialNight_proofs`: `Spec => []IInv` gives `RoundsInOrder`, `ChampionCounted` and
  `NightAlive` for any courts, rounds and requests.  `Shape` and `RequestsSound`
  hold whatever meets and dies.  `CalmSound` is the rest: requests share a round
  (`Alone`), the round after the one at work is the last there is and untouched
  (`NextUntouched`), and what a request has read stays true until it is done
  (`ReadingHolds`: a later write would need an open match in a settled round).
  `Carried` keeps the night alive: with all matches played, somebody is on the way
  to name the champion.  `SomeCourtFull` shows that a king of the court round is
  never empty, however its courts were tied.
- `Tournament_proofs`: `Spec => []Kept` (types, `FieldKept`, `DeletedIsGone` and
  `RosterBounded`: participants plus the joins that have counted stay below the
  limit plus the requests).  It gives each of its parts, and with one request at
  a time a roster that never exceeds the limit (`OneByOneCorrect`).  For one
  request of the organizer at a time (`OneDesk`), `Spec => []Orderly` and from
  it `StatusFlows` and `HistoryKept`.
- `Friends_proofs`: `Spec => []IInv` (`Inductive`), and from it all four
  properties of the run: `ConsentCorrect`, `TablesCorrect`, `UndoneFew`,
  `DevicesKept`.  Neither `FriendsByConsent` nor one row per pair is inductive: a
  reopening writes both accounts into a row it read long ago.  `RequestsSound`
  says that such a row still belongs to the same two accounts or is gone, and
  that a group a request works on was there and, if the request leaves it, is
  not the caller's own (owners do not change); `OneRow` is the unique index over
  the unordered pair, `RowsSound` and `GroupsSound` the foreign keys.  That both
  sides see the same (`ViewsAgree`) follows from `OneRow` alone: a table with one
  row for two accounts leaves each view a single row to read.
  For `UndoneFew` the requests that will reopen a row are counted with the times it
  was undone: a row that is pending or accepted admits no new ones (`MayAsk`), and
  the one that reopened it is no longer among them.
- `Billing_proofs`: `Spec => []IInv` gives `OwnerIsLinker`, `RowsAsReported` and
  `ProAccounted`.  A row and a request in flight carry what some report said, or
  what `unreported` allows: `Told` says which of the two, in `RowsSound` and
  `RequestsSound`, and stays true as time passes and stores go on (`ToldStays`).
  A notification in flight writes back an account that has linked the
  transaction; if the transaction is not `crossed`, it is the last linker or one
  that is gone (`Owned`).  If it is not `overtaken`, no request in flight is older than
  what was handled (`InOrder`), so that the row is from the newest report.
- `Accounts_proofs`: `Spec => []IInv` gives `AccountsSound`, `RotationBounded` and
  `LostNamesBounded`.  `Core` is about single rows: who has an identity, what a
  token that was read looks like now, what each request still knows.  `Counts`
  is about how many: the successors of a token and the requests that still hold it,
  and the names lost and the backfills that are on their way, are together never
  more than there are requests.  They only move from one to the other, because
  nobody reads a revoked token, or an account that has a name, for that.
- `History_proofs`: `Spec => []IInv` gives `RatedExactly`, `SomebodyGoesOn` and
  `QuotaBounded` for any number of uploads.  What an upload counted under its
  locks still holds at its write (`LocksExclusive`); the match it counts for is its
  own and not rated yet; the two rows are locked in the order of their ids, so of
  all who wait, the one who holds the highest row can go on; an account's uploads
  are the limit at most once those past the gate are added.  `ViewsCorrect`
  (`ViewsAgree`) needs one more invariant, `SidesApart`: no account is on both sides
  of a match, which deleting an account keeps.  Every table with it (`SoundTable`)
  reads the same from all sides: `SummaryMirrored` for two opponents, `LinesAddUp`
  for the sports (`SumOfParts`: a sum is the sum of the sums of its parts, shown
  by the least set for which it would fail), `LadderIs` and `CountedAre` for the
  ladder.  The lemmas on sums and sorted lists are those of `Knockout_proofs`.
Assumptions on the constants are named in the modules that declare them.  Sets are
disjoint where the code's types are (`ConstantsAssumption`, `FriendsAssumption`,
`AccountsAssumption`, `BillingAssumption`, `NoneAssumption`, `CardAssumption`), limits
are positive (`TournamentAssumption`, `HubAssumption`, `HistoryAssumption`), a night
has a court and a round (`NightAssumption`), an empty slot is nobody, no match and no
format (`DrawsAssumption`, `MatchAssumption`), a point served by nobody has no side
(`PointLogAssumption`), what is
counted is finite (requests and tokens too, `AccountsAssumption`, `FriendsAssumption`), an account is on one slot of a match (`normalizePartners` refuses a
second one, `score/players.go:31`), and a draw has two participants at least
(`FieldsAssumption`; the code refuses fewer, `bracket.go:33`).

Only model-checked: liveness of the hub (`PublishEnds`, `HungIsForgotten`:
fairness and ENABLED are out of the prover's reach).  Each safety invariant
and action property that a passing run checks is a theorem.

## Not modelled, and why

- Names, formats, set scores and e-mail addresses are opaque where no property
  depends on them.  The arithmetic of an Elo rating (floating point) and the ISO
  week of the activity chart are left out, as are paging and sorting of lists.
- How a signature of a provider or a store is checked, and the cache of Apple's keys
  (`identity/apple.go`): cryptography, and a cache whose only effect is a fetch.  That
  the payload of a purchase is taken when the check fails is modelled.
- The uniqueness of nicknames and the search for users: one query each.
- Events published after a write, and their order at a subscriber: it would take
  the hub and two handlers in one model; the hub itself is modelled.
- The retry of an upload whose rating failed: nothing in it tells a retry from a
  second match, so there is no promise to check.
- Pushes to phones are sent to an external service and only logged when they fail.
- Configuration, the JSON layer and the router keep no state; migrations run once
  at start, each in one transaction.

## Plan

1. Done: all stateful modules of the table above, the pure functions beside them,
   two refinements (`LiveSession` and `Bracket`, both proved), and the proofs above.
2. What a proof could still add is listed under "Only model-checked".
