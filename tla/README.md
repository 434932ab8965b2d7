# Formal model of success-budget-backend

TLA+ specifications of the server's concurrent logic, the TLC runs that check
them on small instances, and machine-checked proofs (TLAPS) of the theorems
that hold for every size of the instance. Source paths are relative to the
repository (`src/src/...` is the application's `src/` directory).

The server is a NestJS application: several identical instances over one MySQL
8 database at READ COMMITTED, an SMTP server, and no other shared state. What is
hard in it is what happens between two database statements: another instance's
statement, a crash, a late SMTP answer, a lock that is granted after the world
has changed. The models are therefore built of database statements (or of
transactions, where locks make a transaction one step), and the properties
relate what one statement read to what a later one writes.

## 1. Inventory

| Component | State | Operations | Hard behaviour | What makes it correct |
|---|---|---|---|---|
| **Invitation email delivery** `spaces/space-invite-delivery.ts`, `mail/mail.service.ts` | delivery columns of `space_invites` (status, attempts, attempt id, next attempt, lease), the send log | schedule, expedite, requeue, claim, read back, send, finish, periodic run, clear ended rows | instances and requests race for a row; leases lapse during SMTP; crashes; results of overtaken attempts; timeouts that hide an acceptance | a scheduled email is never lost and always settles; outcomes are truthful; the attempt budget; ended rows are final; a result is written by the attempt that owns the row |
| **Space membership, ownership, invitations** `space-access`, `spaces`, `space-members`, `space-invites`, `write-transaction.ts`, `row-locks.ts` | `spaces`, `space_members`, `space_invites`, row locks | create, delete, leave, remove, invite, resend, revoke, accept; lock prefix of every other space write | lock sets that change while they are being locked; counts and absent rows no lock covers; deadlock; bounded reruns | one owner, each person once; checks still true at commit; successor is the earliest person; nobody is left without a space by a removal of their own; no circular waits; every request ends |
| **Password reset, sessions** `password-reset`, `jwt.strategy.ts` | challenges, code and send counters with windows, `users.auth_version` | request, verify, complete, mark sent/failed, login, authenticate | bcrypt between read and lock; concurrent completions; late send results; login racing a reset | one completion per token; old sessions end; counters are never bypassed by interleaving |
| **Idempotent and transaction writes** `idempotency`, `transactions` | `idempotency_keys`, `transactions` (version, operation id), wallet balances | create, edit, delete, claim key, revive, purge | repeats waiting on an uncommitted key; purge of a key about to be revived; lost results; two wallets per edit | an operation takes effect at most once; balances equal the sum of the records; a stale version never overwrites |
| **Registration, confirmation codes** `users`, `confirmation-codes` | `users`, `confirmation_codes`, starter data | register, resend, reserve send, mark sent/failed, verify | sends overtaken by newer ones; duplicate registration; verification twice | a code that can be used was sent last; starter data exactly once |
| **Categories and limits** `categories`, `limits` | `categories` (archived), `limits` | add, edit, delete/archive, set limits | deletion against a concurrent use; two limit updates | a used category is never deleted; one total limit, one limit per category |
| **Wallets** `wallets` | `wallets`, balances | add, edit, delete | shares locks with transaction writes | no record loses its wallet |
| **Transaction feed and queries** `transactions`, `transaction-queries`, `feed-cursor.ts` | none (reads) | page forward, page back, open around a record, count, latest, one record, record of an operation | records are added, moved and removed between pages and between the statements of one; ties of timestamps; cursors of another selection | no stable record skipped or repeated; a page, its summary and its days are of one moment |
| **Statistics and money** `statistics`, `money.ts`, `local-dates.ts`, overviews in `wallets`, `limits`, `categories` | none (reads) | summary, trend, breakdown, overviews | blocks that are read one by one and shown together; days of 23 and 25 hours; periods that have not ended; rounding and folding | blocks, slices and the history they open agree; figures are by local date |
| **Mail rendering, invitation page, links** `mail`, `invite-page` | none | format, encrypt | none for a model checker | not modelled: formatting and cryptography |
| **Controllers, validation, config, health, currencies** | none | parse, respond | none | not modelled: pure I/O |
| **Migrations, seed** `database` | schema | run once at deploy time | none | not modelled: single process |

How they interact: a request of *membership* calls *delivery*'s schedule inside
its own transaction and starts one attempt after the commit (`deliverSoon`);
acceptance, revocation and deletion of a space write rows that *delivery* reads
without a lock. Every space write of any component locks through
`SpaceAccessService`, which is why *SpaceMembership* models the lock prefix of
all of them. Registration creates the first space; invitations are matched by
address when they are accepted. Password reset and login meet in `users.auth_version`. Transaction
writes, wallets and limits meet in the wallet and space locks. The feed, the
statistics and the overviews take no lock: each response reads the rows those
writes commit in one snapshot (`read-snapshot.ts`), and a client puts several
responses of different snapshots side by side.

`PROJECT.json` lists every hazard at its line with the properties that cover it.

## 2. Modules

| Module | Kind |
|---|---|
| `InviteDelivery` | delivery, one action per database statement, SMTP outcome, failure and clock event |
| `EmailPromise` | abstract specification: what delivery promises about one email |
| `InviteDeliveryProofs` | theorems about `InviteDelivery`: the refinement, and its attempts: how many, and who writes their results |
| `MCInviteDelivery` | symmetry for TLC |
| `SpaceMembership` | membership transactions, one action per locking statement, check and commit |
| `SpaceRules` | abstract specification: the same requests, each in one atomic step |
| `SpaceMembershipProofs` | theorems about `SpaceMembership`: its inductive invariant, what follows from it, and that it implements `SpaceRules` |
| `MCSpaceMembership` | symmetry for TLC |
| `PasswordReset` | recovery of one account: requests, codes, tokens, emails, limits, and the sessions a reset ends, with a clock |
| `AccountRecovery` | abstract specification: one authorization at a time, used once, ending every session |
| `PasswordResetProofs` | theorems about `PasswordReset` and its refinement |
| `MCPasswordReset` | symmetry for TLC |
| `SpaceBooks` | transaction, wallet, category and limit writes of one space, and the idempotency keys they are sent with, one action per lock, check and commit |
| `BookRules` | abstract specification: the same writes, each in one atomic step |
| `MCSpaceBooks` | the requests of each run, symmetry |
| `SpaceBooksProofs` | theorems about `SpaceBooks` |
| `Registration` | registration and confirmation of one address: account, codes, sends and their results, verification, with a clock |
| `AccountOpening` | abstract specification: an account is opened once, by a usable code, with the last details registered |
| `RegistrationProofs` | theorems about `Registration` and its refinement |
| `MCRegistration` | symmetry for TLC |
| `Collections` | lemmas the proofs share: induction over naturals and finite sets, least and greatest elements, sums over sets and functions |
| `Calendar` | pure: local days, weeks, months and years of a time zone, and what luxon makes of a local time that occurs twice or never |
| `Periods` | pure: the period of a statistics query, the previous one, the intervals of a trend |
| `BookQueries` | pure: the selections, orders and sums of the query service over a book |
| `Money` | pure: division and percentages with the code's rounding |
| `SpaceHistory` | the committed book, the other members' writes, a reader's request with its snapshot |
| `TransactionFeed` | the feed and the other reads of transactions, one action per query, and the list a client builds from pages |
| `Statistics` | summary, trend and breakdown, one action per query, and the blocks a client has of one query |
| `SpaceOverview` | the overviews of wallets, limits and categories, one action per query |
| `Reports` | the composition of the last four, and the properties of what a reader sees |
| `MCReports` | the books, queries, clocks and zones of each run |
| `HistoryProofs` | theorems about the feed and the overviews of `Reports` |
| `StatisticsProofs` | theorems about its statistics, and about the types of all that a reader gets |

The constants that bound a run are marked `bound:` in their declaration; all
others are parameters of the program. The operators named `Bug...` are not part
of a model: each is a plausible mistake in the code, used to show that a
property would notice it.

### InviteDelivery

| Model | Code |
|---|---|
| `row[i]` | the delivery columns of one invitation; `life` stands for `accepted_at`, `revoked_at`, `expires_at` and the row's existence |
| `next`, `lease` | `email_next_attempt_at` and `email_lease_expires_at`, as compared with the clock: not set, ahead, reached |
| `emails[i]` | rows of the send log for the invitation; the 24-hour window does not slide, which only makes requests rarer |
| `thr[t]` | a worker: the next statement (`pc`), the invitation, and `email_attempts` and `email_attempt_id` as *read back* |
| `batch[p]` | ids found by `processDue` and not yet attempted |
| `CreateInvite`, `Expedite`, `Requeue`, `Revoke`, `Accept`, `DeleteSpace` | the requests; one action each, because they hold the row's exclusive lock from check to write (this is what `SpaceMembership` models in steps) |
| `PollClear`, `PollFind`, `PollNext`, `PollEnd` | `processDue` |
| `Claim`, `ReadBack`, `LoadSpace`, `Smtp*`, `Finish*` | `attempt`, `claim`, `send`, `finish` |
| `AttemptError`, `Crash` | an error swallowed by `attempt`; a process that dies or an error of `processDue` |
| `LeaseRunsOut`, `RetryBecomesDue`, `Expire` | the clock |

`replies`, `tries`, `schedId` and `thr[t].own` are history: no guard of a
program step reads them, except that the bound `MaxStalls` counts leases that
run out between two consecutive statements of the attempt that holds them. A
lease may always run out during an SMTP conversation: the socket timeouts of
`mail.service.ts` measure inactivity, so a slow conversation may outlast two
minutes.

Left out: the wording and links of emails, the send-log limits per address, space
and sender (they can only refuse a request), and the retention purge.

### SpaceMembership

| Model | Code |
|---|---|
| `space`, `members`, `invite` | committed rows |
| `nextId` | auto-increment of `space_members`; ids of one space are in `created_at` order because rows are inserted under the space's lock |
| `tx[c]` | a transaction in progress: operation, actor, the rows it read, the locks it holds, how often it was run again |
| `Begin*` | the request and the membership check made before its transaction |
| `ReadIds`, `LockRow`, `LockSpace`, `Recheck` | `lockMembers`: read ids, lock rows in ascending order, lock the space, compare; a changed set rolls back and reruns, `MaxRuns` times |
| `LockMember`, `LockSpace` | `lockMembership`, `lockOwner`, `lockSpaceForWrite` |
| `LockInvite`, `Check` | invitation locks and the checks made under them |
| `LeaveAsMember`, `HandOver`, `RemoveMember`, `RemoveOwned`, `CommitInvite`, `CommitRevoke`, `CommitJoin`, `CommitOther`, `RefuseCommit` | the writes and the commit, or the error that rolls back |
| `Abort` | crash, lost connection, lock-wait timeout, deadlock victim: always possible, never required |
| `CreateSpace`, `Expire` | space creation (new rows only) and the clock |

A transaction's writes become visible in one step together with the release of
its locks, as InnoDB's do. Reads under READ COMMITTED see committed rows only.
Locks are granted in any order; this covers every queue order for what may
happen, but a wait caused only by the *queue* (a shared request behind a waiting
exclusive one) is not part of `NoCrosswiseWait`. The send log may refuse an
invitation at its end: `RefuseCommit` allows it at any time.

### PasswordReset

| Model | Code |
|---|---|
| `user` | `email_verified`, the password (a number: every bcrypt hash differs) and `auth_version` |
| `row` | the address's row of `password_reset_challenges`; 0 stands for `NULL` |
| `tx[c]` | a request in progress, with the clock, token or account as it read them |
| `mails` | deliveries in flight with their outcome |
| `BeginRequest`, `RequestOnRow`, `RequestMissing`, `RequestInsert`, `RequestDuplicate` | `reserve`, `reserveIn`: clock, locks, insert or update, retry after a duplicate key |
| `BeginVerify`, `WrongCode`, `RepeatCode`, `AcceptCode`, `VerifyRefusal` | `verify`, `verifyIn` |
| `BeginComplete`, `CompleteReset`, `CompleteRefusal` | `complete`: read, bcrypt, lock, check again, write |
| `SmtpEnds`, `RecordResult`, `LoseResult` | `deliver` |
| `BeginLogin`, `Login`, `VerifyEmail`, `SignVerified`, `RefreshUnverified`, `Accepted` | what `users.service.ts` and `jwt.strategy.ts` do to passwords and sessions |

`reserveIn` and `verifyIn` read the clock *before* they wait for their locks, so
the decision may be judged by a stale time; `complete` reads it under its locks.
Once both locks are held nothing but the clock can change, so the rest of a
transaction is one action. The clock is a number that `Tick` advances; `MaxWait`
bounds how far it advances while a transaction waits (MySQL's lock wait timeout,
50 seconds by default, against a cooldown of 60). With the scaled-down durations
of the runs one tick stands for one cooldown.

A code is named by the number of its request: that two random six-digit codes
of one address coincide (one in a million) is left out; that a client *guesses*
the right code is not. There is one address; one that belongs to no account, or
to one under another spelling, behaves as the address of an unverified account.
The throttle per network address and the 90-day expiry of access tokens are left
out: both can only refuse more.

Requests and wrong codes share one hour window, `CurrentWindow`. `asked` and
`wrong` are history: the events that the hourly limits count, each with the time
of its commit, the window it was counted in and the count after it. A client sees
the commit, while the limit was judged by the clock read before the wait for the
locks; `RatesHold` therefore promises its limits for stretches that are shorter
than an hour (or than a cooldown) by `MaxWait`. `StatusOfLatestEmail` is about
`smtp`, the conversations that ended, and `ResultsHappened` of the proofs says that
a result to be recorded is one of them.

### SpaceBooks

| Model | Code |
|---|---|
| `wallet`, `category`, `limits`, `record`, `operation` | committed rows of `wallets`, `categories`, `limits` with `limit_categories`, `transactions`, `transaction_operations` |
| `key[k]` | a row of `idempotency_keys`; `hash` is the request itself, `body` the stored answer |
| `tx[c]` | a request in progress: the clock that `claim()` read, the wallets it holds, the record and the balance as it read them |
| `Begin` | `write()`: the membership and the space row are locked, shared for transactions and wallets, exclusive for categories and limits |
| `ClaimNew`, `ClaimDuplicate`, `ClaimMissing`, `ClaimExpired`, `Revive`, `ReviveTaken`, `KeyReused`, `Repeat` | `IdempotencyService.claim`, statement by statement |
| `OperationUnused`, `LockRecord`, `LockWallet`, `CheckCreate`, `CheckEdit` | the checks and locks of `create`, `update`, `remove` in their order |
| `WriteCreate`, `DuplicateOperation`, `WriteEdit`, `WriteRemove` | the writes, `recordOperation`, the answer |
| `AddWallet`, `StartDeleteWallet`, `DeleteWallet` | `wallets.service.ts` |
| `CheckCategory`, `AddCategory`, `WriteCategory`, `CheckLimit`, `WriteLimit` | `categories.service.ts`, `limits.service.ts` |
| `Commit` | `IdempotencyService.run`: the result is stored in the same transaction; the commit |
| `Purge`, `Abort`, `Tick` | the purger; crash, lock timeout, deadlock victim; the clock |

Which locks a request holds follows from its `pc` (and `held`, for wallets), so
there is no lock table to keep in step. A commit makes all writes visible and
frees all locks in one step; until then a request's writes are seen by nobody
else, which is why they may be made in the commit action. A deadlock that is run
again is `Abort` followed by `Begin` of the same request. When an insert meets a
committed key row, InnoDB may leave a shared lock on it; the model does not rely
on that lock, so the row may still be purged, as the code's `if (!stored)`
expects.

Every amount is 1 and the type gives the sign: two writes to a wallet that
overlap already show in the answers. No write depends on names, descriptions,
the order of categories or the amounts of limits: only readers see them, so they
are in `SpaceHistory`.
Clocks of instances agree. The membership lock at the start of every write is
the one of `SpaceMembership`, and is not repeated here. `used` and `applied` are
history; `used` only keeps ids of deleted records from being given out again.

### Registration

| Model | Code |
|---|---|
| `account` | the row of `users` with its personal space; `open` is `email_verified`, `starters` counts sets of starter data |
| `code[n]` | a row of `confirmation_codes` |
| `tx[c]` | a request in progress: the details it carries, the clock it read, the code and the send attempt it works for |
| `BeginRegister`, `Register`, `RegisterDuplicate`, `LookupWinner`, `LockRefresh`, `Refresh` | `registerOrRefresh`, `register`, `updateUnverified` |
| `LockReserve`, `CreateCode`, `ReserveAgain` | `reserveSend`, `decideSendAction` |
| `SmtpEnds`, `MarkSent`, `MarkFailed`, `MarkSentError` | the send, outside of any transaction, and its outcome |
| `BeginVerify`, `LockVerify`, `RefuseAnswer`, `AcceptAnswer` | `verifyEmail`; a refused answer is counted and committed |
| `BeginComplete`, `LockComplete`, `CompleteVerification` | `completeEmailVerification`, the seed's way in |
| `Abort`, `Tick` | a crash or a failed statement; the clock |

Each transaction is two actions: the lock of the user's row with what is read
under it, then the writes with the commit. Who holds a lock follows from `pc`.
`markSent` and `markFailed` write one row without the user's lock. An error of
`markSent` is caught by the same `catch` as one of the SMTP server, and an error
of the SMTP server may hide that the email was accepted, so `failed` says
nothing of the email; `sent` does. `accepted` is history.

There is one address. A code is named by its number, and whether an answer is
right is a choice: that someone guesses right is not left out. These
transactions are not rerun after a deadlock. Two *different* users who reserve
their first send at once may deadlock in the gaps of `confirmation_codes`, since
they run at the session's default isolation; for each of them that is an
`Abort`. Timestamps are not rounded to seconds: the code expires a second early
to be clear of it. Invitations to the
address are matched when they are accepted, which is in `SpaceMembership`.

A remark on a doc: `docs/deployment.md:93` words the resend cooldown per account;
`constants.ts` says for the same code, and that is what the code does. After a
used-up code was expired the next registration sends a new one at once.

### The read models: SpaceHistory, TransactionFeed, Statistics, SpaceOverview, Reports

| Model | Code |
|---|---|
| `book` | committed rows of `transactions`, with what the reads need of `wallets`, `categories`, `limits` and `transaction_operations` |
| `AddTransaction`, `EditTransaction`, `RemoveTransaction`, `DeleteWallet`, `RenameWallet`, `ArchiveCategory`, `RestoreCategory`, `RenameCategory`, `Reorder`, `AddLimit`, `UpdateLimit`, `RemoveLimit` | the writes of other members, each committed at once with the checks of its service; `SpaceBooks` has their steps |
| `request` | the reader's request: what it asks, the next query, its snapshot (the book at its first query), and what it has read |
| `OpenList`, `FollowCursor`, `FeedRefused`, `FeedAccepted` | `getFeed` up to its snapshot: the query's checks, the cursor and its digest |
| `ReadPage`, `ReadEdge`, `ReadTarget`, `ReadPosition`, `ReadNewer`, `ReadOlder`, `ReadSummary`, `ReadDays`, `RespondPage`, `RespondEmpty` | `readFeedPage`, `readFeedAround`, `readFeedDayTotals` and the response |
| `AskCount`, `AskLatest`, `AskOperation`, `AskTransaction` and their `Read...` | `count`, `getLatest`, `getOperation`, `getById` |
| `list` | a client of the feed: the positions it has, and the cursors at its two ends |
| `AskBlock`, `OpenBlock`, `OpenRefused`, `ReadTotals`, `ReadPrevious`, `ReadLast`, `ReadTrend`, `ReadCategories`, `ReadWallets` | `getSummary`, `getTrend`, `getBreakdown` |
| `cycle` | a client of the statistics: the blocks it has of one query, each with the moment (`at`) of its snapshot |
| `ReadActiveWallets`, `ReadPeriodTotals`, `ReadBalances`, `ReadLimits`, `ReadSpending`, `ReadCategoryRows`, `ReadCounts`, `ReadLimitMembership` | `WalletsService.getOverview`, `LimitsService.getSummary`, `CategoriesService.getAll` |
| `resolveStatisticsPeriod`, `buildWalletBreakdown`, `getFeedPage`, ... | the functions of the same name |

The snapshot is the book at the *first* query of a request, as MySQL takes it at
REPEATABLE READ; writes may commit between any two queries, and `BugReadCommitted`
shows what would be seen without it. Requests that make a single query read the
book of their step.

An instant is a number of hours: one hour stands for the millisecond in which the
code counts, so "the last millisecond of a day" is its last hour, and 23:00 of a
day is its end. Changes of clocks keep their length of an hour. Dates are day
numbers, and weekdays, months and leap days are those of the calendar. luxon is
external: `FixOffset` is its rule for a local time that occurs twice or never,
with the guess that the code makes luxon take; only the zones' changes are given
(Cairo and Havana, 2024).

A cursor carries a position and the digest of its selection; its encoding as
text is left out, and so is a damaged cursor, which is refused as another
selection's is. A search is a word that a description or a name has or has not.
Amounts are small naturals: the code adds cents in a BigInt, so no sum
overflows. Icons, colours and names of items are left out. There is one reader,
since reads do not affect each other, and the list and the cycle are not kept
together. The reader stays a member and the space stays.

## 3. Runs

| Run | Instance | Shows |
|---|---|---|
| `delivery` | 1 invitation, 1 poller, 1 request attempt, 2 emails of 2 attempts, 1 failure, no stall; fairness | `TypeOK`, `NoLostEmail`, `OutcomeHasCause`, `AttemptBudget`, `EndedRowsStay`, `ResultOnlyByOwnAttempt`, `ExpiredLeavesQueue`, `KeepsPromise` (refinement of `EmailPromise`), `KeepsPromiseInTime` (its fairness: every scheduled email is settled) |
| `delivery_stall` | 2 pollers, 1 request attempt, 1 stall | *violation* of `ResultOnlyByOwnAttempt`, see 5 |
| `members_succession` | 3 people, 1 space, 2 invitations, 2 requests at once of every kind, 3 runs of each | `TypeOK`, `SpacesOwned`, `ChecksStillHold`, `OneInvitePerAddress`, `NoCrosswiseWait`, `KeepsRules` (refinement of `SpaceRules`): the successor is the earliest |
| `members_spaces` | 2 people, 2 spaces, one of them personal, 1 invitation; leave, delete, join and a space write; fairness | `KeepsRules` across spaces, `EveryRequestEnds` |
| `reset_recovery` | 2 clients, 2 wrong codes, 2 requests, 4 ticks | `TypeOK`, `SessionsKnowThePassword`, `ResetsWithinChallenge`, `KeepsRecovery` (refinement of `AccountRecovery`) |
| `reset_limits` | 2 clients, cooldown of 2 ticks, windows of 3, 4 ticks, one wrong code per window, emails in flight | `RatesHold` (hourly limits and cooldown, in every stretch of time), `StatusOfLatestEmail` |
| `reset_window` | 2 clients, windows of 2 ticks, 2 requests and one wrong code per window | *violation* of `EndedWindowCountsNothing`, see 5 |
| `books_writes` | 2 clients, 2 wallets, 2 records, one operation id, one key (possibly lapsed), 2 ticks; creates, a move, a new category, an undo, the deletion of a wallet | `TypeOK`, `OncePerKey`, `OneChangePerVersion`, `AnswersAddUp`, `KeepsBooks` (refinement of `BookRules`) |
| `books_limits` | 2 clients, 2 categories, 2 limits; every change of both, with records that come, change and go | `KeepsBooks`: limits that share no category, a used category archived |
| `account_opening` | 2 requests at once, 2 sets of details, 2 codes that run out after 2 ticks, 2 wrong answers each, 3 ticks | `TypeOK`, `StatusOfLatestSend`, `KeepsAccount` (refinement of `AccountOpening`) |
| `reports_reads` | 8 records in 5 wallets (one deleted, one of another space), 3 categories, 2 limits, pages of 3, 2 feed queries, 6 periods, 2 events at any time (writes, or a step of the clock); Cairo | `TypeOK`, `ListComplete`, `PageAddsUp`, `BlocksAgree`, `SlicesAddUp`, `HistoryMatches`, `ByLocalDate`, `OverviewsAgree` |
| `repeated_midnight` | one record at a midnight that comes twice; Havana | *violation* of `DayNets`, see 5 |

Deadlock is checked in every run: no model can stop.

**Why the bounds are enough.** Two attempts are the smallest budget that has a
retry, an exhausted attempt and one beyond it. One invitation is enough where no
action relates two rows; the exception is the batch of `processDue`, and that a
full batch starves nobody is not model-checked. Two emails per invitation give
results of an earlier email. Two workers, the periodic run and a request's
attempt, cover every pair of statements; that an attempt is overtaken twice, by
more workers, or after more stalls is covered by the theorems of section 4. In
membership, all that a request depends on are the rows of its own space and its
actor's other space: two people who each may own two spaces give every overlap of
two lock sets (`members_spaces`), and the third person of the succession run gives
the choice of a successor. Two requests at once give every circle of two; that
there is none of any length is a theorem. In password
recovery two clients are every pair of overlapping requests; a challenge that
takes two wrong codes under a window that takes one or two, and two requests per
window, are the smallest budgets that have a use below each limit and one at it;
the clocks run long enough for a challenge, its token and a window to end and
start again. In the books two clients are every pair of overlapping requests,
and two wallets give the two orders of locking them; two records are enough for
a create that must not happen and the one that did; one key meets every pair of
its claims, and it may have lapsed before the run, so that it is revived, runs
out and is purged within two ticks; two claims instead of three
(`MAX_CLAIM_ATTEMPTS`) still let a claim fail, be repeated and give up. In
registration two requests overlap in every pair of places, a code takes one
answer below its limit and one at it, and the clock runs past a cooldown and the
end of a code into a second one.
In the reports, pages of 3 over up to 7 records leave something before and behind
a page that starts in the middle; two records share a timestamp across a page's
end; the second query is of one wallet. Two events are a write before
and one after a read, a record that leaves and comes back, or a write beside a
step of the clock, which goes from summer to winter time. The records lie at both
sides of midnights, one of them with a 25-hour day before it, in a deleted
wallet, in another space and under the system category; one is found by its
wallet's name alone, which a member may change while the list is paged. The
periods are current, past and to come, standard and custom, one of them empty.
Two primary slices instead of six and a threshold of 30%
instead of 3% let three wallets or two categories fold, with a deleted wallet
beside them.

**Fairness.** Delivery assumes that every instance keeps running `processDue`
(the poller fires every 30 seconds, `space-invite-poller.ts`), that an attempt
reaches its next statement (the SMTP client has timeouts), and that clocks
advance. Nothing is assumed of requests, of attempts that a request starts, or of
failures, and a crash may come at any moment within its bound. Membership assumes
weak fairness of a transaction's steps, and strong fairness of a lock request
that is grantable again and again, since InnoDB queues lock requests and ages the
ones that wait. `Abort` is not fair: a request ends without it.

## 4. Proofs

The theorems hold for any number of invitations, people, spaces, clients and
workers, any limits and times, and any number of failures, from the assumptions
on the constants that the modules name: a value that stands for "none" is not
one of the things it stands beside, limits and times are naturals, those that
must be are positive, the ids of invitations (`InviteAssumption`) and of
transactions (`TxnAssumption`) are finitely many, and the requests of `SpaceBooks`
have the fields that validation lets through for their operation
(`RequestAssumption`). Bounds such as `MaxTime`, `MaxFailures` and `MaxStalls` are
constants like the others: the theorems hold for each value of them.

| Module | Theorem | Statement |
|---|---|---|
| `InviteDeliveryProofs` | `TypeCorrect` | `Spec => []TypeOK` |
| | `EmailNeverLost` | `Spec => []NoLostEmail` |
| | `OutcomesHaveCauses` | `Spec => []OutcomeHasCause` |
| | `EndedRowsAreFinal` | `Spec => EndedRowsStay` |
| | `DeliveryKeepsPromise` | `Spec => KeepsPromise`: initial states map to initial states, every step to a step of `EmailPromise` or a stutter |
| | `AttemptsWithinBudget` | `Spec => []AttemptBudget` |
| | `ResultsByOwnAttempt` | `Spec => ResultOnlyByOwnAttempt`, assuming `MaxStalls = 0` |
| `SpaceMembershipProofs` | `TypeCorrect` | `Spec => []TypeOK` |
| | `Owned` | `Spec => []SpacesOwned` |
| | `InvitedOnce` | `Spec => []OneInvitePerAddress` |
| | `ChecksKept` | `Spec => []ChecksStillHold` |
| | `NobodyWaitsInACircle` | `Spec => []NoCrosswiseWait` |
| | `ImplementsRules` | `Spec => KeepsRules` (refinement of `SpaceRules`) |
| `PasswordResetProofs` | `TypeCorrect` | `Spec => []TypeOK` |
| | `OldPasswordsOut` | `Spec => []SessionsKnowThePassword` |
| | `LatestEmailsStatus` | `Spec => []StatusOfLatestEmail` |
| | `ResetsInTime` | `Spec => ResetsWithinChallenge` |
| | `LimitsHold` | `Spec => []RatesHold` |
| | `ImplementsRecovery` | `Spec => KeepsRecovery` (refinement of `AccountRecovery`) |
| `RegistrationProofs` | `TypeCorrect` | `Spec => []TypeOK` |
| | `LatestSendsStatus` | `Spec => []StatusOfLatestSend` |
| | `ImplementsOpening` | `Spec => KeepsAccount` (refinement of `AccountOpening`) |
| `SpaceBooksProofs` | `TypeCorrect` | `Spec => []TypeOK` |
| | `BalancesTold` | `Spec => []AnswersAddUp` |
| | `AppliedOnce` | `Spec => OncePerKey` |
| | `ChangedOnce` | `Spec => OneChangePerVersion` |
| | `ImplementsBooks` | `Spec => KeepsBooks` (refinement of `BookRules`) |
| `HistoryProofs` | `ListIsWhole` | `Spec => []ListComplete` |
| | `PagesAreOfAMoment` | `Spec => []PageAddsUp` |
| | `OverviewsAreOfAMoment` | `Spec => []OverviewsAgree` |
| `StatisticsProofs` | `BlocksAgreeAlways` | `Spec => []BlocksAgree` |
| | `DonutsAddUp` | `Spec => []SlicesAddUp` |
| | `HistoryMatchesAlways` | `Spec => []HistoryMatches` |
| | `TypeCorrect` | `Spec => []TypeOK` |

None of these is inductive by itself. Each module has an inductive invariant
`IInv`, which TLC checked on the runs' instances before it was proved, and which
is shown to hold initially and to be preserved by each action in a lemma of its
own. The theorems follow from it.

**Delivery.** That `sent` has its cause depends on what a worker that is about to
write remembers: that its id, if it is still the row's, belongs to an attempt at
the *current* email (it is above `schedId`), and that the reply it carries was
recorded for that email. `IInv` says so: `Typed` (with places and jobs in step),
`RowsInv` (per row: pending emails have a time and a link, ids never fall below
the schedule's, used-up budgets), `ThreadsInv` (per worker: the id and attempts
it read are at most the row's, and equal attempts if the id is still current; the
reply that its place stands for was credited if the id is newer than the
schedule).

The attempt budget needs more, since a worker that stalled after its claim reads
back the attempts of *another* claim, and may count itself within a budget that
its own claim had exceeded, or the other way round. `BudgetInv` counts ids
instead: until the invitation ends, the row's id is the schedule's plus its
attempts (`CountInv`); the ids of claims differ (`OwnIdsDiffer`); a worker whose own
id is beyond the budget never gets to its conversation (`OwnInv`); and the ids of
the claims that started a conversation for this email form a set, within the
budget's interval, with as many elements as there were conversations (`Started`).
Without stalls a claim is still the row's when it is read back (`KeptInv`); that
is the hypothesis of `ResultsByOwnAttempt`, and `delivery_stall` shows that it is
needed.

**Membership.** `LocksExclude` says that no two requests hold conflicting locks, and
`RequestInv`, per place and operation, what a request knows because of the locks
that it holds: a departure has locked the rows that it read, and at its commit
these are *all* rows of the space (`DepartureInv`); an inviter's own row is still
there and still the owner's (`MemberInv`); an invitation still names its space
and address (`InviteInv`); the counts and absent rows that were checked under the
space's lock are as they were (`CheckedInv`). A row is inserted only under the
space's exclusive lock, which is why absence lasts. `OrderInv` says in which order
locks are taken; from it, a request that waits in a circle would lead to one that
waits for a row greater than all rows that anybody waits for. `KeepsRules` maps
each commit to one step of `SpaceRules` and every other step to a stutter.

**Password recovery.** `SignedIn`: every session, and every login in progress,
carries an old version of the account or the present password. `ChallengeKept`
ties the row to the history: wrong codes, the challenge's start, and the tokens
that clients may know, which are those of earlier codes or of the row's own.
`InWindows` is what makes the hourly limits hold: the events counted lie in windows
that do not overlap, each with its own number up to the limit, and are committed
while their window lasts or `MaxWait` later (`WaitsInTime`). A stretch shorter than
an hour by `MaxWait` therefore meets two windows at most, with at most the limit
of events in each: twice the limit, which is what a window that starts with its
first event, and does not slide, gives. `Spread` keeps requests a cooldown apart
on the clocks that they read.

**Registration.** `Exclusive`: the user's row admits one transaction. `KnowsAccount`,
`KnowsCode` and `KnowsEmail` say what a request in each place may rely on;
`EmailsDiffer`, that each send of a code has a number of its own; `OneUsable`,
that one code is usable at a time *even while* it is checked. A refresh commits
only while the account is pending, because it holds the lock, and so every commit
is one step of `AccountOpening`.

**Books.** Most steps are *quiet*: a request takes a lock, checks or gives up, and
no row changes; the rest are commits, which write and end at once. `Placed` says
which requests are where and that a write has all its wallets; `Apart`, what no
two requests hold together: the space if one has it exclusively, a wallet, a
claimed key, a record to change. From this, what a request has read or checked
stays so until it writes, whoever commits meanwhile: the record that it locked is
still of the version named (`StillSeen`), the wallet and category that it named
can still be used, the previous balance that it read is still the wallet's, and
the limits still admit its own (`StillAllowed`). That is all `BookRules` asks of a
commit, but for an edit of the type alone: it is refused, because a stored
record's type is its category's (`RecordInv`), except an initial balance, which no
edit may touch. For the keys, `KeyInv` ties a row to the claim that wrote it, a
missing row to one that had expired, and `KeyHeld` says that who holds a key
applied before came after its expiry; so a commit applies a key anew only then.
`Honest` carries the arithmetic of an answer from the commit through the key's row
into each repeat.

**Reads.** A response is of one moment, but what a client keeps is not: between two
pages, or two blocks, anything may be written.

`FeedInv` is about the list. `ReadOK` says, per step of a request, what has been
read so far *of its snapshot*: a page is a window of the selection there
(`IsWindow`), without gaps beside its cursor (`Continues`), and whether it goes on
is whether there are rows beyond. `ListStays` says what the list is of the present
book: whatever is not in `touched` is in it, where the book has it, or beyond an
end that has a cursor. A write keeps that, because it notes the rows it changes
(`ListKept`), and a page that is put to the list has it for the book of its
snapshot, which differs from the present one in `touched` only (`SnapOK`).
`ListComplete` follows by counting. That a window is what its sums say (`PageFits`)
needs the sums: those of a window that is the whole selection are the summary's,
row by row, and a summary of as many rows as the page has no row beyond it.

`OverviewInv` needs two facts of the writes: no member changes an initial balance
once the wallet is there (`SameOpening`), and no limit has an archived category
(`BookOK`). A balance is then the initial one and all that is regular, and totals
over all time are what is regular.

`StatInv` is about blocks of different moments, so it speaks of a history: *there
are* books `hist[0]` to `hist[writes]`, the last of them the present one, such
that each block is what the book at its own `at` gives for its period (`BlockOK`),
and a request in progress has read its snapshot, which is one of them
(`SnapshotOK`). A write adds a book to the history; a variable for it would only
enlarge the runs. Two blocks with one `at` are thus of one book, and they agree
because each record of a period is counted in exactly one of its trend's
intervals, of which there is one if the period has begun (`IntervalTotals`,
`TrendIsSplit`), groups are a partition of the rows, and folding and
rounding lose no amount (`DonutOK`). `HistoryMatches` compares the blocks of the present book with
the feed's summary of the template: the same rows, counted by another query.

The types of what clients get (`TypeInv`) need all of the above, and three
invariants more. `Bounded`: the moments that a request or a block names are at
most `writes`, and the list has its four fields. `AnswerInv`: what is read in one
query is answered from one book, and each answer is of its type. `CycleInv`, about
the reads of a block that is not finished yet: a previous period is read just when
there is one (`SummaryGot`), and the intervals are a sequence of intervals. An item
of a breakdown is then a part, not zero, of a total that is at least as large, so
that its percentage is at most a hundred (`BreakdownTyped`, `PercentOfPart`).

The statistics are read about any zone with finitely many changes, with any number
of categories, wallets, records, queries and writes. What is assumed beyond that
is what the modules name: the ids of records and the categories are finitely many
and ordered; a stored record has the fields of its columns, and an initial balance
is an income; the queries are what validation lets through.

**Induction.** The library's induction theorems take an operator as a parameter and
cannot be instantiated by the installed provers. `Collections` argues with sets
instead: a set of naturals that is not empty has a least element (`WFMin`, which
takes a set), and a set of subsets of a finite set that has the empty one, and each
of its members with one element more, has all of them (`SubsetInduction`). With
that the equations of the community modules' folds are enough for sums over sets
and functions: of an empty set, with one element more, of two parts, of equal
terms, of a partition.

**Only model-checked.** All liveness (`EveryRequestEnds`, `ExpiredLeavesQueue`, and
`KeepsPromiseInTime`, the fairness of `EmailPromise`): fairness and `ENABLED` are
out of the prover's reach. `ByLocalDate`: it is false for some zones, as
`repeated_midnight` shows, and true for the zone of `reports_reads`, so there is
nothing to prove without an assumption about zones that the code does not make.
One of its clauses is about a type: that a bucket's amounts are null just when it
is in the future. The code takes the buckets that have begun to be the first
ones, which is so where days begin in the order in which they are numbered, and
no constant of the model says that they do.

## 5. Findings

`delivery_stall`. `claim()` writes a new attempt id and reads the row back in two
statements without a transaction. If the worker stalls past its lease between
them (an exhausted connection pool, a suspended process), another worker claims
the row; the first one then reads the *second* claim's id as its own, and writes
its result under it while the other attempt is still sending.
`space-invite.entity.ts:59` promises "an attempt writes its result only while this
is still its id". The `delivery` run shows that this is the only way: with
`MaxStalls = 0` the property holds. No promise of `EmailPromise` breaks even
then (the theorem `DeliveryKeepsPromise` includes stalls): the email may be
sent twice, as after any lapsed lease, but its outcome is still truthful.

`reset_window`. Requests and wrong codes of one address share one hour window in
the row: `window_started_at`, `window_requests`, `window_failed_attempts`. When a
wrong code is the first event after a window ended, `verify()`
(`password-reset.service.ts:258-262`) moves `window_started_at` to now and writes
the count of wrong codes, but not the count of requests, which stays that of the
ended window. `password-reset-rules.ts:34` says "a window that has ended counts
nothing; the next counted event starts one", and
`docs/password-reset-contract.md:122` speaks of "5 requests already accepted in
the address's hour window". The run reaches a row whose window counts requests
that were accepted in an earlier one; after five, the owner of the address is
refused for another hour in which no request was accepted. It errs on the side of
refusing: the theorem `LimitsHold` says that no limit is ever exceeded.

`repeated_midnight`. Where clocks go back over midnight the hour 00:00-01:00 of
that day comes twice (Havana, 3 November 2024: 04:00Z and 05:00Z).
`startOfDay()` asks luxon for the local midnight, which guesses with the offset
of the *present* moment: asked in winter, it takes the second one. A record of
the first of the two hours is then on the feed's page under 3 November, its day
is in `day_totals`, but its amount is in no day's net, and the trend counts it to
2 November. `statistics-calendar.ts:44` says "First existing instant of the local
day", `docs/statistics-contract.md:155` the same, and
`docs/transactions-contract.md:457-458` that `net` is of "all" the records of that
day. Asked in summer, the answer is the right one. The property holds in
`reports_reads` (as a part of `ByLocalDate`), where no midnight comes twice: Cairo
skips one, which luxon moves to 01:00, the first existing instant, and repeats
the hour *before* one, which the next day's start bounds rightly.

## 6. Plan

In this order, each with its runs and mutants before the next:

1. `InviteDelivery`, `EmailPromise`. *Done and proved*, but for liveness.
2. `SpaceMembership`, `SpaceRules`. *Done and proved*, but for liveness.
3. `PasswordReset`, `AccountRecovery`. *Done and proved.*
4. `Registration`, `AccountOpening`. *Done and proved.*
5. `SpaceBooks`, `BookRules`: transaction writes, idempotency keys, wallets,
   categories and limits. *Done and proved.*
6. The read models: `Calendar`, `Periods`, `BookQueries`, `Money`, `SpaceHistory`,
   `TransactionFeed`, `Statistics`, `SpaceOverview`, `Reports`. *Done and proved*,
   but for `ByLocalDate`.

**Not modelled, and why.** *Controllers, validation, configuration, health, currencies*:
request parsing and read-only lists; what validation guarantees of a query
(`StatisticsQuery`, `FeedQuery`) is stated as an assumption where a model relies
on it. *Mail rendering, the invitation page and its encrypted links*: formatting
and cryptography without state. *Migrations, seed and benchmark*: scripts that
one process runs at deploy time; the account the seed opens is in `Registration`.
