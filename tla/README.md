# Ajoti backend in TLA+

A verification project for the Ajoti fintech backend (NestJS, Prisma, PostgreSQL, Redis with
BullMQ, Flutterwave): wallets on an append-only ledger, rotating savings circles (ROSCA) with
collateral, contributions, payouts and loans, money moving in and out through a payment
provider, identity verification, accounts and sessions, trust scores, and the mails and
notifications that go with all of it. Paths below are relative to `src/src/modules/` of the
repository unless they start with `prisma/`.

1. [The system](#1-the-system)
2. [Modules and how they correspond to the code](#2-modules-and-how-they-correspond-to-the-code)
3. [Runs](#3-runs)
4. [Bounds](#4-bounds)
5. [Fairness](#5-fairness)
6. [Proofs](#6-proofs)
7. [What the models show about the code](#7-what-the-models-show-about-the-code)
8. [What is not modelled](#8-what-is-not-modelled)
9. [Plan](#9-plan)

## 1. The system

Every request is a NestJS handler in a Node process, of which several may run; every handler
interleaves with all others at each `await`. State lives in PostgreSQL and in the job queues in
Redis. Money is in integer kobo. Components interact through the database (shared rows, unique
indexes, row locks), through direct service calls inside one transaction, through queued jobs,
and through Flutterwave, which calls back by webhook.

| Component | State | Operations | Interacts with | What is hard | What makes it correct |
|---|---|---|---|---|---|
| Ledger (`ledger`, and the rows `webhooks` and `withdrawal` append themselves) | `LedgerEntry` with its `balanceAfter`, `WalletBucket` | `writeEntry`: CREDIT, DEBIT, RESERVE, RELEASE | everything that moves money | two isolation levels on one row, stale snapshots, lock order, retries | running total is the sum; buckets are the RESERVE and RELEASE rows; available never negative; each request once |
| Circle (`rosca/services`, `superadmin-governance`) | `RoscaCircle`, `RoscaMembership`, `RoscaInvite`, `RoscaCycleSchedule` | create, join, approve, reject, leave, cancel, invite, configure, edit, activate, flag, cancel circle, finalize | Ledger (collateral) | handlers that read, then write in no transaction or READ COMMITTED | slots cover the members, collateral matches memberships, terminal status final, schedule is the members |
| Payout order (`payout-sorter.util`, `generateSchedules`) | positions, schedule dates | sort by logic, swap positions, add a frequency to a date | Circle | comparator ties, null scores, month ends | everyone paid once, in the promised order, on dates that never overlap |
| Cycles (`contribution`, `payout`, `loans`, loan part of `credit`) | contributions, payouts, loans, missed records | contribute, pay out by job or by hand, reverse, retry, apply for a loan | Ledger, Circle, Trust | early and late payments, stale eligibility, crash after commit, hourly job | money conserved, pool backs unpaid cycles, missed recorded once, due pots paid |
| Withdrawal (`withdrawal`, transfer part of `webhooks`) | `Transaction`, `WebhookEvent`, wallet | debit, order the transfer, refund, settle | Ledger, Flutterwave | lost answers, duplicated and dropped events, crashes | never overdrawn, refunded once, outcome is the provider's |
| Funding (`funding`, its reconciliation, charge part of `webhooks`) | `Transaction`, queue job, `WebhookEvent` | initialize, verify, settle from three sides | Ledger, Flutterwave, queue | three settlers at once, retries, verdicts before the customer paid | credited once and only for money received, status agrees with the ledger, paid is settled |
| KYC (`kyc`) | `KYC` row | verify NIN and BVN, next of kin, documents, approve, reject, resubmit | identity provider, superadmins | read, wait for a provider, write without looking again | levels are earned, nobody gets stuck |
| Virtual accounts (`virtual-accounts`, path A of `webhooks`) | `VirtualAccount` row and Flutterwave's account | provision, delete, credit | KYC, Ledger, Flutterwave | two systems without a common transaction | every payment accounted for once |
| Closing an account (`users`) | user, wallet status | checks, delete virtual account, anonymise | all of the above | checks are stale when the account is closed | a closed account is settled |
| Sessions (`auth`, profile part of `users`, `superadmin-users`) | `User`, `RefreshToken`, audit log | register, log in, refresh, log out, change and reset the password, change and confirm the address, close, ask for and decide on admin access, suspend | one-time passwords, mail | handlers of two and more statements on three tables | one live session of the current password; an address belongs to one account and was confirmed; the audit log tells role and status |
| One-time passwords (`otp`) | `OtpCode` | send, consume, expire | Sessions | two statements each, in no transaction | a code is used once, one per purpose is usable |
| Trust (`trust`, `peer-review`, `credit`, `external-credit`) | `UserTrustStats`, `PeerReview`, cached credit score | events, missed contributions, ratings, credit score | Cycles, Circle | one function called in three transaction settings, lost updates, derived score | counters are the events, ratings counted, score is that of the counters and moves the right way |
| Mail (`mail`) | outbox rows, queue, cron job | enqueue, send, retry | SMTP | lost answers, two independent retriers | a mail arrives once unless the program could not know; it is sent or given up |
| Notifications (`notification`) | in-app and e-mail rows, queue with two processors, unread badge of each tab | publish, deliver both ways, mark as read by socket and by REST, count | Mail's SMTP server, KYC's processor, WebSocket clients | retries from the start, halves that fail apart, counts that cross or reach one tab only | audit trail is true, repetitions are paid for by failures, badge is the unread count |
| Superadmin, wallet, Flutterwave client, simulation, banks, wiring | | | | | see section 8 |

How the parts share state: a wallet row is locked (`FOR UPDATE`) but never updated by ledger
writes; the unique index on wallet, reference, source type and source id stops repetitions; the
unique index on `WebhookEvent.eventId` marks events; `RoscaPayout.scheduleId` is unique; so are
`User.email` and `User.pendingEmail`, each for itself.

## 2. Modules and how they correspond to the code

| Module | Models | Remarks |
|---|---|---|
| `WalletBank` | what the ledger promises: whole requests posted once, serially, each checked against true balances, but for the wallets in which a request overlooked another | abstract specification |
| `Ledger` | `LedgerService.writeEntry` and its look-alikes, run as PostgreSQL transactions | implements `WalletBank`, whose one gap is the wallets gone astray |
| `LedgerMC` | a catalogue of the code's transactions with the isolation level each caller asks for | |
| `Sums` | the sum of a function over a finite set | operators only; used by `Ledger`, `Cycles` and `Trust` |
| `PayoutOrder` | `PayoutSorter`, the position swaps of `updatePayoutConfiguration`, `addFrequency`, `generateSchedules` | operators only |
| `PayoutConfig`, `PayoutConfigMC` | configure a draft, then activate it, one request at a time | uses `PayoutOrder` |
| `Circle`, `CircleMC` | the life of a circle with its races | uses `PayoutOrder` |
| `Cycles`, `CyclesMC` | an activated circle until it is completed | its balances are those `Ledger` promises |
| `Withdrawal`, `WithdrawalMC` | withdrawals of one wallet up to the webhook | |
| `Funding`, `FundingMC` | one hosted checkout | |
| `Kyc` | the verification record of a user | part of `Account` |
| `Account`, `AccountMC` | `Kyc` composed with the virtual account, its payments and the closing of the account | |
| `Otp` | one-time passwords, and what it means that requests overlap | part of `Sessions` |
| `Sessions`, `SessionsMC` | accounts, credentials, sessions, addresses and the superadmins' decisions on users | `SessionsMC` says which handlers are called together |
| `Trust`, `TrustMC` | trust counters and score, peer reviews, credit score | |
| `Mail`, `Notification`, `Messaging`, `MessagingMC` | the outbox with queue and cron job; the notifications of a user; both side by side | `MessagingMC` bounds what a behaviour combines |
| `CircleProofs` | theorems about `PayoutOrder`, `PayoutConfig` and `Circle` | section 6, as all below |
| `CyclesProofs`, `TrustProofs` | theorems about `Cycles` and `Trust` | |
| `PaymentProofs` | theorems about `Withdrawal` and `Funding` | |
| `AccountProofs` | theorems about `Account` and its `Kyc` | |
| `SessionsProofs` | theorems about `Sessions` and its `Otp` | |
| `ServiceProofs` | theorems about `Ledger`, and about `Mail`, `Notification` and `Messaging` | |
| `SumTheorems` | laws of sums, and of what is computed step by step | used by the others |

Conventions. A handler that is one Serializable transaction is one action, because PostgreSQL
aborts it otherwise; `Ledger`, which is about exactly that mechanism, models it step by step. A
handler that reads, then writes in READ COMMITTED or in no transaction is two actions, with what
it read kept in between: the set `tasks` of `Circle`, the slots of `Cycles`, the program counters
of `Withdrawal` and `Funding`, the function `request` of `Kyc`, `Sessions` and `Notification`, the
`sender` of `Mail`, `recording` and `reviewing` of `Trust`. Each may die in between (`Abort`,
`Refused`, `HookDies`, `Dies`, `Die`, `MailDies`, `NoteDies`). Operators marked `Mutant:` are
deliberately wrong variants of the definition that follows them; nothing refers to them, and with
one in place of the definition the property named with it in `PROJECT.json` fails.

Some properties hold in the code only as long as nothing overlaps or dies. Such a property names its
exception through a history variable (`overtaken`, `inDoubt`, `lost`, `doubt`, `overlap`, `unsure`,
`undone`, `stale`, `overlapped`, `astray`, `untyped`), which is set in exactly the steps that cause it,
so that the property still says that there is no other way.

**Ledger.** A wallet's rows are kept as the aggregates the code reads: `last` is the latest
`balanceAfter`, `net` the sum of credits less debits, `held` that of RESERVE less RELEASE,
`reserved` the bucket rows. `Begin` takes the snapshot of a Serializable job, `WriteEntry` locks
the wallet, reads through `Base` (its own rows, then the snapshot, or what is committed), checks
the available balance and writes an uncommitted row into `draft`; `Commit`, `SerializationFailure`,
`DeadlockVictim` and `Rollback` end it. `rival` records that another Serializable transaction
committed to a wallet after the snapshot: such a transaction cannot commit. No such record exists
between the two isolation levels, which is how a stale total survives: the history `unseen` keeps
the wallets of READ COMMITTED commits that a Serializable job has not seen, and a wallet is `astray`
from the moment such a job commits to it.

**Circle.** `circle`, `member`, `reserved`, `invite` and `recipients` are the rows; a user's
bucket for this circle is one number. The actions carry the names of the service methods, with
`Read` and `Write` for the two halves.

**Cycles.** Time is a counter: instant 2k-2 is the deadline of cycle k, 2k its payout date.
Contribution amounts, penalty, fee and loan are computed as in the code, with integer division.

**Withdrawal, Funding.** `provider` and `charge` are what Flutterwave really did; the answer the
program gets may be lost. `event`, `marker` or `marked`, and `hook` are the webhook protocol: the
event is sent again until it is acknowledged, the marker is written before processing and removed
if processing throws; a process that dies leaves the marker behind.

**Kyc, Account.** The record keeps status, step and level, and whether the two numbers and the
documents are there; `test` says that the NIN is the test number, which a program outside production
accepts and whose upgrades it approves by itself (`Waived` in the history of reviews). `UserReads`,
`ApproveReads` and `RejectReads` are the first half of every handler, the actions named after the
handlers the second. `overtaken` says that some write was made while another request was under way; it
is what `NobodyStuck` and `ClosedIsSettled` make an exception for, while `LevelsAreEarned` and
`PaymentsAccounted` hold without it. Live mode is modelled: provisioning needs a verified BVN. Closing
looks its conditions up in one step and writes later; Flutterwave's deletion, the row's deletion and
the closing itself are steps of their own. A payment whose event finds no row, or whose delivery was
cut off, is in `lost`.

**Otp, Sessions.** `code`, `token` and `account` are the tables, `trail` what the audit log tells.
A request goes from statement to statement (`op`); whoever writes a table marks the other
requests in progress that may have read it (`overtaken`). A session is what a login starts, a chain
of refresh tokens; passwords are version numbers. A code or token created by an overtaken request
is `late`. `undone` are the steps that requests left out because they died.

**Trust.** `stats` is the row with its counters, `score` the index computed from them. The same
`updateTrustScore` is one action where a SERIALIZABLE transaction surrounds it (contributions, the
superadmin's events), two where it runs at the default isolation (a rating: the row is read, then
locked and written), and four where there is no transaction (a missed contribution: read, create,
update, score). The index is computed in exact integers of the code's formula, so that rounding
and the cap are as in the code; `events` and `given` are histories of what was applied.

**Mail, Notification.** A BullMQ job or a cron run sends a mail, gets an answer, no answer or a
refusal, and notes it in the outbox. A notification is a mail and an in-app row, made side by side
under `Promise.all`; every statement may fail before or after it took effect. The queue has two
processors: KYC's only initialises a record, and a notification job it takes is done without anybody
being told, or retried if that fails (`KycFails`). Each tab has a `badge`. A push reaches all tabs; so
does the count after a mark through the socket, while the answer to a question for the count reaches
the tab that asked (`Told`). The REST controller marks and tells nobody (`ControllerMarks`), and
neither does a handler whose count fails after its mark (`AnswerLost`). `crossed` are the counts that
a change has run into, `stale` the tabs that were told such a count or not told of a change. One fault
budget bounds failures of database, network and process.

## 3. Runs

| Run | Shows | Distinct states |
|---|---|---|
| `ledger` | loan, two contributions, payout, request to join and its cancellation, all Serializable, with a withdrawal at READ COMMITTED on the same wallets: buckets are what the rows say, totals are exact and nothing is overspent except in wallets gone astray, and the jobs implement `WalletBank`; wait cycles of wallet locks occur and are broken | 348,844 |
| `ledger_lost_credit` | violation: with both isolation levels on one wallet a credit vanishes from the running total | |
| `payout_config` | everyone is paid once when one member is moved per request; dates never overlap nor skip a month | 49,248 |
| `circle` | every active member is counted in the slots, collateral is held for the life of a membership, cancelled is final, the schedule is the active members | 2,006,647 |
| `cycles` | money conserved, pool backs unpaid cycles, a payout has all contributions, missed recorded once, due pots are paid | 871,748 |
| `withdrawal` | never overdrawn, FAILED is refunded and what is refunded stays FAILED unless the webhook's write was overtaken by the refund, outcome is the provider's unless in doubt, pending resolves | 80,513 |
| `funding` | credited once, unless somebody credited without having been told the payment type; status matches the ledger, a paid top-up is not given up and gets settled | 104,383 |
| `account` | levels 2 and 3 need a review of their document or, outside production, the test number; payments are credited once and accounted for, only overlapping requests leave a record stuck or a closed account unsettled | 4,781,664 |
| `sessions` | one live session, of the password of now, that nothing has ended; role and status are what the audit log tells, but for overlapping or dead decisions and accounts made an administrator's by `registerAdmin` | 1,507,781 |
| `addresses` | a code is used once, an address belongs to one account, a changed address was confirmed; each but for requests that overlap or die half done | 1,997,868 |
| `trust` | no payment is lost from the counters, a rating only when two overlap, the score is that of the counters and moves the right way | 1,594,108 |
| `messaging` | a mail arrives once unless the program could not know, and is sent or given up; the audit trail of notifications is true, jobs that KYC's processor took excepted; repetitions are paid for by failures; the badge of each of two tabs is the number of unread notifications, unless the tab was told a count that something ran into or was not told of a change | 793,245 |

The runs switch the deadlock check off where a program without anything left to do is in order: a
circle that ended, a wallet without requests, an account that is closed, a bound reached. The runs
of the ledger keep it on.

## 4. Bounds

- `Ledger`: two wallets (a user's and the platform pool), one bucket source, amounts of 1 to 3, seven
  jobs, each of which may be refused, rolled back and submitted again without limit. A job may have to
  wait for others (`Requires`), as a payout does for the first contribution. The second one locks the
  user before the pool and the payout the pool before the user: the lock cycle. The withdrawal runs at
  READ COMMITTED on the user's wallet, among the Serializable jobs, so wallets do go astray in this
  run; credits at that level are those of `ledger_lost_credit`. Two transactions on one wallet are
  enough for every conflict there is between two snapshots.
- `PayoutConfig`: three members, scores missing, 0 or 1, two join times (so that ties occur), four
  first deadlines around month ends, a leap day and a year end, three frequencies. A tie needs two
  members and an order inversion around it a third.
- `Circle`: two users, one change of terms, `MaxTasks` two handlers in flight, `MaxFilled` two counted
  slots, `MaxJoins` two memberships ever created. Two overlapping handlers show every stale read of
  one row; the same user can join twice, as the second collateral needs. Users are symmetric.
- `Cycles`: two members, two cycles, `MaxTasks` two loans or reversals in flight, contributions of 100
  and funds of 205, so that a late second contribution with its penalty cannot always be paid
  without a payout or a loan.
- `Withdrawal`: two withdrawals of 2 from a wallet of 4 of which 1 may become reserved: each is
  covered, both together are not always.
- `Funding`: one checkout with two payment methods (so that two credits with different names could
  exist), payments under, over and at the amount, three ages of the transaction.
- `Account`: two requests in flight (symmetric), one payment; requests may be made without limit.
  `Production` is `FALSE`, which has all the behaviours of `TRUE` and those of the test number.
- `Sessions`: two requests in flight. `Ops` are sets of handlers: a behaviour calls the handlers of one
  set, without limit within the bounds on tokens, codes and passwords ever created. In `sessions` one
  user goes through five sets (passwords, a new address, closing, registration, review), with two
  tokens and two passwords; in `addresses` two users and three addresses through three sets
  (directory, confirmation, codes), with two codes. A set has the handlers that write what the others
  read; properties across sets (a login while a review is under way) involve disjoint columns.
- `Trust`: two members and the circle's administrator, one of them followed, two recordings of missed
  contributions, one contribution or superadmin's event besides, ratings of 1 and 5. Two overlapping
  updates of one row show every lost one.
- `Messaging`: one mail with two cron runs at a time, three attempts of the job and five of the row as
  in the code, `MaxMailFaults` two failures; one job with the code's three attempts, two calls, two tabs,
  `MaxNoteFaults` two failures. Mail and notifications share no state, so a behaviour is one of either,
  and `MessagingMC` bounds those of notifications further (`WithinBounds`): a job runs without calls and
  without tabs that ask, tabs ask until the mails of the calls go on, and calls meet one failure. To a
  tab, a run of a job is what a call is, and no half of a run looks at what tabs do, so what is cut off
  is the product of things that do not meet; the theorems do without these bounds. Two tabs are what it
  takes for one to be told what the other is not, and two notifications for one to arrive between the
  count of the other and its answer.

## 5. Fairness

- `Cycles!Fairness`: time passes, and the hourly job handles each due cycle. Members are not assumed
  to contribute, nor administrators to act.
- `Withdrawal!Fairness`, `Funding!Fairness`: a running handler goes on or dies; the provider repeats an
  event until it is acknowledged; a step that can succeed does not fail for ever (strong fairness
  of the reads and writes of the database). Nothing is assumed of a user's own requests, and a
  crash is always possible, so the properties name the outcomes nobody resumes.
- `Mail!MailFairness`: workers take jobs, cron runs start, whoever sends goes on (weak fairness), and a
  row that becomes FAILED again and again is taken by a cron run some time (strong fairness of
  `SweepTake`: between two runs the row is not due, so weak fairness would promise nothing; the cron
  job's query has no offset that could leave it out for ever). SMTP and database are not assumed to
  work: failures are bounded, refusals are not.
- The others state no liveness: nothing in them must happen without a request.

## 6. Proofs

TLAPS proves the theorems below for every value of the constants, from the named assumptions of the
modules and whatever the theorem itself assumes. The named assumptions give the constants their types
and no more: finite sets of members and users, natural amounts and bounds, "nobody" is not a user,
first deadlines are days the calendar has. Each safety theorem has the same shape: an invariant that
is strong enough to be inductive is shown to hold initially, to be kept by every action, one step of
the proof per action, and to imply the property; type correctness comes first, since arithmetic means
nothing without it.

### Sums: `SumTheorems`

`Sums` defines `Total(f, S)`, a sum over a finite set, by a recursion that takes out a chosen element
at a time. The provers have no induction rule, but they can use that strict subsets of a finite set
are well founded: a set of counterexamples has a minimal element (`MinimalSubset`), and a set of
numbers a least one (`LeastNumber`). With these, `TotalRemoves` shows that the order of taking out does
not matter, `TotalExcept` that a sum follows a change of one term, and the other lemmas that sums are
typed and monotone. `StepwiseExists` does the same for what is computed step by step, such as a shuffle
or a list of deadlines. The modules about money, ratings, circles and the ledger rest on these.

### Ledger: `ServiceProofs`, first half

- `RunningTotalCorrect` holds for every mix of isolation levels, in the wallets that have not gone
  astray. A running total that was read may be old, so the invariant says what makes a draft right:
  only the job that holds the wallet's lock has uncommitted rows (`DraftsAreLocked`), they continue the
  base that the job sees (`DraftsAgree`), every snapshot was right when it was taken
  (`SnapshotsAgree`), and one that is not the present any more has a rival and cannot commit, or the
  wallet is among the unseen and goes astray if it does (`StaleIsKnown`). The run
  `ledger_lost_credit` shows that the exception is needed; `AstrayOnlyIfMixed` that it is narrow: only
  a wallet to which transactions of both levels were committed can go astray.
- `BucketsCorrect` needs no assumption on isolation, because buckets are incremented in place, but one
  on the callers, `ReleasesFollowReserves`: a job releases only what the same reference reserved.
- `AvailableCorrect` takes the same assumption and carries the available balance through snapshots and
  drafts (`SnapshotsCovered`, `DraftsCovered`), again outside the wallets gone astray.
- `LedgerImplementsBank` is the refinement: under that assumption, and for jobs that write something
  (`EveryJobWrites`), every behaviour of `Ledger` is one of `WalletBank`. Everything before a commit is
  a stutter; a commit is one abstract request, a whole sequence of postings each checked against the
  balances as they are then. So `PostInv` says of an uncommitted job that its drafts add up to the
  operations it has done (`DraftsAddUp`), that each of these was covered when it was done
  (`DraftsBacked`), and that a reference is posted once (`RefsOnce`). The bank's recursion over the
  operations of a request is characterised by sums over them, and two solutions of it agree because
  there is no least operation at which they differ.

### Mail and notifications: `ServiceProofs`, second half

- `OutboxIsTrueCorrect` goes through `MailInv`: who works on a row and with which attempt (`JobsAtWork`,
  `InHand`), that what is noted as sent was delivered (`NotedIsDelivered`), and when a FAILED row is due
  (`DueFailed`).
- `TrailIsTrueCorrect`, `ToldOncePerFailureCorrect` and `BadgeIsUnreadCorrect` share `NoteInv`: runs come
  one after the other (`RunsInOrder`) and are paid for by failures (`FailuresPaid`); the two halves of a
  run go through their own steps (`EmailSteps`, `InAppSteps`), and what a run has done stays done
  (`DoneInARun`); what a tab was told agrees with
  the rows unless the tab is stale, and a count on its way unless something crossed it (`CountsAgree`).
  All three for any number of events, calls and tabs, with the exceptions the properties name.

### Circles: `CircleProofs`

- `SortedIsStablePermutation`: for every list of members and every logic that compares, the sorter
  returns each member once, nobody behind somebody the comparator puts later, ties in the order of the
  query. Every comparator is a strict weak order, nulls and missing scores included; the predecessors of
  a place then form a strict total order, and counting them numbers the places without gaps
  (`RanksArePositions`, by the pigeonhole facts about finite sets). `ShuffledIsPermutation` says the same
  of the random draw: a swap keeps a permutation one, and there is no first swap that does not.
- `EveryonePaidOnce` follows for every logic and for assignments that move any number of members at
  once (the run moves one): if the positions collide, activation refuses, and if they do not, ordering
  keeps the members.
- `CyclesInOrderCorrect`: adding days or a month to a date gives a date (`PlusDaysFacts`,
  `PlusMonthFacts`), later than the day after and not beyond the next month (`FrequencyFacts`), over month
  ends, leap days and years; and each deadline of a schedule follows from the one before
  (`DeadlinesFollow`).
- `SlotsCorrect` is inductive with the types: whoever becomes active adds one to the stored
  `filledSlots`, not to the value that was read, so a stale read costs positions but never slots.
  `CollateralCorrect` needs for each user (`MemberInv`) that nothing is owed without a row, that a
  PENDING request holds a positive, unreleased amount, and that nothing is released while the circle is
  a draft: these are what keep leaving, cancelling and rejecting from taking an amount twice.
  `CancelledCorrect` is an action property. `ActivationCorrect` rests on the sorter's theorem, as does
  `TypeCorrect`, since activation writes places in the sorted list as positions.

### Cycles: `CyclesProofs`

`MoneyConservedCorrect` compares two sums over members and cycles that every handler changes in
several terms; `PoolBacksCorrect` adds that the pool holds each open cycle's contributions;
`PotPaidInFullCorrect` and `MissedOnceCorrect` need what a contribution, a payout and a missed record
say about each other and about the time. For any number of members and cycles, any amounts, and any
number of loans and reversals in flight.

### Money in and out: `PaymentProofs`

- `NeverOverdrawnCorrect`, `FailedIsRefundedCorrect` and `OutcomeCorrect` (withdrawals) share
  `WithdrawalInv`: a webhook about to write has read a status that still stands, or it was overtaken
  (`PendingIsFresh`), what was found available is still there under the lock (`CheckedIsCovered`), nothing
  is sent or refunded before the debit (`NothingBeforeOrder`), a request that gives up without a doubt
  was refused (`GivesUpIfRefused`), SUCCESS was paid, and a refund without a doubt was not
  (`SuccessIsPaid`, `RefundedIfNotPaid`).
- `CreditedAtMostOnceCorrect`, `CreditedOnlyIfPaidCorrect`, `StatusMatchesLedgerCorrect` and
  `PaidIsNotFailedCorrect` (funding) share `FundingInv`: all credits name the one charge, or none if
  its type was left out (`EntriesNameCharge`), what a reconciliation or the webhook carries between two
  awaits is still what the charge is (`ChecksAgree`, `HookAgrees`), nobody pays without a link
  (`LinkBeforeCharge`), and FAILED has a reason (`FailedWithReason`).

### Identity and virtual accounts: `AccountProofs`

For any number of requests and payments, in production or not. `LevelsAreEarnedCorrect` goes through
`IdentityKept` and `ReviewsGoFirst`; `PaymentsAccountedCorrect` through `MarkersAccounted` (a marker, its
handler and its entries tell one story); `NobodyStuckCorrect` and `ClosedIsSettledCorrect` through
`OneAtATime`: as long as no request has overtaken another, what a request found is still so
(`StillHolds`) and the record is at a step that has a next one (`RecordInStep`).

### Sessions, addresses and codes: `SessionsProofs`

One idea carries all of them: what a request in progress has read of a table still holds, or its row
says that the table was written since (`overtaken`). `TrailTellsAccountCorrect` and
`AddressIsOnesCorrect` need it of the account table, `CodesAreOnceCorrect` of the codes (`CodeInv`).
`EmailIsProvenCorrect` follows a code from the mail that carried it to the change it confirms
(`EmailInv`: `OldCodes`, `CodeProves`, `PendingKept`, `ProofKept`), and `SessionsEndCorrect` a session
from login through exchanges of its token to whatever ends it (`TokenInv`: `TokenKept`, `Together`,
`IssueKept`, `Exchanged`, `Beside`). Each excepts the requests that overlapped another one, or died
half done, and only for the user they were about. For any number of users, addresses, requests, tokens
and passwords.

### Trust: `TrustProofs`

`CountersCorrect`: no event that was recorded is lost from the counters, and no part exceeds its whole,
in spite of recordings without a transaction; it is inductive with the types because the increments are
relative to the row as it is. `RatingsCorrect` compares the counters with sums over the reviews, which
only overlapping ratings of one member can disturb. `ScoreCorrect` says when the stored score is that
of the counters, and that the five parts that are shown with it add up to it but for their rounding:
each is a rounded quotient, compared over a common denominator. `PaymentsCorrect` is an action property
about quotients whose denominators every payment changes: the shares of a row are compared by cross
products (`NotMore`), what compares share by share compares as a whole (`PartsCompare`,
`ScoresCompare`), `Math.round` keeps the order (`RoundMonotone`), and each kind of payment moves every
share one way or leaves it, because no part exceeds its whole (`OnTimeRaises`, `LateLowers`,
`DefaultCosts`).

### Only model-checked

- All liveness (`DuePotsArePaid`, `PendingResolves`, `PaidIsSettled`, `MailSettles`), since fairness and
  ENABLED are outside what the provers handle.
- That the bounds of a run are never in the way, which is a matter of the run and not of the theorems:
  these hold for every bound.

## 7. What the models show about the code

One disagreement has a run of its own.

- **A credit is lost from the running total** (`ledger_lost_credit`). `writeEntry`, `makeContribution`,
  `processPayout`, `requestToJoin` and `applyLoan` are Serializable; webhook credits, withdrawals and
  invites are READ COMMITTED. A Serializable transaction that waited for the wallet's lock reads the
  total of its old snapshot and continues it.

The rest are behaviours of the models, and so of the code, that the properties name as exceptions
or leave out:

- Collateral: a rejected member, whose collateral was released, can be approved, leave or complete
  afterwards, and it is released once more (`rosca/services/membership.service.ts:141`, 278); this is
  the exception of `CollateralIsHeld`. `flagMember` leaves `filledSlots` alone, after which the circle
  cannot be activated (`superadmin/superadmin-governance.service.ts:169`); `updateCircle` and
  `cancelCircle` write after a stale check, `cancelCircle` also over COMPLETED; approvals and invites
  may exceed `maxSlots`; several positions moved in one request may collide
  (`rosca/services/circle.service.ts:331`).
- Cycles: a loan can outlive the payout it is repaid from, as eligibility looks neither at what was paid
  in nor at whether the borrower was paid already (`loans/loans.service.ts:81`). A reversed payout can
  never be retried, since the FAILED row keeps the unique `scheduleId` (`payout/payout.service.ts:351`,
  `prisma/schema.prisma:463`); the last cycle completes the circle although earlier ones are unpaid,
  and misses of the last cycle are not recorded, memberships being COMPLETED by then; a contribution
  accepted after an early manual payout stays in the pool.
- Withdrawals: a reversed withdrawal can end as SUCCESS, where the schema says of FAILED "Failed or
  reversed" (`prisma/schema.prisma:175`). The webhook reads PENDING outside its transaction; the
  request, whose call to the provider failed or timed out after the transfer was accepted, refunds and
  writes FAILED; the webhook writes SUCCESS without looking again (`webhooks/webhooks.service.ts:366`).
  This is the exception of `FailedIsRefunded`. Every exception of the provider call counts as a failed
  transfer, so a transfer whose answer was lost is refunded although it is paid
  (`withdrawal/withdrawal.service.ts:230`). A process that dies between the debit and the provider call
  leaves a withdrawal PENDING for ever; one that dies after the marker of an event has every retry
  acknowledged as a duplicate (`webhooks/webhooks.service.ts:612`).
- Funding: the ledger takes a credit twice if it comes under two names. The name starts with the
  payment type; the webhook falls back on the event's own type when the provider's answer leaves it
  out (`webhooks/webhooks.service.ts:186`), the reconciliation writes `Funding-Unknown`
  (`funding/funding-reconciliation.scheduler.ts:334`), and both read PENDING first. This is the
  exception of `CreditedAtMostOnce`. A top-up marked FAILED because the provider had no record yet is
  not credited when the customer pays (`funding/funding-reconciliation.scheduler.ts:254`); an
  overpayment is FAILED by the webhook and credited by the reconciliation, whichever comes first.
- Account: two requests that verify one number read the record before either writes, and the later one
  takes it back to the next step, from where a record that went further cannot go on
  (`kyc/kyc.service.ts:151`); this is the exception of `NobodyStuck`, in spite of the comment
  "Idempotent: if NIN is already verified, return current status without re-processing"
  (`kyc/kyc.service.ts:123`). A level 3 user who submits a photo again may fall to level 2;
  `getKycStatus`, a read, approves records of level 0 that are SUBMITTED, rejected ones included
  (`kyc/kyc.service.ts:97`); `closeAccount` keeps the level and the documents; money that comes in
  while an account is being closed stays in the CLOSED wallet (`users/users.service.ts:376`); a
  deletion cut off between Flutterwave and the table leaves a virtual account that can be neither
  deleted nor closed (`virtual-accounts/virtual-account.service.ts:146`).
- Sessions: two logins that overlap leave two live sessions; a password reset that dies before it
  revokes leaves the old session (`auth/auth.service.ts:435`); `registerAdmin` sets a password without
  ending sessions and creates or makes an administrator without an audit entry
  (`auth/auth.service.ts:225`); an address may be one account's address and another one's pending
  address, if the requests overlap (`users/users.service.ts:306`); overlapping requests may use one
  code twice or leave two usable (`otp/otp.service.ts:123`); a decision on a user whose process dies, or
  that overlaps another, leaves the log silent or wrong (`superadmin/superadmin-users.service.ts:234`).
- Trust: two overlapping ratings count as one (`trust/trust.service.ts:120`); a recording of a missed
  contribution that dies halfway leaves the score behind the counters until the next event, one that
  dies before its update is never counted. A default after a payout costs a weight of 3, and 1.5 for
  the missed payment (`trust/trust.service.ts:30`), where comments speak of "×2.0"
  (`trust/trust.service.ts:8`, `trust/trust-admin.controller.ts:81`); no property depends on the
  factor. `cycle_reset` is sent by no code although the comment at `trust/trust.service.ts:10` lists
  it, and no contribution passes `isPostPayout`.
- Mail: a mail whose job was given up before its row became FAILED is nobody's
  (`mail/mail.retry.service.ts:24`). A notification job may be taken by the processor of KYC events,
  which ignores it, after which it counts as done (`notification/notification.processor.ts:48`,
  `kyc/kyc.processor.ts:17`); this is the exception of `TrailIsTrue`. Marks through the REST controller
  tell no tab (`notification/notification.controller.ts:61`), an answer to a question for the count
  reaches one tab only and may be older than a push (`notification/notification-gateway.ts:108`).

## 8. What is not modelled

Components without a module: the superadmin's lists, audit log views, analytics and wallet resets
(pages that are read and shown; a reset is one `writeEntry`); the older `buckets` service, which no
module calls; the list of banks; the simulation and sandbox tools, which drive the real services or a
database of their own; Kafka, health, configuration and DTOs. `PROJECT.json` says so one by one.

Left out within the modelled ones: encryption and formats of identity numbers; texts of mails and
notifications, connections and their tokens, paged lists and reports; names, phone, date of birth
and the transaction PIN (edits of one column nothing else reads); access tokens and password hashes;
tx_ref and currency mismatches, which end like an underpayment or leave the verdict open; KYC limits,
PIN and wallet status before a withdrawal; the order of ledger rows with one `createdAt`; a second
payment attempt on one checkout; a payment to a virtual account that fails verification, which is
acknowledged without a credit; the administrators' reads of virtual accounts; the credit bureau,
which is a placeholder in the code and an input here; the peer reviews' paged lists; test mode of
Flutterwave; the retry of a reversed payout, which changes nothing; code that is never called
(`finalizeSettlement` and `refreshFromProvider` among it).

Balances are true sums in `Circle`, `Cycles`, `Withdrawal`, `Funding` and `Account`: how the running total
departs from them is the subject of `Ledger` alone. An action is atomic where the code has one
statement or one transaction; what a statement computes in the process before it is sent is part of
it.

## 9. Plan

Done, in this order: ledger and its abstract bank with theorems; payout order; circle; cycles;
withdrawal and funding, each with its safety theorems; KYC and account; trust; mail and
notifications; one-time passwords and sessions; the theorems about buckets and available balance,
about accounts, about trust counters, about the sorter and about circles; the laws of sums, and with
them the theorems about cycles, ratings and scores; the theorems about sessions, addresses, codes,
mails and notifications, about the dates of a schedule and the random draw; the refinement of
`WalletBank` by `Ledger`. Every safety property a run checks is now also a theorem.

Left: the superadmin's wallet adjustments as jobs of `Ledger`; a composition of `Cycles` with `Trust`, so
that missed contributions are recorded in the order in which cycles close; the older `buckets`
service, should anything come to call it.
