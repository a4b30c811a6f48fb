# Verification of erp-nexostech

TLA+ modules, TLC configurations and TLAPS proofs for the backend and the stateful parts
of the frontend. Paths below are relative to `src/backend/src` unless they start with
`src/`; `fin/` stands for `modules/financial/`, `web/` for `src/frontend/src/`.

    tlc -workers 2 -config EntryRaces.cfg MCEntries      # model-check one run
    tlapm EntrySafety.tla                                # check one module of proofs

`PROJECT.json` lists the runs, for every property a mutation of the code that breaks
it, the source lines every definition stands for, the findings, the hazards and the
theorems.

## 1. The system

A multi-tenant NestJS backend for payables and receivables. Every tenant has a
PostgreSQL schema of its own; requests run in any number of Node processes that share
PostgreSQL (READ COMMITTED, `drizzle.transaction`), Redis (cache, locks) and BullMQ
(jobs). Nothing else synchronises two requests, so what is not in one statement, one
transaction under a row lock, or a unique index can interleave.

| Component | State | Operations | Interacts through | Hard behaviour | Correct when |
|---|---|---|---|---|---|
| entries `fin/entries` | `financial_entries` | create (1 to 120 installments), update, delete, restore, cancel | reads lock periods, approval rules; writes `audit_logs`, outbox | checks without a lock, writes outside the transaction that audits them | cancellation is final, deleted rows are frozen, status is true |
| payments `fin/payments` | `financial_entry_payments`, `paid_amount` | pay, batch pay, refund | row lock of the entry, outbox | concurrent payments and refunds, amended amounts | `paid_amount` is the sum, nothing is overpaid |
| approvals `fin/approvals` | `entry_approvals` | approve, batch approve, reject | conditional UPDATE of the entry, numbering, outbox | racing approvers, approve against cancel or delete | one decision; large entries are approved before they can be paid |
| document numbering | `document_sequences` | upsert of the counter inside the caller's transaction | creation, approval, recurrences | batches, rollbacks, deletions | consecutive, unique, for ever |
| lock periods `fin/lock-periods` | `lock_periods`, lists in the browser | close, reopen, show | read by entries and transfers | check-then-act, one cache key for two shapes | no overlap, what was closed is shown |
| approval rules `fin/approval-rules` | `approval_rules`, a form | create, change, delete | read by the creation of entries | a change beside a deletion, a creation repeated | what was confirmed stays |
| jobs `fin/jobs` | entries, dispatches, recurrences | overdue, recurrence, payment-thanks, due-soon, collection, cleanup | BullMQ | retried beside a run that timed out; race the requests | each is idempotent |
| outbox `infrastructure/outbox` | `public.outbox_events` | insert, poll every few seconds, mark, clean up | transactions in, event bus out | crash between emit and commit, several workers | no committed event is lost, none is emitted beside itself |
| queue, notifications | BullMQ jobs, `notifications` | add, process with timeout and retry, store | listeners of the event bus | job-id deduplication, handlers that outlive their timeout, swallowed failures | every job ends, a payment is thanked once a day |
| cache `common/decorators`, `common/listeners` | Redis keys and locks | fill under a lock, invalidate | dashboard, reports, RBAC, tenant guard | lock expiry, fill racing invalidation | one caller computes, everybody is answered |
| idempotency `common/interceptors` | Redis keys | look up, run, store | every `@Idempotent` route, the forms' keys | two requests with one key | a key runs its handler once |
| transfers `fin/transfers` | `financial_transfers` | create, delete | balances computed from payments and transfers | snapshot older than the lock | no overdraft |
| reconciliation `fin/reconciliation` | batches, items | import, match, undo | payments, accounts | two matches, a match against an undo | one match is announced, with the entry the item holds |
| boletos `fin/boletos` | `financial_boletos`, gateway | generate, cancel, webhook | HTTP with retry and timeout | duplicates, late answers, reordered webhooks | the row tells what became of its boleto |
| attachments `fin/attachments` | `attachments`, `tenant_storage_usage` | sign, register, delete | object storage | double delete, quota | usage is the sum of sizes |
| categories `fin/categories` | tree of categories | create, move, delete | entries | two moves at once | no cycle |
| tenants, onboarding, migrations | `public.tenants`, `tenant_migrations`, schemas | onboard, apply, retry | guards read `schema_name` | crash between statements, two runners | what is recorded as applied is applied |
| RBAC, guards | roles, permissions, links, their cache | assign, replace, check | cache, outbox, audit | stale permissions | a revoked permission expires |
| branches | `branches`, `user_branches` | create, delete, link, unlink, replace | guards, the browser | half a replacement | nobody is locked out by accident |
| reports, dashboard | none of their own | sums over entries, payments, transfers, accounts | cache | three statements for one report | the reports agree |
| errors, rate limit | counters per address | refuse, answer, map to a text | every call of the browser | answers out of order | a told block is waited out |
| browser | cookies, tabs, query caches, optimistic lists, table of users | sign in, switch branch, mark and delete, tick | the API through a proxy | tabs that share cookies, late answers | a tab shows what it says it shows |
| CRUD: contacts, settings, names | rows | create, update, delete | none | none | |

Section 7 says what of this is not modelled and why. The hazards, each at its line and
with the properties that watch it, are listed in `PROJECT.json`.

## 2. Plan

The order follows what loses money first.

1. **Done**: `Money`, `DocumentNumbers`, `Entries` with their proofs: entries, payments,
   approvals, numbering, lock periods and the overdue job.
2. **Done**: `Transfers` with its proofs: the balance as a snapshot taken before the row
   lock is granted. One run for what holds and one for the overdraft, which
   `src/backend/README.md:314` excludes ("validacao de saldo em transacao e lock da conta").
3. **Done**: `AtLeastOnce`, `Outbox` with its proofs, `Jobs`: what an event causes.
4. **Done**: `Access`, `Branches`, `Requests`, `Idempotency`, `ResultCache`, `SignIn`: what
   stands between a user and a handler.
5. **Done**: `Tenancy`, `Boletos`, `Reconciliation`, `Attachments`, `Categories`,
   `Recurrences`, `Reports`; in the browser `BranchSwitch`, `NotificationList`,
   `Failures`, `Users`; `LockPeriods` and `ApprovalRules` with their pages.
6. **Done**: a theorem for every safety and action property that a run checks, in the proof
   module of its component (section 5).
7. Not planned: the connection pool, the cleanup job, the exports (section 7).

## 3. Modules

| Module | What it is |
|---|---|
| `Money` | Decimal arithmetic in cents: sums of payments, `determineStatus`, installments |
| `DocumentNumbers` | the contract of numbering: `Issue` draws a batch from a series |
| `Entries` | the detailed model of one branch of one tenant |
| `MCEntries` | symmetry and the three statements of the documents that do not hold |
| `Transfers` | transfers between the bank accounts of one branch |
| `MoneyTheorems` | lemmas about sums: type, one more, one less, union, partition, bounds |
| `DocumentNumbersProofs` | proofs about the contract |
| `EntriesProofs` | the inductive invariant of `Entries`; what any step looks like from one row |
| `EntrySafety` | the safety theorems; `Entries` implements `DocumentNumbers` |
| `TransfersProofs` | what the row lock of an account protects, and how far races overdraw it |
| `AtLeastOnce` | the contract of the outbox: committed, delivered, forgotten, in that order |
| `Outbox` | the table and the workers that poll it |
| `Jobs` | listeners, BullMQ jobs and their handlers, notices and thanks |
| `Access` | roles, links, the permissions RbacGuard caches |
| `Branches` | branches, their users, replacements; what BranchGuard lets through |
| `Requests` | the guards in their order and the audit rows of a request that writes |
| `Idempotency` | the interceptor and the keys of the forms |
| `ResultCache` | `@CacheResult` on one key |
| `SignIn` | the authorization code flow in several tabs |
| `Tenancy` | onboarding, migrations, the schema TenantGuard caches |
| `Boletos` | rows, gateway and webhook |
| `Reconciliation` | batches, items and matches |
| `Attachments` | uploads, rows and the bytes charged |
| `Categories` | the hierarchy and the walk that guards it |
| `Recurrences` | the job that makes the next entry |
| `Reports` | the reports and the dashboard as sums (`Money`) over one changing ledger |
| `BranchSwitch` | the branch of a tab, the cookie of all tabs, the header of a request |
| `NotificationList` | the optimistic list under the bell |
| `Failures` | rate limit, exceptions, the pause of the client, the text of an error |
| `Users` | the page that ticks the branches of users; extends `Branches` |
| `LockPeriods` | the closing of periods, the page and the guard that show them |
| `ApprovalRules` | the editing of the rules and the form that creates them |
| `MCDelivery`, `MCPlatform`, `MCRecords` | instances of the modules above, one component per behaviour |
| `DeliveryProofs` | `Outbox` implements `AtLeastOnce`, no two workers emit beside each other; what `Jobs` keeps |
| `PlatformProofs` | the theorems of the six components of `MCPlatform` |
| `RecordsProofs` | the theorems of the thirteen components of `MCRecords` |

### How `Entries` corresponds to the code

Each table is a variable; `req[w]` is what request `w` remembers between two awaits.
An action is what one commit makes visible:

| Action | Code | Atomic because |
|---|---|---|
| `CreateCheck`, `CreateCommit` | `entries.service.ts` create | reads before the transaction; then one transaction |
| `EditCheck` | getById and checkLockPeriod of update, softDelete, restore, cancel | reads on a pooled connection |
| `UpdateWrite`, `SoftDeleteWrite`, `RestoreWrite`, `CancelWrite` | `entries.repository.ts` | one statement, committed alone: the repository does not get the transaction |
| `AuditCommit` | insertAuditLog | the transaction around that statement holds nothing else |
| `DecisionCheck`, `ApproveCommit`, `RejectCommit`, `DecisionConflict` | `approvals.service.ts`, `approvals.repository.ts` | read without a lock; then one transaction whose UPDATE repeats the condition |
| `RegisterPayment`, `Refund` | `payments.service.ts` | one transaction that locks the row first; everything it computes is read after the lock |
| `MarkOverdue` | `overdue.processor.ts` | one statement |
| `ClosePeriod`, `ReopenPeriod` | `lock-periods` | one write; the overlap check is read with it |
| `DueDatePasses`, `RefundDeadlinePasses` | the clock | |
| `Abandon` | a crash, a lost connection, a failing audit row | the transaction is rolled back, what was committed stays |

Abstractions. Dates are only compared: an issue date with the locked periods, a due
date with today (`late`), a payment date with the refund window (`expired`, decided at
any moment). Amounts are natural numbers of cents. The document number's year, type
and branch are a series, and a request may meet any of them, so a change of year
between two requests is included. Approval rules are their least `min_amount`
(`ApprovalFloor`); the type of the entry only selects among rules, so it is left out.
Bank accounts, contacts, categories and texts decide nothing here. `batchPay` and
`batchApprove` are several requests. `ClosePeriod` reads and writes in one action, as
`Locked` only depends on the latest period; `LockPeriods` splits it.

The rows the recurrence job would insert are left out: no code of the repository
creates a recurrence. Such rows start PENDING without passing the approval rules and
may leave gaps in a series, so `LargeEntriesApproved` and `SequentialNumbers` speak of
entries created through the API.

### How `Transfers` corresponds to the code

A balance is stored nowhere. `getAccountBalanceForUpdate` computes it in subqueries of
the statement that locks the account's row; at READ COMMITTED these read the snapshot
the statement starts with, and once the lock is granted only the locked row is read
again. Hence two actions for one statement: `TakeSnapshot` and `LockGranted`, which
compares the amount with the current `initial_balance` and the flow of the snapshot.

| Action | Code |
|---|---|
| `CreateCheck` | `transfers.service.ts` create, the lookups before the transaction |
| `TakeSnapshot`, `LockGranted` | `getAccountBalanceForUpdate` and the comparison after it |
| `Insert`, `CreateCommit` | the insert with the foreign key's lock on the destination, then the commit |
| `DeleteCheck`, `DeleteCommit` | softDelete: a read, then a transaction that locks no account |
| `EditInitialBalance`, `CloseAccount` | PUT and DELETE of a bank account: one UPDATE that waits for the row lock |
| `Settle` | whatever changes which payments belong to PAID entries of the account; locks nothing here |
| `Abandon`, `LockTimeout` | rollback; the pool's `lock_timeout` (`drizzle.service.ts:26`) and PostgreSQL's deadlock detection |

`settled` keeps what entries brought to and took from each account; it only grows here,
a refund of a receipt being a debit. The lock period is a check that ends a request
without an effect, so it is left out, as are the audit and outbox rows, which commit
with the transfer. All accounts exist from the start.

### How events travel: `Outbox` and `Jobs`

| Action | Code | Atomic because |
|---|---|---|
| `Insert` | `outbox.service.ts` insert | part of the transaction that changes the data |
| `Poll` | `outbox.worker.ts` processBatch up to its UPDATE | SELECT ... FOR UPDATE SKIP LOCKED, then a loop of `emit` without an await |
| `MarkProcessed`, `RollBack` | the UPDATE and the end of the transaction | one commit, or none |
| `Cleanup` | cleanup of processed rows | one DELETE |
| `Emit` | the event bus, whatever poll it comes from | listeners start synchronously and are awaited by nobody |
| `Listen`, `LoseRun` | a listener up to the job it adds | it changes one thing; its process may end before |
| `StartAttempt`, `TimeOut`, `Settle` | BullMQ and `queue.service.ts` registerProcessor | a handler is raced with a timer and goes on when it loses |
| `PaymentThanks`, `Notify` | the processors | their one INSERT |

`Jobs` takes from `Outbox` what `AtLeastOnce` promises: an event may be emitted any number of
times. An event's listener may overlap with itself `Copies` times. `HeadIsEmitted` holds even
if no UPDATE is ever accepted, which is not far-fetched: the statement compares `id` with
`ANY` of an array that the query builder expands into a list.

### How `Access`, `Branches` and `Users` correspond to the code

A request for a guard splits between its SELECT and its store in the cache; a request that
changes a role splits at each transaction, the invalidation and the event it leaves in the
outbox. `GrantsAreFollowed` says when the cache may differ from the tables, an event
not received yet (`changed`), or an invalidation that was lost or overtaken by a fill
(`missed`). A deleted role still grants in the guard and is hidden in the profile, which is why
the property compares the cache with both. `Users` extends `Branches`: a page is a
`Replacer`, its table comes from two reads (`ReadUsers`, `ReadBranches`), and a tick sends
all branches of the user as the table showed them.

### How the other modules correspond to the code

- `ResultCache`: one action per await of the decorator. A result is fresh or stale; the
  dashboard's TTL and the listener's invalidation are `ExpireEntry` and `Invalidate`.
- `Idempotency`: `Missed`, `Handle`, `Store` are the three awaits of the interceptor. A
  mounted form stands for its key.
- `Requests`: the global guards of `app.module.ts` and those of the controllers, in
  the order they run, decide `AdmittedTenants`; the snapshot before is a read of its own (`ReadBefore`).
- `SignIn`: a flow stands for its state and verifier; the authorization server is external.
- `Tenancy`: every statement outside a transaction is a step, and `Crash` may follow any.
- `Boletos`: a POST and its answer are two actions; the gateway is external and its webhook may
  report any status a boleto has had, at any time and repeatedly. `crossed` are the entries
  whose status was set for another boleto than the row names.
- `Reconciliation`: the check of `match` and its transaction are two actions, and so are those
  of `import`.
- `Attachments`: presigning, the upload, registration; deletion is a check and a transaction.
- `Categories`: the walk is one query per level (`Read`), then the UPDATE (`Write`).
- `Recurrences`: rows locked, numbers taken one after the other, one commit for all.
- `Reports`: every report is one SELECT and an operator over the ledger, the cash flow three
  actions. Types and amounts are kept, names and groupings are not.
- `BranchSwitch`: a query is filed under the branch active when it started; whether its hook
  names the branch (`explicit`) is an input, as both occur.
- `NotificationList`: optimistic change, snapshot, roll back, refetch as the query library does it.
- `LockPeriods`: the check of `create` and its INSERT are two actions. The page and the guard
  share one entry of the query cache; a fetch is asked, read and delivered, that of the guard
  is given up with it, that of the page goes on. A guard that throws leaves `view = "other"`.
- `ApprovalRules`: `Find`, `Write` and the reload of `update`; the form counts the rules made
  of what it holds.
- `Failures`: the clock ticks between any two steps; all browsers share the proxy's address.

## 4. Runs

| Run | Question | Result |
|---|---|---|
| `entry_races` | do all operations on one entry, amended amounts included, keep what must never break? | holds, 686 thousand states |
| `entry_settlement` | with unamended amounts, do amount, payments, status and approval agree across two entries? | holds, 508 thousand states |
| `entry_numbering` | do batches and approvals number as the contract says? | holds, 5 thousand states |
| `entry_status_machine` | does the code follow `entry.status-machine.ts`? | no: PARTIAL becomes OVERDUE |
| `entry_cancel_race` | is a cancelled entry unpaid? | no: a payment slips between check and write |
| `entry_self_approval` | is nobody the approver of an entry of his own? | no: `created_by` is `'system'` |
| `transfer_races` | what does the row lock protect, how far do races overdraw an account, does every transfer end? | holds, 412 thousand states |
| `transfer_overdraft` | does no transfer overdraw its account? | no: a transfer that waited uses the balance from before the wait |
| `delivery` | is every committed event emitted, by one worker at a time, and what does a job do that is repeated, timed out and evicted? | holds, 24 thousand states |
| `approval_notice` | does an approval announce itself? | no: its payload names no schema |
| `platform` | do caches, keys, guards, audit and sign-in keep what they promise beside races, lapses and losses? | holds, 81 thousand states |
| `records` | do thirteen components around the entries keep theirs? | holds, 864 thousand states |

Bounds. Two workers are enough for every race of this code: each check-then-write
window belongs to one request, and payments, refunds, the job and the clock are single
actions that need no worker. Two payments make a partial one, a settling one and one
that would exceed; `entry_settlement` has three, so that two requests can compete for
the last cents. Amounts 1 and 3 with two installments give a total with a rest and a
total smaller than its installments (a row of zero cents). The floor of 3 lies on an
amount, so that the comparison at the floor matters. `entry_numbering` has three rows,
so that a batch of two and an approval share a series, and two series that must not
mix. Entries, series and payment ids are interchangeable; the symmetry used is of
entries and payment ids, for safety properties only. In the runs of `Entries` idle
requests can always begin, so deadlock is checked.

`transfer_races` has two accounts, so that transfers cross; two requests, the fewest
that overdraw and that deadlock; two transfers and one cent settled per side and account,
so that a snapshot can be stale in each of its four terms; amounts 1 and 2 against
initial balances 0 and 1, so that a balance may suffice, be short or be exact. When the
ids are used up, or all accounts are deleted, everything has ended: both transfer runs
say `CHECK_DEADLOCK FALSE`, and that no request is stuck is `TransfersEnd` instead.

`MCDelivery`, `MCPlatform` and `MCRecords` hold modules that share no variable. A behaviour
picks one (`focus`) and leaves the others in their initial states, so that a run explores the
sum of the state spaces, not their product, and loses nothing: there is no step in which two
of them take part. In these runs a behaviour may have nothing left to do (ids, days, starts
and changes are used up), hence `CHECK_DEADLOCK FALSE`; that calls and jobs do not get stuck is
`CallsAnswered` and `JobsSettle`. `records` permutes the values of `Request` and of `Boleto`,
which other constants share; they are interchangeable in each module that has them, and
the run has no liveness property.

| Constant | Value | Why it is enough |
|---|---|---|
| `Event`, `BatchSize`, `Poller` | 3, 2, 2 | a batch that leaves a row behind, and a second worker to take it |
| `MaxEmissions` | 3 | emissions and rollbacks are counted up to here; the property speaks below it |
| `Copies`, `LastDay` of `Jobs` | 2, 2 | a listener overlapping itself; a job of yesterday still in Redis |
| `Reader`, `MaxRetries` | 3, 1 | a holder, the one who took its lapsed lock, one who waits; 60 in the code |
| `AdminRequest`, `GuardedRequest`, `Role` | 2, 1, 2 | two changes and a fill between them, a system role and another |
| `Form`, `Payload`, `Request` of `Idempotency` | 1, 2, 2 | keys never meet; a key reused for another payload |
| `MaxVersion` | 3 | a change before, the audited one, a change after |
| `Flow`, `Tab`, `Page` | 3, 2, 2 | two tabs whose flows overwrite each other's cookies, and a retry |
| `MaxStarts`, `Program`, `Name` | 2, 2, 2 | an onboarding and a runner, or an onboarding repeated under a new name |
| `Boleto`, `Request`, `MaxAttempts` | 2, 2, 2 | a retry that makes a second boleto, two requests at once |
| `Batch`, `Matcher`, `Payment` | 2, 2, 1 | a payment in two batches, two matches of one item |
| `File`, `Size`, `Quota`, `Deleter` | 3, {1, 2}, 3, 2 | two files fill the quota, a third exceeds it; two deletions |
| `Category`, `Request` of `Categories` | 3, 2 | a cycle over two moves with a category between; a behaviour ends with the first raced update, after which the property says nothing |
| `Recurrence`, `Run`, `Claim`, `MaxOccurrences`, `LastDay` | 3, 2, 2, 2, 2 | a run that leaves a row for the next, both at work, a last occurrence |
| `Tab`, `UserBranch`, `Call` of `BranchSwitch` | 2, 2, 1 | a request on its way while either tab switches |
| `Notification`, `Change` | 1, 2 | a change rolled back over another |
| `Price`, `Amount`, `Day`, `ReportedPayment`, `Account`, `AgeLimits` | {2}, {1}, {1, 2}, 2, 2, {0} | two ranges of the aging; an entry unpaid, paid in part and paid, before and in the period of `First` to `Last`; also run with three days (195 thousand states) |
| `FailingCall`, `RateLimit`, `Minute`, `MaxTime` | 2, 1, 2, 3 | two calls refused by different blocks; also run to time 5 (1.2 million states) |
| `Boleto`, `Request`, `Day`, `Window` as `Period`, `Creator`, `Day`, `Window` of `LockPeriods` | 2, 2, {1, 2}, 2 | two closings that do not see each other, a date closed twice and one before another; also run without symmetry (281 thousand states) |
| `Boleto`, `Request`, `Size` as `Rule`, `Editor`, `Level` of `ApprovalRules` | 2, 2, {1, 2} | two changes of one rule beside its deletion, a form submitted twice; also run without symmetry (343 thousand states) |
| `Member`, `Tab`, `MaxChanges` | 1, 2, 2 | two pages replacing the branches of one user; also run with 3 changes (1.2 million states) |

For `Entries` no fairness is assumed and no liveness is claimed: the requests come from
users, who may stop, and nothing in the repository schedules the overdue job. `Transfers`
assumes weak fairness of what a request does once it began (`Proceed`): its process goes
on to the next statement, PostgreSQL grants a lock that is free, and ends a wait for one
that is not. A process that crashes loses its connection, which is `Abandon`. Nobody is
obliged to begin a request, and no symmetry is used where liveness is checked.

`Outbox` assumes that the loop of a worker polls again (it has no exit but shutdown) and that
PostgreSQL ends every transaction one way or the other; nothing is assumed of which.
`Jobs` assumes that BullMQ starts what waits, that a run of a listener ends well or badly,
and that a handler ends or its thirty seconds pass: `JobsSettle` needs no handler to
return. `ResultCache` assumes that a call that runs goes on, not that a lock expires: the
retries and the fallback alone answer everybody. `Access` assumes that cache entries expire
and requests end, and nothing of events and invalidations, all of which may be lost:
`RevocationTakesEffect` rests on the TTL alone. Tabs, forms and pages are under no
obligation.

Several properties name an excuse, which is where the code gives the promise up: a lock that
lapsed (`OneComputesUnlessLapsed`), a response that was not stored (`HandledTwiceOnlyIfExcused`),
moves or deletions that overlapped (`NoCycleUnlessRaced`, `ChargedForWhatIsAttached`), a
switch in another tab, a schema that was dropped, a list in another shape. Each excuse is set by the one step it
describes, and every property has a mutation of the code that breaks it within the excuse.

The five findings are disagreements between the code and what its comments and
documents say. Others met while modelling are recorded as hazards with a note:
an amount may be amended on a paid entry, also to 0.00 although the message of
`fin/entries/dto/update-entry.dto.ts:22` asks for a positive one; the audit row that
`fin/entries/entries.service.ts:323` calls compulsory is not atomic with the change for
update, delete, restore and cancel; an OVERDUE entry whose due date is moved forward
stays OVERDUE; the README keeps audit logs two years where `fin/jobs/cleanup.processor.ts:65`
keeps five. What else the modules had to be faithful to:

- Many client calls cannot succeed. Handlers with `@Idempotent` refuse requests without a key,
  and the hooks of updating an entry, approving, importing, matching and undoing,
  unlinking a user or a role, changing or deleting an approval rule and removing a lock period
  send none, nor does the registration of an upload.
  A form's memoised key answers a corrected submission with 409.
- A role can therefore not be changed on the page of users, which would delete all roles of the
  user before it adds the new one (`web/features/users/components/usuarios-view.tsx:110`).
- `/branches/my` is sent without `X-Branch-Id`, which BranchGuard demands of everybody but an
  ADMIN, so BranchProvider sends everybody else to the page for users without a branch.
- The notices of `entry.pending_approval` and the rows of `notifications` are never written: one
  SELECT names a column that does not exist, one ON CONFLICT an index that does not.
- Reports stay cached for five minutes whatever happens: the key that is invalidated names no
  period. The DRE counts drafts and cancelled entries, the balance sheet does not.
- AllExceptionsFilter drops the codes of HttpException bodies; the client throws `RATE_LIMIT`, its
  mapper knows `AUTH_RATE_LIMIT`; the throttler counts the proxy's address, one for all users.
- A deleted role still grants. A deleted branch still passes BranchGuard.
- An onboarding that fails drops the schema and keeps its statuses, so that its repetition skips
  the migrations and fails at the seed; a repetition for a live tenant may drop its schema.
- `parent_id` set to null is not walked; once a cycle exists, every walk into it is endless.
- The page of lock periods and the guard of entries and transfers use one query key for the
  answer and for its rows (`web/features/settings/components/lock-period-form.tsx:50`,
  `web/hooks/use-lock-periods.ts:12`). An entry opened within the cache's five minutes after that
  page throws in `checkLockPeriod`; the page opened within a minute after an entry shows no
  period at all. The guard also lets everything through while its list loads or has failed.
- No code reads the role an approval rule names; whoever may approve, approves.
- A second boleto may be generated while one is PENDING; `paid_at` is never reset.

## 5. Proofs

Every safety and action property of the passing runs is a theorem, as is every refinement.
TLAPS checks them for all sets of entries, payments, workers, users, series and dates, all
natural amounts and floors, under the assumptions named in the modules: for `Entries`,
amounts of creations and payments are positive, amended amounts are not negative, and null
values are not members of their sets; the others are named where they are used below.

*The invariant.* `Inv` is `TypeOK`, `IsFiniteSet(payments)` and `PaymentsBelong`: a
payment belongs to a row that exists. Finiteness is
needed because a sum is the cardinality of a set of cents (`Money`), which behaves like
a sum of finite sets only (`MoneyTheorems`). `RequestsFindRows` adds that a request
names a row that exists: without it the write of a stale request could invent one.

*One row at a time.* `EntriesProofs` proves that any step, seen from one row, is one of twelve
things: kept, created, amended, trashed, restored, cancelled, approved, rejected, paid,
refunded, marked overdue or past its due date (`NextSeenFromRow`). `EntrySafety` then proves each
property by following one row through these cases instead of through every action:

- `PaidAmountCorrect`: `paid_amount` is the sum, with amended amounts too.
- `NeverOverpaid`, `StatusIsTrue`, `LargeNeedApproval`: for `AmendedAmount = {}`, stated
  as an assumption of the theorem. The code does not give it: with amendments all three
  fail, see section 4.
- `CancellationIsFinal`, `DeletionFreezes`: action properties.
- `OneDecision`, through the stronger `NumberedByDecision`, which relates the status,
  the number and the decisions of a row and is inductive where `DecidedOnce` is not.

*Refinement.* `EntrySafety` proves that `Entries` implements `DocumentNumbers`
(`EntriesImplementNumbers`): a creation of numbered rows and an approval are an `Issue`,
everything else stutters. That an approval numbers only rows without a number comes
from `NumberedByDecision`. `EntriesNumberedInSequence` carries the theorem of the
contract over to the entries.

*Outbox.* `DeliveryProofs` holds for any finite set of events, any workers and batch size. Neither
the refinement nor `EmittedAgainAfterRollBack` is inductive: both need to know that the rows
of an open transaction are pending, were emitted, and are in no other transaction (`Owned`,
`Apart`), and how often a row was emitted given what became of it (`Counted`): never if
absent, at least once if processed or purged, at most once more than it was rolled back, and
not even that if pending and free. From this `OutboxDeliversAtLeastOnce` follows step by
step: an insert commits, a poll delivers what it emits for the first time or stutters,
marking and rolling back stutter, a cleanup forgets what was delivered.

*One component at a time.* `MCDelivery`, `MCPlatform` and `MCRecords` compose components that
share no variable. Each component has an invariant of its own, of which three facts are proved:
`Init` gives it, its steps keep it, it implies what the run checks. A step of another component
leaves its variables alone, and keeps it as well. The theorems are about the compositions, so
that they state the very properties the runs check. The only restriction a composition puts on a
component is that of `MCRecords` on `Categories`: behaviours end with the first raced move, after
which the property holds trivially; the proof does not use it. The initial values `MCRecords`
fixes for the components that do not run restrict none that does.

*Jobs.* `ThankedOnce`: for any number of entries, days and overlapping runs, an entry is thanked at
most once a day. `JobsInv` adds that a job that waits has an attempt left, which bounds the
attempts that the types count.

*Platform* (`PlatformProofs`; any number of users, roles, changes, callers, forms, tabs, flows and
pages; `MaxRetries` and `MaxVersion` are natural numbers, "none" is no flow):

- `GrantsFollowed`: the property is one about revocations and grants withheld; inductive is
  `FollowedFor`, by which an entry of the cache lies between what the profile shows and what the
  tables grant unless an invalidation is due, an event is on its way or one was missed.
- `OneComputes`: `CacheInv` says who of the callers under the lock has not lost it: at most one,
  and then the key is there.
- `HandledOnce`: `KeyInv` says of a key without an excuse that one request at most is at work for it,
  that nothing is stored meanwhile, and that what was handled is stored or about to be.
- `AuditReaches`: what a request has read or committed is no later than the entity's version.
- `LockedOut`: from the types and the steps alone. What it speaks of is the interval between the
  DELETE and the INSERT of a replacement, which one transaction hides from the others.
- `ReturnsToItsPage`: the cookies hold a page that belongs to the tab whose flow they name.

*Records* (`RecordsProofs`; any number of rows, requests, runs, files, tabs and users; sets that are
summed are finite, bounds are natural numbers, null values are not members of their sets):

- `MatchesAnnounced`: `OneMatch` says without counting that the matches announced of an item are
  equal, and are there exactly if the item is reconciled; it needs that an item about to be matched stays.
- `RowsTell`: inductive with what a request knows of the gateway (`Knows`): a POST that was answered
  names a boleto, a DELETE that was confirmed is of a boleto that is cancelled and stays so.
- `NoCycles`: "no cycle" is not reachability but the absence of a set of categories closed under
  taking parents, which needs no induction. Inductive with what a walk has seen: the categories
  read lead to the one it is at, and none of them is the one that moves (`Walked`), unless another
  write overtook it.
- `TenantsSound`: what an onboarding or a runner has applied but not recorded, and which schema a
  lookup saw, at every statement a crash can follow.
- `ClientSound`, five components in one property: a query is filed under another branch than it
  was asked for only across tabs (`SwitchInv`); a client that was told to wait is never refused
  within the block it waited for (`FailureInv`: no block outlasts a pause that begins now, and a call
  that was sent has outwaited the block its pause answered); ticks stay as the user set them, unless two replacements of one user overlapped
  (`UsersInv`: what a page knows agrees with the links or it is late, what it sends is what it
  ticked, and a replacement deletes all the links there are unless another overlaps); what was closed is shown,
  and periods overlap only if a closing was overtaken (`PeriodsInv`: what each check saw);
  a confirmed change of a rule stays, and a form makes one rule (`RulesInv`).
- `Charged`: the bytes are counted like the cents of `Money`; a deletion under way found its
  attachment undeleted, so two of one attachment make the difference.
- `OccurrencesOnce`: no row is locked by two runs, so what a run read of its rows is still so.
- `DeedsShown`: what a fetch in flight has read, and what a roll-back would bring back, show the
  deeds too, unless a change settled since.
- `OneStory`: for any ledger, and any finite set of limits of the aging's ranges (15, 30 and 60 in
  the code). `LedgerInv` makes `paid_amount` the sum of the payments. The DRE and the balance sheet
  differ by drafts because sums of disjoint sets add up (`SumAmountUnion`); the ranges add up to the
  open receivables because the sums of any finite number of groups do: `SumAmountPartition`, proved
  without induction by a bijection between the cents. `RequestInv` follows a cash flow through its
  three statements: its opening with the payments there are now is what the books said at some
  moment, unless both changed.

*Transfers.* `TransfersProofs` holds for all sets of accounts, transfers and requests
(finitely many, at least one) and all bounds of amounts and initial balances. Its
invariant `Inv` adds `LockKeepsCheck` to the types: from the grant of the row lock to
the commit, the account is active and its `initial_balance` plus the flow of the
snapshot covers the amount. That makes `DeletedAccountsSendNothing` hold, and leaves
only a stale flow as the cause of an overdraft (`OnlyStaleFlowsOverdraw`).
`ExposureIsBounded` says how bad it can get: an account never sends more than the
largest `initial_balance` and all it received, plus `MaxAmount` for each request but
one. This bound is not inductive, as it does not see the transfers in flight coming;
`ClaimsCovered` counts them: the amounts of the requests that hold a snapshot and may
still commit are already within it. A new snapshot (`SnapshotCovered`) brings a claim
that the headroom covers and finds at most one claim for each other request; a commit
(`CommitCovered`) takes the same amount off both sides; no other step adds a claim or
lowers the headroom.

## 6. What is only model-checked

The violations, which are about single executions, and the liveness properties
(`TransfersEnd`, `HeadIsEmitted`, `JobsSettle`, `CallsAnswered`, `RevocationTakesEffect`):
liveness under fairness, and the ENABLED it rests on, are out of the prover's reach. Everything
else the runs check is proved as well. The bounds of the runs that only keep TLC finite
(`MaxEmissions`, `MaxStarts`, `MaxVersion`, `MaxChanges`, `MaxTime`, `LastDay` and so on) are constants
of the theorems, which hold for each of their values.

## 7. What is not modelled

- *Collection rules, the collection job*: their statements name the columns `event` and
  `days_offset`, the table has `trigger_event` and `offset_days`; every one of them fails.
  Only the rule ON_PAYMENT is read through the right name, by the thanks of `Jobs`.
- *Cleanup, due-soon and sequence jobs*: deletions in a fixed order that nothing enqueues; a job that
  reads a schema no code creates and swallows the error; the first row of each
  series of a year, which the first number drawn inserts as well.
- *The connection pool*: waits end with its timeout and an error, which the models allow at
  every step (`Abandon`, `Crash`).
- *Exports, the forecast rows of the cash flow, formatting, PDF and XLSX*.
- *Entries against rules that change*: rules are read once at creation, and such a property
  would compare an entry with rules that no longer exist.
- *Contacts, settings, names and addresses*: rows nothing else decides by.
- *Pages that show one query or send one request*; the matching rules of the reconciliation
  page, which nothing calls; the change of a role, which the API refuses (section 4).
- *Observability and deployment files*: no state that behaviour depends on.
- *The query library, the payment gateway, the object store and the authorization server* are
  external: modelled from how the code uses them, inside the modules that meet them.
