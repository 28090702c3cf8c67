# Event organizer: specification and verification

TLA+ models of a system that runs the events and the money of a neighbourhood: groups (RT), each
below a parent group (RW), with a NestJS backend over Prisma and PostgreSQL
(`src/backend`), a React client (`src/frontend`) and the payment gateway Midtrans beside them.
TLC checks the models on small instances; TLAPS proves some of their properties for every
instance.

Paths below are relative to `src/backend/src` unless they start with `prisma/` (below
`src/backend`) or `frontend/` (below `src`).

1. [Inventory](#1-inventory) - 2. [Modules](#2-modules) - 3. [Checks](#3-checks) -
4. [Where code and text disagree](#4-where-code-and-text-disagree) - 5. [Proofs](#5-proofs) -
6. [Not modelled](#6-not-modelled) - 7. [Plan](#7-plan)

## 1. Inventory

| Component | Code | State | Operations |
|---|---|---|---|
| Event lifecycle | `modules/events/services/events.service.ts`, `event-approval.service.ts`, `events.repository.ts` | `Event`, `EventApproval`, `EventExpense`, `EventStatusHistory` | create, update, delete, submit, approve/reject a step, cancel, report expenses, extend, complete (by any reader after `endDate`), settle |
| Additional funds | `events.service.ts:512-687` | `FundRequest`, `Event.budgetEstimated` | ask the parent group for more, review (grant, adjust, refuse) |
| Fund requests | `modules/events/services/fund-requests.service.ts` | `FundRequest`, event status | create (with or without an event), approve, reject (cancel the event or continue) |
| Auto-cancellation | `events-scheduler.service.ts`, `events.service.ts:693-787` | event status | hourly: cancel and refund what ended without becoming ONGOING |
| Wallets | `modules/finance/services/finance.service.ts`, `repositories/finance.repository.ts` | `Wallet.balance`, `Transaction` | disburse, refund, transfer, manual transaction |
| Dues | `modules/finance/services/dues.service.ts`, `dues.repository.ts` | `DuesRule`, `Contribution`, `User.lastPaidPeriod` | set a rate, compute a bill, distribute a payment over months and two wallets, recap who has paid |
| Payments | `modules/payment/payment.service.ts` | `PaymentGatewayTx` | create an order, notification, polling, cancellation |
| Payment page | `frontend/src/features/payment/pages/ResidentPaymentPage.tsx` | what it last fetched, the open popup | pay, poll, synchronise |
| Reports | `modules/finance/services/report.service.ts` | - | read wallets and rows, print them page by page |
| Organisation | `modules/community/services/*.ts` | `User`, `Role`, `CommunityGroup`, `ApprovalRule` | create, update, move, (de)activate users; create, change, remove groups; repair approval rules |
| Authentication, guards | `modules/auth`, `common/guards` | the cookie; the account as the database has it | login, logout, `@Roles`, and what services refuse because of the requester's group |
| Client session | `frontend/src/app`, `frontend/src/shared`, `frontend/src/layouts` | local storage, the address, the mounted page | routes and their guards, menu, links, badges, 401 |
| Event pages | `frontend/src/features/event`, `.../dashboard` | - | buttons, dialogs, work lists, final report |
| Settings, storage, mail, HTTP pipeline | `modules/settings`, `providers`, `common`, `main.ts` | role labels | one upsert, I/O, validation, the 15 s timeout that answers 408 while the handler goes on |

**How they interact.** A controller calls one service method; the method runs as a chain of
`await`s on one Node.js event loop, so any other handler may run between two of them. Services
share the database and call each other directly: `EventsService` -> `EventApprovalService`,
`EventsRepository`, `FinanceService`; `FundRequestsService` -> `FinanceService`;
`PaymentService` -> `DuesService`. The job runs on a timer in the same process. The gateway
calls `handleNotification` and is asked by `createDuesPayment` and `syncPaymentFromMidtrans`.
The client knows the role and the group it stored at the login; the backend reads them from the
database at every request.

**What is hard.**

* *Check, then act.* Almost every handler reads a row, checks status or balance, and writes by
  id much later. Nothing re-checks (no version column, no conditional update, READ COMMITTED).
* *Nested transactions that are not nested.* `FinanceService` opens its own transaction even
  inside `processApproval`'s or `approveExtraFunds`'s, so the payment commits on its own.
* *Several commits per operation.* Submitting is up to four commits, an expense report of n items
  up to 2n+3, a cancellation two. The process, the connection or the 5 s interactive transaction
  may end between any two.
* *Row locks.* An interactive transaction keeps the lock on an approval, fund-request or event
  row while it waits for another connection; a deletion keeps that of the event while its cascade waits
  for the rows that refer to it. The two can wait for each other.
* *Two ways to grant additional funds* which disagree on whether `budgetEstimated` is raised, and
  three ways to cancel which disagree on what is refunded.
* *Three writers of a payment order*: the gateway's notifications (repeated, late, out of order),
  the client's polling, and the next payment of the same resident, which writes on what it read
  before it asked the gateway. Only the unique link of a month's row to an order is in their way.
* *One fact computed four times*: which months a resident has paid, by the bill, by the recap of
  the RW, by the table of the RT and by the resident's own grid, over year ends and first payments.
* *Two programs that decide the same thing*: which buttons, pages and rows a role may use is
  written down once in the client and once, endpoint by endpoint, in the backend.
* *An organisation that changes* while events wait for one of its users and while two officers
  count its treasurers.

**What makes each component correct.** Lifecycle: no payment without the approvals the
budget calls for; money out of the wallets always explained by the status; an event can always
be decided, cancelled or settled by someone; history tells what happened. Funds: no request is
granted without its money, and the budget says what was granted.
Job: what has expired is closed and its money returned, once. Wallets: an overdraft is never more than
what was in flight. Dues and payments: what was charged arrives, once and in full; a
month is paid once, and every month billed is given. Pages: they tell the truth, offer nothing
that is refused but for named reasons, and leave no event without somebody who is offered its next step. Reports: a
balance is explained by the rows beside it; tables are printed whole. Organisation: one active
treasurer per group, every pending step has an approver that exists, every group its rules.
Session: one that is over ends in the client too.

## 2. Modules

| Module | Models |
|---|---|
| `Organization` | groups, users, roles and `checkGroupAccess`, as constants: what the events and finance modules read of them |
| `Ledger` | wallets and the log: `CreditForEvent`, `DebitForEvent`, `TransferBetween`, `CreditShares`, each one database transaction |
| `EventLifecycle` (EXTENDS `Ledger`) | the handlers of `EventsService` and `EventApprovalService`, as processes in slots |
| `EventFunding` (EXTENDS `EventLifecycle`) | additional funds, fund requests and the job, composed with the lifecycle handlers |
| `EventFlow` | abstract: phases of an event and the money that belongs to each, one step per request |
| `EventRefinement` (EXTENDS `EventFunding`) | the mapping of handlers and job to `EventFlow` |
| `EventPages` (EXTENDS `EventRefinement`) | which buttons the page of an event offers, what their dialogs let through, work lists and final report |
| `Dues` (EXTENDS `Ledger`) | rates, bills and the distribution of a payment |
| `DuesProgress` (EXTENDS `Dues`) | the recaps of server and client, the resident's status and grid of months |
| `Payments` (EXTENDS `Dues`) | orders between the database and the gateway, with their three writers |
| `PaymentOrder` | abstract: a price is fixed, charged, and arrives once and in full |
| `PaymentRefinement` | the mapping from `Payments` to `PaymentOrder` |
| `PaymentPage` (EXTENDS `Payments`, `DuesProgress`) | the resident's page in front of them: popup, polling, the button that synchronises |
| `Treasury` (EXTENDS `Ledger`) | the rows behind the sums: manual bookings, event payments, refunds and transfers, and the report that reads and prints them |
| `Community` | users and groups that come and go under overlapping requests, approval rules, the treasurer an event is pinned to |
| `Access` | whom the backend lets see and do what: rows of its lists, `@Roles`, group checks |
| `Screens` (EXTENDS `Access`) | routes, what each page asks for and for which rows, its buttons and links |
| `Session` (EXTENDS `Screens`) | one tab: login, redirects, requests in flight, 401, the cookie's end, an account that is moved |
| `EventLifecycleProofs`, `EventSerialProofs`, `EventFundingProofs`, `CommunityProofs`, `PaymentsProofs`, `TreasuryProofs`, `AccessProofs` | theorems about the module they are named after; `EventSerialProofs` is about `EventLifecycle` with one handler to an event, `EventFundingProofs` also about `EventPages`, and `AccessProofs` about `Screens` and `Session` too |
| `SumProofs` | lemmas about the sums of the community modules, which three of them use |
| `MC...` | the instances: one RT below one RW and their officers; for the payment page and the session a second RT |

### Events: state

| Variable | Code |
|---|---|
| `event[e]` | the `Event` row: status, creator (the group is the creator's, as `createEvent` sets it), budget, actual; `ended` stands for "`endDate` is set and has passed". `ABSENT` and `DELETED` are ids without a row |
| `approvals[e]` | the `EventApproval` rows, identified by (step, approver) as the unique index does |
| `expenses[e]` | sum of the verified `EventExpense` rows |
| `trail[e]` | the newest `EventStatusHistory` row |
| `balance` | `Wallet.balance` |
| `paidOut[e]` | sum of the rows that were written with `eventId = e` (a deletion sets the column to null; the model keeps the tag) |
| `req[s]` | a handler in flight: operation, program counter (`pc`), and the local variables it took from what it read |
| `fund`, `fundOf` | the `FundRequest` rows, and which one a handler works on |
| `job` | the job's list (the result of its one query), the event it is at and what it still refunds |
| `aborts` | how many handlers died (bounded) |

### Events: actions

One action per `await` on the database that matters to another handler:

* `Begin...` is the handler's first read with all checks made on it. What fails a check changes
  nothing and is not an action.
* A write by id is an action of its own and does not repeat the check, as the code does not.
  If the row is gone by then the handler throws (`FailOnDeleted`).
* `updateEventStatus` is `ReadForHistory` (`findById`, outside the transaction) and `WriteStatus`.
* Submitting: `ReadWorkflow`, `ClearApprovals`, `InsertApproval` per step, then the status.
* The last approval: `Decide` opens the transaction and takes the row lock, `CheckFunds` and
  `Disburse` are `disburseEventFund` with its own transaction, `CommitFunded` is the outer
  commit. Other handlers do not see the approval before it.
* `May...` is what a handler checks before it writes, `Begin...` is the check and what follows up
  to the first await. A request whose `May...` does not hold is refused and changes nothing.
* The approval's decision (`target`) is fixed in `BeginApprove`, since the code
  decides on the snapshot read before the transaction.
* `Abort` ends a handler anywhere: process restart, lost connection, transaction timeout.
* Locks: a handler that updates an approval row, a fund request or an event row which another
  transaction has updated waits (`RowLocked`, `ApprovalRowsFree`, `FundRowFree`, `EventRowFree`,
  `Composed`). Foreign-key checks take `KEY SHARE` locks, which status updates do not block.
* Deleting an event is two steps: `LockEvent` is the row lock of `event.delete`
  (`events.repository.ts:194`), `WriteDelete` the cascade to its approvals and requests, which waits for those
  another transaction holds. In between, whoever writes the event or inserts a row that refers to it
  waits (`NoDeletion`), a log row of a payment too (`prisma/schema.prisma:127`). An approval or a decision on a
  request that holds such a row and needs the event's is a circle: where both waits are in
  PostgreSQL it fails one of the two (`Deadlock`, `FundDeadlock`), and where the transaction waits for a payment
  on another connection Prisma's timeout ends it (`TimesOut`, `FundTimesOut`).

Abstractions: the list of expense items is any decomposition into amounts, an insert and its
verification are one step (no other handler reads unverified rows); reading pages completes
events one by one (`BeginView`, for both `getEventDetails` and `findAllEvents`); `<` and `<=` on
`endDate` are merged; the job takes the expired events in any order; wallets always exist
(creating a group creates one); images, titles, reasons and notifications are left out.
The schema (`prisma/schema.prisma`) is taken for cascades, not the older SQL migrations.

`EventPages` has no state of its own. A page shows what it has just loaded; `Offers` is the
permission matrix of `EventDetailPage.tsx`, `Accepted` says that the checks the handler
begins with (`May...`) hold, for every input the dialog lets through, and those on its way: an approver
for each step of a submission, a wallet that covers what the last approval or the review pays.

### Dues and payments

A month is a number (year * 12 + month), so the carry into the next year is an addition.
`order` is the `PaymentGatewayTx` table, `gateway` what Midtrans holds of each order, `call` the
handlers in flight, cut at their awaits: `Pay` and `Sync` read, `AskPending` and `AskStatus` ask
the gateway, `MarkOld` writes by id, `BillOrder` computes the bill and inserts, `RequestToken`
saves the token, `Update` is the Serializable transaction of a poll and `Notification` that of a
delivery. The gateway may say again what it said before: `Notified` is the set of what a
notification may hold now. `Die` ends a handler at any await (a restart, or a gateway that does
not answer). `contributions` keeps the unique link to an order, since it is what rolls a second
distribution back (`LinkIsFree`). A notification's signature is taken to be valid.
Amounts are whole numbers of the smallest unit a `Decimal(15, 2)` holds, `Rupiah` of which make a rupiah; a bill is
rounded to rupiahs (`Rounded`, `payment.service.ts:432`), as the gateway wants it. Rates below half a
rupiah, which would be billed as nothing, are left out, and a rate of 0 is no rule: the recap
(`finance.service.ts:761`) asks for the row itself, and would show the months of an RT whose rule says 0.

`PaymentPage` puts a page in front: `shown` is what it last fetched, `snap` the open popup,
`congratulated` the orders a success popup was shown for. Its poll is one step, because what may
come between the poll's reads is in `Payments`. `DuesProgress` is operators: the recap per RT and
month the server computes, the tables the client computes, the resident's dashboard card and grid.
`YearLength` is 12 in the code; a year of two months in the instance makes its end come soon, and
`Accepted` then allows a year's worth of months, as the code's 12 does.

### Treasury

`log` holds rows with their day. A handler compares with the balance, then books in one transaction
(`Book`): `Manual` by an officer of the group, `PayEvent` on the last approval of an event (by its treasurer, the parent's
treasurer where it has none, or the parent's leader), `RefundEvent`, `Transfer` and `TransferToEvent` by the parent's
treasurer. Nobody waits for an answer. Which event a payment is for is in `EventLifecycle`. A
report is a read of the wallet of the requester's own group, one of the related ones (in either
order, as Prisma's include does), and then one of the rows. The operators of `drawTransactionTable` compute the page
and place of every row from the heights measured; the table of the summary is drawn by the same
rules with other measures (`TransactionTable`, `SummaryTable`). A row has a second height, `name`, what the
officer's or the group's name needs when it wraps in its column, which the code does not measure.

### Organisation, access and session

`Community` cuts `UsersService` and `GroupsService` at their awaits. `raced` is a history
variable: the groups about which two requests overlapped. `SubmitEvent`, `PinApprover` and
`Decide` are the part of an event's life that reads users. The other modules
take the organisation as constants.

A requester in `Access` is a record of id, role and home group, as `JwtStrategy` reads them. The
lists are sets of rows; a row keeps only its group and its owner, which is all that access
depends on. `Screens` gives, for every path of `App.tsx`, the roles let in, the requests sent on
loading, those behind its buttons and the links, each with the row it is about. `Session` is the
tab: `path`, `shown` (the guard has let it through), `user` (local storage), `cookie`, `sent`
(batches in flight) and `seat` (role and group in the database), which may change at any moment.

## 3. Checks

| Run | Instance | Question and properties |
|---|---|---|
| `LifecycleCrash` | 1 event, 1 handler, 2 deaths, all lifecycle operations | What survives a handler that dies between two commits? `TypeOK`, `FundedIsApproved`, `SubmittedHasReviewer`, `HistoryIsContinuous`, `DecisionsAreKept` |
| `LifecycleDesks` | 2 events, 2 handlers; administrator, treasurer and resident wait for their answers; no cancellation | Do the status guards keep the desks apart? `MoneyFollowsStatus`, `RefundsWithinPayments`, `ReportSettlesMoney` |
| `LifecycleConcurrent` | 1 event, 2 handlers, anybody, 1 death | What holds under every interleaving, and does every call end, with deadlocks and transaction timeouts? `DeletedIsFinal`, `CallsEnd` |
| `FundingReview` | 2 events, 2 requests, one handler, all lifecycle operations, reviews, job in between | Do budgets and grants add up, can every review be answered, what do the pages offer that is refused, and does it all implement the abstract flow? `BudgetIsCovered`, `UnderReviewIsAnswerable`, `CancelledReturnsMoney`, `OffersAreAccepted`, `EveryEventIsOffered`, `FinalReportIsTrue`, `ImplementsFlow` |
| `FundingGrants` | 2 requests with or without event, 1 event that may be deleted, 2 handlers, also of one user, 1 death | Is any request granted without its money? `ApprovedIsPaid` |
| `FundingOverlap` | 1 event, 1 request, all fund operations, the job at the same time, 1 death | Does the job close what has expired? `ExpiredIsClosed` |
| `PaymentsDues` | 2 orders of a resident, for dues or not, 2 handlers that may die, rates with fractions of a rupiah, one of which may fall | Does what was charged arrive once and in full, and is every month paid for given once? `PaymentsTypeOK`, `PaidIsCredited`, `CreditedOnce`, `EveryMonthOnce`, `MonthsArePaidFor`, `MonthsAreGiven`, `ImplementsOrder` |
| `PaymentPage` | the page of one resident, another beside it, a second RT without residents or rate, a turn of the year | Does the page tell the truth, does polling alone find a payment out, do four computations agree on who has paid? `PopupIsTrue`, `PageFollowsOrder`, `RecapMatchesBills` |
| `Community` | 2 overlapping requests at a time, 4 in all, a treasurer and a group to come | What of the organisation survives overlapping requests? `CommunityTypeOK`, `OneTreasurer`, `ApproverExists`, `FixRepairsAll` |
| `Treasury` | 2 handlers, 3 rows, 2 days, three officers, tables at every height on the page that matters | How far can a wallet be overdrawn, does a report explain its balances, are tables printed whole? `OverdraftIsBounded`, `BalancesAreExplained`, `TablesAreWhole` |
| `Session` | one account of any role in an RW or one of its two RTs, moved at any time | Do client and backend agree on who may do and see what, row by row, and does an ended session end in the client? `NothingIsRefused`, `SessionEnds` |
| `CreditedTwice` | 2 orders, 1 handler, a rate that rises | expected violation of `CreditedOnce`, see section 4 |

Each property is stated and explained where it is defined. They are invariants but for
`HistoryIsContinuous`, `DecisionsAreKept`, `DeletedIsFinal`, `FixRepairsAll` (what a step may not
do), `CallsEnd`, `ExpiredIsClosed`, `PageFollowsOrder`, `SessionEnds` (what must happen) and the
two refinements, of which `ImplementsOrder` includes that what is charged arrives.
`FundingTypeOK`, `TreasuryTypeOK` and `PageTypeOK` document the types of modules whose runs list
no type invariant.

**Bounds of the event runs.** Wallets open with RT 30 and RW 15; threshold 10 (20 in
`LifecycleDesks`, which has no leader); tolerance 1; budgets 10 and 20 (at and above the
threshold; only 20 in `LifecycleConcurrent` and `FundingOverlap`, only 10 in `FundingGrants`). RT can pay one budget of 20
and not two, RW can pay 10 and not 20, so every guard on amounts is both met and missed. `FundingGrants`
asks for 5 and 10, so that the RW's 15 cover both requests once and not twice.
`MaxAborts`, `MaxBalance` (40: no refund is started into a richer wallet, which ends the
cancel-and-refund cycles), `MaxExpenses` (20), the ids in `Event` and `FundRequest` (a deleted id
is not used again). Two events and two handlers are enough for every pairwise race: a handler
touches one event, and two of them meet in an event or a wallet.

**Bounds of the payment runs.** Two orders are what a race needs: an old one and the one that
replaces it. A rupiah of 4 units and rates RT 3 and RW 2, of which RT's may fall to 2, so that a bill of two months is
rounded up from 10 to 12 or exact; other orders are of 9, which leaves a remainder. (`PaymentPage` and
`CreditedTwice` count in whole rupiahs.) Rates that rise are what `CreditedTwice` shows. `LastMonth` ends time;
in `PaymentPage` the months 1 to 3 with `YearLength` 2 hold the end of a year, a resident who
joined before and one who joined on it, and arrears over the turn. The page of the model orders
any number of months in `MonthCount`; that the grid offers the right numbers is in
`RecapMatchesBills`.

**Bounds of the others.** `Community`: the four requests of `MaxRequests` are enough to make a second treasurer
with two that overlap and to move or remove somebody in between. `Treasury`: amounts of 1,
wallets of 1 and 2, two handlers in flight: enough for two debits to meet. A page of height 13,
rows of 3 or 6, a heading of 3 and a total of 4, a row whose name needs more than its height: a page holds at most three short rows or one of
each, so that each way a row or the total can miss the page's end occurs. The log and time are bounded, and the system
of the run may come to rest there. `Session`: one tab,
one account, one RW, one batch of requests unanswered when the user goes on (`MaxInFlight`); a
login finds the answers of the session before it still under way. Row-less pages may be opened by
typing, pages of a row by their links or a reload; the browser's back button is not modelled.
Requests sent after the account was moved are not looked at, since then the two sides are
*expected* to differ, and what links a page holds is taken at the time of the click.

**Why `OnePerUser`.** In `LifecycleDesks` a user waits for an answer before
the next call: the dialogs in `frontend/src/features/event/components` disable their buttons
while a call is out. It is not enforced by the backend, and the 15 s timeout of
`common/interceptors/timeout.interceptor.ts` answers before the handler has ended, so
`LifecycleConcurrent` and `FundingGrants` do without it, and `Treasury` has no such notion. The runs with a
single handler (`LifecycleCrash`, `FundingReview`) say nothing of overlaps; which of them break what
is in section 4, and the theorems of section 5 name the overlaps that have to be excluded.

**Fairness.**

| Assumed | Because |
|---|---|
| Strong fairness of each handler of an event (`FairSpec` of `EventLifecycle`, `FundingFairSpec`) | the event loop resumes every promise, and PostgreSQL queues those who wait for a row lock, so one that can have the lock again and again gets it |
| Weak fairness of the job | `@Cron(EVERY_HOUR)` starts it whatever else happens, and it catches the error of each event |
| Weak fairness of a settled order's notification (`Payments`) | the gateway repeats it until it is answered with 200; handlers have none, since all of them may die |
| Weak fairness of the page's poll, none of notifications (`PaymentPage`) | `setInterval` every five seconds; on localhost no notification arrives |
| Weak fairness of redirects and of the badge's poll, strong fairness of answers (`Session`) | the router and a timer of two minutes in a visible tab; the server answers, and a user who opens other pages throws only the batches of the page away |

Clients, the clock and the gateway's users have none.

## 4. Where code and text disagree

`CreditedTwice` is expected to end in a violation: `syncPaymentFromMidtrans` looks for PAID
before its transaction (`modules/payment/payment.service.ts:522`) and not inside it, so after a notification
it distributes the order a second time. The comment at `:314` calls the check that the
notification has "Idempotency Check (Pencegahan Double Process)". Only the unique link of the
first month's row stops the second distribution, and an order below the new monthly rate has no
such row.

The runs that pass are restricted so that what follows does not happen; each appears when the
restriction is lifted, by changing a constant or a conjunct.

*Events and funds*

* Two last approvals of one group's events check the same balance (`finance.service.ts:90`), then both
  pay: the wallet is overdrawn. So do manual debits (`:41`) and transfers (`:139`, `:180`), of one
  officer or several; `OverdraftIsBounded` says how far.
* `MoneyFollowsStatus` fails with a death: `disburseEventFund` has committed, the transaction that
  sets FUNDED dies (`event-approval.service.ts:242`): paid, still SUBMITTED, and payable again. It needs no
  restart: a deletion begun while the event was a draft locks its row, and an approval that has paid and now
  needs that row is failed by PostgreSQL as a deadlock. The event goes, the money stays out.
* `RefundsWithinPayments` fails with `cancel`: the report returns the rest, and cancelling the
  ONGOING event returns the whole budget on top (`events.service.ts:265`).
* `CancelledReturnsMoney` leaves the event under review out: UNDER_REVIEW is reached only from FUNDED, yet
  the job (`events.service.ts:743`) and `cancelEvent` take it for an event without money.
* It also fails with `approvefund` and without `askfund`: `approveExtraFunds` pays out without
  raising `budgetEstimated`, so the "initial money" the job computes is short by the grant
  (`events.service.ts:753`).
* A granted review moves the grant to the wallet of the RT and leaves it there (`events.service.ts:616`), and raises
  the budget. `cancelEvent` refunds the raised budget to the RT, the job the initial money to the RT and
  the grant to the RW: either adds up to what left the two wallets for the event, which is what
  `CancelledReturnsMoney` says, but the RT keeps the grant as well. Where the money comes to is not part of the
  property.
* An ONGOING event's cancellation returns the whole budget, after a report has returned the rest; and the job
  returns too much where more was asked for than the budget, since its initial money is then negative and not
  taken back (`events.service.ts:753-757`). `CancelledReturnsMoney` asks for no more than "at least" there.
* `FundedIsApproved` fails with `rejectfund`: a request made for a draft and rejected with
  CONTINUE_WITH_ORIGINAL makes the draft FUNDED (`fund-requests.service.ts:247`). It also fails
  with two handlers, `update` and `OnePerUser = FALSE`: an update allowed in DRAFT lands after
  `submit` laid out one step (`events.service.ts:185`), so the leader is bypassed.
* `ReportSettlesMoney` fails with two handlers and `OnePerUser = FALSE`: two reports pass the
  FUNDED check and both are booked (`events.service.ts:299`).
* `HistoryIsContinuous` fails with two handlers: the previous status is read outside the
  transaction (`events.repository.ts:146`).
* A request can be paid twice: two approvals pass the PENDING check (`fund-requests.service.ts:112`), each
  transfers, each marks it. An approval that dies or runs into a deadlock after its transfer leaves the request
  pending, and payable again. `ApprovedIsPaid` therefore is an inequality.
* Two reviews that overlap transfer a grant twice and raise the budget once
  (`events.service.ts:634`); two requests that overlap leave two pending ones (`:544`).
* `OffersAreAccepted` names three buttons that are refused. The page does not show the wallet that pays, so the
  last approval and the review may fail for want of money (`finance.service.ts:90`, `:139`). It offers the
  submission of a draft for which there is no treasurer or no leader
  (`event-approval.service.ts:71`, `:99`). And the request for more at exactly the threshold:
  `EventDetailPage.tsx:279` says "> 1M" and tests `>=`, the backend `>`. An administrator of a group
  without a parent is offered the request too and refused (`events.service.ts:537`), and no role is
  tied to a level of groups; the instances and the theorem have administrators below an RW only.
* The list of events comes without fund requests, so the treasurer's dashboard never shows an event
  under review (`TreasurerDashboard.tsx:128-134`), and the events page lists one only under
  "semua". The leader's dashboard lists every submitted event, also those that wait for others.
* An RT without a treasurer (its events are approved by the RW's) has nobody to report expenses.
* `MODULE.md:222-227` draws an APPROVED status which no code sets; `approvalRules` are kept,
  repaired and never read.

*Dues and payments*

* A bill is rounded to rupiahs (`payment.service.ts:432`) and the months are what it pays at the exact rate,
  rounded down (`dues.service.ts:222`): at a rate of 10000.40 a month is billed 10000 and none is given.
  `MonthsAreGiven` holds while no bill is rounded down and no rate rises.
* An order below a month's rate gives no month and leaves no row whose link would stop a second distribution;
  besides a rate that rises, `createTransaction`, which takes any amount from 1 on
  (`create-transaction.dto.ts:5`), can make one. `PaidIsCredited`, `CreditedOnce` and `ImplementsOrder` are about
  the others.
* A PAID order is overwritten by `createDuesPayment`'s CANCELLED or a stale poll's PENDING
  (`payment.service.ts:407`); the notifications that follow then roll back on the unique link,
  so the order does not show what `README.md:61` promises, automatic synchronisation by
  webhooks. The money is in the wallets, which is what
  the properties look at.
* A first-time payer is billed from the month of the account (`dues.service.ts:122`) and recorded
  from the current month (`:289-291`).
* Two payments started at once leave two pending orders (`payment.service.ts:364`); the page polls
  the newest, and may go on showing PENDING for an order a notification has booked meanwhile.
* Who is more than twelve months behind cannot pay: the page offers the arrears or more
  (`ResidentPaymentPage.tsx:276-318`), `pay-dues.dto.ts:13-14` takes at most 12.
* The grid calls months before the account existed "lunas", and knows the bill's year only.
* The years one can choose are always the fallback ones, since neither progress endpoint returns
  `group.createdAt` (`finance.service.ts:640`, `PaymentPage.tsx:112`).
* An RT without residents or without rate counts as "Lunas" in the cards while its row says "Belum
  Diatur". The group's progress page shows rows where there is no rate, the payment page hides them.

*Treasury and reports*

* The height of a row is measured from its description (`report.service.ts:884-887`), while the name of who
  recorded it wraps in a column of 18% of the page (`:971`), as does the group's in the summary's fixed rows
  (`:462`): a name that needs more is drawn into the next row or past the page. `TablesAreWhole` is about
  tables without such names (`NamesFit`).
* "Saldo Akhir" is the balance at the time of the download, whatever the period; the last day of a
  chosen range ends at its midnight (`DownloadReportDialog.tsx:102`); a table's heading may stand
  alone at the end of a page; a transfer read between the wallets counts twice or not at all in
  the summary's total.

*Access and session*

* `NothingIsRefused` names its exceptions in `InVain` and `Bounces`: residents are offered a new event
  (`EventsPage.tsx:154`, `events.controller.ts:48`), leaders the decision on a fund request
  (`FinancePage.tsx:838`, `fund-requests.controller.ts:64` and `:77`; the detail page offers it to
  treasurers), officers of the RW to ask for funds (`fund-requests.service.ts:32`), an
  administrator seated in the RW, which the dialogs allow, the progress of its RTs
  (`finance.controller.ts:150`); the administrator's dashboard links to the leader's pages by
  default (`AdminDashboard.tsx:212`).
* An officer of an RT may open a sibling RT's finance page and none of the transactions
  it lists (`finance.service.ts:378` and `:506-512`; theorem `NeighboursRowsStayShut`).
* With several RWs, `countByGroup` refuses a leader the RTs of the others that `groups.findAll`
  lists (`users.service.ts:391`; theorem `OtherRtsStayUncounted`). The instance has one RW, which is
  what the comment at `groups.service.ts:26` assumes; nothing keeps a leader from creating a second.
* Requests chained behind an earlier one, answered 401 after a logout, can throw out the login
  that came after. The badge counts of one account are shown to the next within a minute
  (`useBadgeNotifications.ts:28-30`, against its comment at `:6-9`), and the promises that
  deduplicate `getMyBill` and `getHistory` outlive a login. A role given while
  somebody is logged in reaches local storage at the next login. A CUSTOM role is redirected in
  circles. A second tab goes on showing its page after a logout in the first.
* Of the pages, only wording: `PaymentPage.handleBack` reads a field that is not there and sends
  treasurers to a leader's route; the routes `detail-progres` and `kegiatan-warga` are linked from
  nowhere; expanding a sibling RT shows "0 warga"; the transactions' filter compares with the gateway's
  words while the status is PAID (`FinancePage.tsx:270`); `EditEventDialog.tsx:67` drops the
  decimal separator, `AdditionalFundRequestDialog` lets amounts below 1 through, titles over 100
  characters are refused only by the backend. Texts and decimals are not modelled.

## 5. Proofs

`EventLifecycleProofs` proves, for every organisation, budget, number of events, of concurrent
handlers and of deaths:

| Theorem | Statement |
|---|---|
| `TypeCorrect` | `Spec => []TypeOK` |
| `DeletedForGood` | `Spec => DeletedIsFinal` |
| `NoOverdraftIfPaymentsApart` | if no wallet starts in debt, `Spec /\ []PaymentsApart => []NoOverdraft`, where `PaymentsApart` says that no two approvals are between balance check and payment |
| `HistoryIfHoldersApart` | `Spec /\ []HoldersApart => HistoryIsContinuous`, where `HoldersApart` says that no two handlers of one event are between reading its status and writing the next |

**Inductive invariant.** `IInv == HandlersInv /\ LedgerTypeOK /\ RowsInv`. `TypeOK` alone is not
inductive: the wallet of a payment is that of the event's creator, so a handler in flight must
work on a row that exists or existed (`InFlight`) and such a row has an owner (`Owned`).
`DeletedForGood` needs `DeletedIsBare`. For the overdraft `PayInv` adds that
whoever has passed the balance check is still covered (`PaymentsCovered`) and that refunds are
not negative (`RefundsGive`). Together with section 4 this says that the
overlap of two payments is the *only* way to a negative wallet through the lifecycle handlers.
`HistoryInv` adds `HeldIsTrue`: what a handler has read and is going to name in the history is still the status,
unless the event has been deleted. Deaths, deletions, edits and other handlers' steps leave it so; only another holder's write does not.

`EventSerialProofs` proves what needs the handlers of *one event* to take turns. `OneByOne` says
that no two handlers work on the same event at the same time; any number may work on different
events, and they share the wallets. The overlaps that break these properties are those of section 4.

| Theorem | Statement |
|---|---|
| `PaidAfterApproval` | `Spec /\ []OneByOne => []FundedIsApproved` |
| `SubmittedIsAnswerable` | `Spec /\ []OneByOne => []SubmittedHasReviewer` |
| `DecisionsOfSerialEvents` | `Spec /\ []OneByOne => DecisionsAreKept` |
| `StatusTellsTheMoney` | `Spec /\ []OneByOne /\ []NobodyDies => []MoneyFollowsStatus` |
| `ReportAccountsForMoney` | `Spec /\ []OneByOne /\ []NobodyDies => []ReportSettlesMoney` |
| `RefundsAreCovered` | if `Tolerance <= 1` (the code's constant is 1), `Spec /\ []OneByOne /\ []NobodyDies /\ []OngoingStays => []RefundsWithinPayments` |

The first three hold with any number of deaths. `SerialInv` has two halves: `RowsFit` says for every status what the
approval rows of an event must be (laid out completely, none rejected, one still pending, all
approved), and `Knows` what a handler at each of its awaits may still rely on of what it read before,
which is where `OneByOne` enters. `MoneyInv` does the same for money: `Calm` is the money of an
event nobody works on, `MoneyKnown` that of an event whose approval, cancellation or report is under way. A
handler that dies between the payment and the status leaves neither, hence `NobodyDies`.
`OngoingStays` excludes the one refund that is not covered: the cancellation of an event that
has begun returns the whole budget, whatever was spent or sent back (section 4).

`EventFundingProofs` proves

> `ApprovedRequestsArePaid`: without job and reviews,
> `FundingSpec /\ []RootsOrganizeNothing => []ApprovedIsPaid`

for any groups, any number of requests and of handlers, any overlaps and deaths, two approvals of one request
among them, and whatever handlers of events run, and ask for more, at the same time. `RootsOrganizeNothing` keeps
the wallets of RWs apart from the refunds of events: an RW's leader may organise events too, and a refund of
one would fill the wallet. For the same reason reviews and the job stay out: they pay what was adjusted, and
take back what was granted. `GrantInv` has four parts. `DecisionsInv`: a decision in flight holds a request that is
there and addressed to the deciding treasurer, and inside its transaction its event has not been
deleted. `EventsInv` and `RequestsInv`: an event that is deleted leaves its requests, and what a request points to exists.
`GrantsInv`: a root's wallet is at most its opening balance less the sum over its requests approved, or paid
and about to be; a second payment of one only lowers it.

The rest of that module is about what the handlers of an event, the reviews of its requests and the job
hand to one another, under `Quiet == []OneByOne /\ []NobodyDies`, with `review` as the way in which
requests are answered and the job alone on its turn (`~Overlap`); the run `FundingReview` satisfies all of
this in every state, and section 4 has what happens otherwise.

| Theorem | Statement |
|---|---|
| `BudgetStaysCovered` | `FundingSpec /\ Quiet => []BudgetIsCovered` |
| `ReviewsAreAnswerable` | if every parent group has a treasurer, `FundingSpec /\ Quiet => []UnderReviewIsAnswerable` |
| `CancellationReturnsMoney` | `FundingSpec /\ Quiet => []CancelledReturnsMoney` |
| `FinalReportsAreTrue` | if no report says that less than nothing is left, `FundingSpec /\ Quiet => []FinalReportIsTrue` |
| `StatusFollowsFlow` | if `Slot` is finite, `FundingSpec /\ Quiet => ImplementsFlow`: the refinement of `EventFlow` |
| `EventsAreOffered` | if every group has a treasurer, `FundingSpec /\ Quiet => []EveryEventIsOffered` |
| `OffersStayAccepted` | if the buttons' operations are served and administrators lead groups under another one, `FundingSpec /\ Quiet => []OffersAreAccepted` |

`ReviewInv` has four parts. `TablesInv`: the rows, and of each event what does not depend on who works
on it (`Sound`). `Booked`: of an event nobody works on, how budget, payments, granted requests and
pending ones fit its status; the four properties are read off it. `Informed`: what a handler at each
await knows of its event, told apart by what it does to it, since between
its writes `Booked` does not hold: a review that has marked the request has not yet raised the budget, a
cancellation has returned money of an event that still shows FUNDED. `JobInv`: the job's list still says what the
rows say (`Expects`), which is what `~Overlap` gives, and how much of the present event's money is yet to be
returned (`JobKnows`). `BeginKeeps`, `ContinueKeeps`, `FundContinueKeeps` and a lemma per
step of the job then go through the steps one by one.

`StatusFollowsFlow` matches each of these steps with one of `EventFlow`. `Held` adds up what is paid
out, what the job has returned early and what handlers carry; with one handler to an event the last is
`Owes` of that handler's request (`OwnFlow`), so `MovesBy` compares two numbers and two statuses of one
event. `ReviewInv` supplies what the numbers must be where the status is written: that a paid budget is
the amount of the approval that carries it, that nothing is left out when a cancellation is written, and
that the job cancels an event under review with its money where it was. Everywhere else a payment and what the
handler or job carries cancel out (`PayFlow`, `RefundFlow`, `JobRefundsFlow`).

`EventsAreOffered` adds two invariants. `ReachInv`: every approval row names a treasurer or leader who
may look at the event (`Asked`), and an event that shows SUBMITTED has one that is pending
(`IsAwaited`); while a handler is at work `Carries` says the same of what it has still to write. The rows
are read before they are decided, and an approval that leaves the event SUBMITTED has seen a pending row beside its
own. `FromFits`: a request comes from the group of its event's creator, who never changes, so the parent
that is to answer may look at the event. `CreatorFinds`, `ApproverFinds`, `TreasurerFinds` and
`ParentFinds` then name the one whose page offers the next step. The hypothesis
that every group has a treasurer is a real one, and nothing in the code keeps it: an RT without a treasurer
has its events approved by the RW's (`Treasurers`), but the page offers the report of a funded event only to
a treasurer of the event's own group (`canSubmitExpenseReport`), although the backend would take it from the
RW's treasurer too. Such an event waits for a treasurer to be appointed, for its creator to cancel it, or for
the job.

`OffersStayAccepted` reads off the same invariants that the checks behind each button hold but for the three refusals the property names
(`CreatorIsAnswered`, `ApproverIsAnswered`, `ReportIsAnswered`, `AskIsAnswered`, `ReviewIsAnswered`). The page
tests less than the backend, so `ReachInv` supplies the rest: the creator of an event is an organizer; an
event that is paid out or under review has no step left open, so no stale button approves it. The latter
holds because a handler about to pay has read that its row is the only open one (`Concludes`) and only the
commit of a payment leads out of SUBMITTED to there (`Moved`). `Booked` supplies that an event under review has one
pending request, and whose. `ButtonsAreServed` and `Slot # {}` say that the instance includes the operations
and a handler; `AdminsHaveParent` is a real hypothesis (section 4).

`CommunityProofs` proves, for every organisation and any number of overlapping requests:

| Theorem | Statement |
|---|---|
| `CommunityTyped` | `Spec => []CommunityTypeOK` |
| `OneTreasurerUnlessRaced` | `Spec => []OneTreasurer` |
| `ApproverIsNeverDeleted` | `Spec => []ApproverExists` |
| `RepairIsComplete` | `Spec => FixRepairsAll` |

`TypeInv` adds to the types what a call knows at each of its awaits (`CallsKnow`).
`TreasurerInv == SoleTreasurer /\ Counted`: a group outside `raced` has at most one treasurer, and a request
that has counted and not yet written would still count the same (`Counted`); that is where `raced` is needed,
since every write that could spoil another's count enters it. `ApproverInv == Housed /\ Pinned`: users
who are there live in groups that are there, and the approver of a submitted event is kept from
deletion by the row that names them. `RepairIsComplete` rests on `BothOrNone` (a group has both
steps or no rule) and `KnowsBare` (a repair under way knows every group that had none when it read, and groups
are born with rules).

`PaymentsProofs` proves, for any residents, orders, rates and number of handlers in flight:

| Theorem | Statement |
|---|---|
| `PaymentsTyped` | `Spec => []PaymentsTypeOK` |
| `MonthsFollow` | `Spec => []EveryMonthOnce` |
| `CoveredIsCreditedOnce` | `Spec /\ []Covered => []CreditedOnce`, where `Covered` says that no order is below a month of its payer's rates, as they are now, and that these are not 0 |
| `CoveredPaidIsCredited` | `Spec /\ []Covered => []PaidIsCredited` |
| `OrdersAsPromised` | `Spec /\ []Covered => Promise!OrderInit /\ [][Promise!OrderNext]_(Promise!orderVars)`: the safety part of `ImplementsOrder` |
| `MonthsPaidFor` | `Spec => []MonthsArePaidFor` |
| `MonthsGiven` | `Spec /\ []RatesKept => []MonthsAreGiven`, where `RatesKept` says that no order for dues costs more at the rates of now than it was billed, rounding included |
| `PageUsesPayments` | `PageSpec => Spec` |
| `PopupTellsTheTruth` | `PageSpec /\ []Covered => []PopupIsTrue` |
| `EverybodyCountsTheSame` | `PageSpec => []RecapMatchesBills` |

`BaseInv` adds to the types that a handler past its first read works on an order that is there,
that only the handler that made an order asks for its token (`Tokens`), and that whoever is about
to write PAID has heard it from the gateway (`Verdicts`); so nothing is distributed that was not
charged. `NextShape` then reduces a step to one of two kinds: it moves no money and makes no
order PAID, or it distributes one settled order. `RowsInv` (a resident's rows run without a gap
to `lastPaidPeriod`, none twice) is what makes a payment's first month always new, so its row,
the one that names the order, is always inserted; `Once` says that a credited order has such a
row, and the unique link rolls a second distribution back. That is why `Covered` is needed: an order
below the rate buys no month and leaves no row. Together with the run `CreditedTwice` this
says that such an order is the *only* way to a double credit. (The run `PaymentsDues`, whose
rates only fall, satisfies `Covered` in every state.)

`OrdersAsPromised` goes through the steps of `Payments` one by one: `Shape` says what each does
to price, gateway and credit of each order, and `PromiseStep` finds the step of `PaymentOrder`
(or none) that it stands for. `MonthsPaidFor` and `MonthsGiven` compare sums over all months of a resident with
sums over all their orders. They rest on `SumProofs`: the sum of the community modules is a fold,
whose recursive function is pinned down by `NumberInduction` and `SubsetInduction`, induction
principles about *sets* of numbers and of subsets, which need no operator as a parameter; what
follows (`SumAdd`, `SumSame`, `SumInt`: one more element, the same values, integers) is all the
proofs use.

`PageUsesPayments` holds because each step of the page is a step of the service or none: a poll, one
step in `PaymentPage`, books what a notification with the gateway's present word would. So the invariants
above hold behind the page. `EverybodyCountsTheSame` needs one more of them, `Clock`: nobody has paid up to a month
before the one they joined in. What is left is about sets of months in one state: `Arrears` (server and client
take the same months for paid, and the bill asks for the others) and the arithmetic of years
(`YearOfMonth`, `LaterYear`), for years of any length.

`TreasuryProofs` proves, for any groups, users, handlers, rows and pages:

| Theorem | Statement |
|---|---|
| `TreasuryTyped` | `Spec => []TreasuryTypeOK` |
| `BalancesExplained` | `Spec => []BalancesAreExplained` |
| `OverdraftStaysBounded` | if no wallet starts in debt and there is a finite number of handlers, `Spec => []OverdraftIsBounded` |
| `EveryTableIsWhole` | if in both tables every row fits a page below the header and above the total (`RowsFit`), `Spec => []TablesAreWhole` |

`WalletInv` (a wallet is its opening balance plus its rows) and `ReportInv` (every balance a report
has read is explained by a prefix of the log) give the second. `OverdraftInv` says that a wallet, less all that
handlers in flight are about to take from it, is no lower than `-Credit`, the amounts of all handlers but one: a
handler that passes the check finds at least its amount, and the others' amounts (`OthersTake`) are all that may still
come off; booking moves an amount from one side to the other.
`EveryTableIsWhole` is about the pure layout: `RowPlaces`, a recursive function, is shown to exist and to be
typed by `NumberInduction`, and each place to leave room for its row, and for the total after the
last one.

`AccessProofs` proves, for any number of RWs and RTs and any requester in them, that what the
backend lists opens: `ListedEventsOpen`, `ListedWalletsOpen`, `ListedRequestsOpen`,
`ListedTransactionsOpen`; that no event is open which is not listed, `OpenEventsAreListed`; and
the exception, `NeighboursRowsStayShut`. With these, and below one RW (`OneRW`), it proves of the
client

> `PagesAndGuardsAgree`: `Spec => []NothingIsRefused`

for any accounts, RTs, seats and moves, and any number of requests in flight.
`RolesAre` and `RoutesAre` read off, for each endpoint and each role, what the decorators and the
router allow; `LoadsAgree`, `OffersAgree`, `BadgesAgree` and `LinksLead` then go through the pages one
by one. They need to know which row a page shows, and that is not in the address: `SessionInv` adds to
the property that who has not been moved since the login is on a page the guard let through
(`ShownInv`) with a row that `MayShow` allows (`UserInv`), an event one may see, a wallet from the list, no row
at all. Links keep this because each takes its rows from a list the services let open; typing an address and
redirects keep it because they lead to pages without a row. A batch in flight stays right for whoever sent it,
whoever is logged in by the time it is answered (`SentInv`). `OneRW` is needed:
`OtherRtsStayUncounted` shows what a leader is refused otherwise.

The proofs rest on the constants' assumptions (`OrganizationAssumption`, `LedgerAssumption`,
`LifecycleAssumption`, `FundingAssumption`, `CommunityAssumption`, `SeedAssumption`, `DuesAssumption`,
`PaymentsAssumption`, `TreasuryAssumption`, `AccessAssumption`), which TLC evaluates on the instances,
and on the hypotheses shown in the tables. Those about finiteness (groups, users, requests: the
tables' rows) and `ParentOf[g] # g` are facts of any database the services write; a group is
created with a parent that exists already.

**Only model-checked:**

* Liveness: `CallsEnd`, `ExpiredIsClosed`, `PageFollowsOrder`, `SessionEnds` and the fair half of
  `ImplementsOrder`. Reasoning about fairness and ENABLED is beyond the prover.

## 6. Not modelled

* The connection pool: an approval holds one connection and asks for a second. Prisma gives up the
  wait, and the approval rolls back: a death at that await.
* Two executions of the job at once. Sums of money beyond what an integer of JavaScript holds.
* Profiles, passwords, avatars (whose old file is deleted before the row is written), mail and
  storage; the rows of further tables that keep a group from being deleted. A deactivated user's
  token goes on working until it expires, which no module is about.
* How pages search, filter, sort, paginate and lay out what they got; the second tab, the badge
  counts and their cache; role labels beyond who may set them.
* `processSystemDeposit`, `addParticipants`, `updateActualBudget` and the components
  `PaymentTable`, `PaymentSummaryCards`, `BillCard`, `AnnouncementSection` and `BalanceCards`
  have no caller. Refunds of orders are stubs that change nothing.

## 7. Plan

What is left, in the order of its worth:

1. The connection pool, and two executions of the job, as actions.
2. Two tabs, and the caches the client shares between logins.
