# Eveno: a verification project for the money layer

Eveno is a Swedish property-management service: a NestJS API over PostgreSQL
(`apps/api`), three web front ends and a tenant portal. This directory holds TLA+
modules that model the part of the API where a mistake costs somebody money: rent
notices, bank reconciliation, the claim ladder (reminder, interest, collection,
bad debt), deposits, the general ledger with its numbers and closed periods, the
export of supplier invoices, the delivery of reminder letters, and the commands that an
agent carries out under a standing right. TLC checks the
modules on small instances, TLAPS proves the main results for all.

Paths below are relative to `apps/api/src/` unless they say otherwise.

## 1. Inventory

| Component | State it keeps | Operations | Talks to |
|---|---|---|---|
| `avisering/` rent notices | `RentNotice` (status, sentAt/sendError, paidAmount), lines | create, queue PDF, send, mark overdue, mark paid, cancel, strike fee | accounting (vouchers), PDF and mail queues, payment freshness |
| `avisering/` claims | collectionStage, reminderFeeAmount, interestAccruedAmount, probableLossAt, writtenOffAt, `RentNoticeCredit` | remind, inkasso-ready, crystallize interest, credit, write down, write off | accounting, payment freshness |
| `reconciliation/` | `BankTransaction` (status, autoMatchExcludedAt, identityReviewAt), `RentNoticePayment`, `InvoicePayment` | import, match by OCR, reference or amount, waterfall, manual match, spread, unmatch, ignore | notices, invoices, deposits, accounting |
| `payment-freshness/` | `BankIdentityReviewPause`, `BankImportStop`, `paymentDataThrough`, `paymentImportStartedAt`, advisory lock per organisation | open, end and announce a pause; gate every automatic claim effect; alert about old data | reconciliation, claims, mail |
| `accounting/` | `JournalEntry`, `JournalEntrySequence`, `AccountingPeriodEvent`, `FiscalYearClose` | book, reverse, close and reopen a month, close a year | everything that moves money |
| `accounting/` supplier invoices, `fortnox/` | `SupplierInvoice`, `FortnoxVoucherExport` | pay, undo, cancel; dry run, send, verify, reconcile, release | accounting, Fortnox |
| `invoices/`, `collections/` | `Invoice`, credit notes, collection exports | send, pay, credit, export | accounting, mail |
| `deposits/`, `leases/`, `terminations/`, `rent-increases/` | `Deposit`, `Lease`, requests | activate, terminate, refund, raise | notices, accounting |
| `pdf-jobs/`, `mail/`, `common/queue` | Bull queues, `FailedEmail` | enqueue with job id, retry, deliver | notices, reminders |
| `fortnox/` connection, `psd2/`, `import/`, `kundstart/` | connections, consents, batches, opening packages | connect, sync, import | accounting, reconciliation |
| `ai/execution`, `ai/delegation`, `ai/assignments`, `ai/execution-dryrun` | `AiAssignment`, `AiDelegation` with its events, `AiToolExecution` | propose, decide, delegate, judge, carry out | most services |
| the rest of `ai/`, `ai-usage/` | conversations, pending actions, usage | propose, confirm | most services |
| `auth/`, `bankid/`, `signing/`, `tenant-portal/`, `platform/`, `users/` | sessions, refresh tokens, invitations | log in, rotate, sign | - |
| registers (`properties/`, `units/`, `tenants/`, `customers/`, `keys/`, `equipment/`, ...) | rows | create, read, update, delete | - |

**How the money layer interacts.** All of it shares one database. A command is one
or more transactions at READ COMMITTED; services call each other inside a
transaction and pass it on. There are three kinds of actors: operators (HTTP
requests), cron jobs (reminders, interest, overdue marking, automatic matching)
and queue workers. They synchronise by `SELECT ... FOR UPDATE` on single rows, by
conditional updates ("claims": `updateMany` whose `where` repeats the state the
command was decided on, and whose count is checked), and by one advisory lock per
organisation, taken shared by automatic claim effects and exclusively by whoever
makes the identity of a payment uncertain.

**What is hard.** A command that reads first and locks afterwards decides on a
state that may be gone: this is the shape of most hazards in `PROJECT.json`. The
debt of a notice is never stored but recomputed from five tables, and the same
amount is carried a second time by vouchers on account 1510, each keyed on the
notice so that it is booked once. An unmatch must put back a state that no row
records. The other hard parts are lock order between rows (deposits), queues that
remember a job id longer than the reason for it, and periods that open and close
while jobs run.

**What makes each part correct.**
* reconciliation: a bank row is spent once and as a whole; a notice never gets
  more than it asks for; unmatch restores what match changed; a human decision is
  not undone by an automatic run;
* notices: a paid notice has no debt, a cancelled one took no money, a settled one
  opens only when money is taken back; historical debt stays historical;
* claims: no settled notice is dunned; no fee without a voucher; the ladder is
  climbed from one stage to the next;
* accounting: what is on 1510 and 1515 is the debt the program computes; a year's
  vouchers are numbered without a gap, a document is booked once, nothing enters a
  closed year but what was under way;
* export: a voucher is in Fortnox at most once, and both books tell the same story;
* freshness: no automatic claim effect while a payment's identity is open;
* dispatch: a notice is marked sent only when a mail was sent, and is sent once;
* reminders: what is known of a letter is known of that letter; a claim goes to
  collection on a letter that arrived, and one that cannot go on is reported;
* agent: a proposal is carried out once, by a right that is still there, and what is said
  of it afterwards is true;
* deposits: the receivable is cleared once; what was given back is not kept, claimed
  or given back again.

## 2. Plan

Modules, in the order of their importance:

1. `PaymentBook` (abstract) and `RentLedger` (detailed): notices, bank rows,
   claims, vouchers. **Done** (section 3), with `RentLedgerProofs`.
2. `NoticeDispatch`: the PDF and mail queues between a notice and its recipient.
   **Done** (section 4), with `NoticeDispatchProofs`.
3. `ReviewPause`: identity reviews and import stops against automatic effects, review
   periods and their announcement. **Done** (section 5) but for the alert about old
   payment data, with `ReviewPauseProofs`.
4. `VoucherBook`: voucher numbers, closed months and years, reversals. **Done**
   (section 6), with `VoucherBookProofs`.
5. `ClaimedEffect` (abstract) and `SupplierExport`: supplier invoices and their vouchers in Fortnox. **Done**
   (section 7), with `SupplierExportProofs`.
6. `DepositBook`: the deposit branch of payment, match, cancellation and unmatch, with
   its locks. **Done** (section 8), with `DepositBookProofs`.
7. `InvoiceLedger`: the invoice branch of matching, credit notes and collection
   exports, against the same `PaymentBook`.
8. `ReminderDelivery`: letter, row, mail, webhook, evidence and alert of a reminder.
   **Done** (section 9), with `ReminderDeliveryProofs`.
9. `AgentExecution`: verdict, delegation, queue, claim and outcome of the shadow
   agent's proposals, against the same `ClaimedEffect`. **Done** (section 10), with
   `AgentExecutionProofs`.
10. Pending AI actions, refresh-token rotation, the sync lease of the
   bank feed: small protocols with a claim each.

Every detailed module has an `MC` module of its name, which gives its
constants values.

Compositions worth having: `RentLedger` with `ReviewPause` (the gate instead of
`EffectsAllowed`) and with `NoticeDispatch` (the worker instead of `SendOk` and
`SendFails`). Abstract specifications worth stating: the gate as mutual exclusion of
review and effect, with `ReviewPause` as its implementation.
Every invariant and every action property of a passing run has its theorem.
Theorems worth proving next: that `RentLedger`'s dispatch actions are implemented by
`NoticeDispatch`; that an unmatch under the notices' locks, a strike that reads under its
claim and a waterfall that rereads the fee would leave `raced` (section 3) empty;
`BooksAgree` for more than one invoice.

## 3. `RentLedger`: the receivable of one tenant

One tenant, the notices that carry the tenant's OCR number, the tenant's bank rows,
and the vouchers of each notice. The state follows the schema: `status`, `stage`
(collectionStage), `fee` (reminderFeeAmount), `interest` (interestAccruedAmount),
`paidAmount`, `probable` (the amount of the probable-loss voucher; 0 stands for
`probableLossAt` null) and `writtenOff` are columns of `RentNotice`; `bank`,
`excluded`, `review` are columns of `BankTransaction`; `alloc[p][n]` are the
`RentNoticePayment` rows with a bank transaction, `received` the sum of all of them
(cash included), `credited` the sum of `RentNoticeCredit`. `accrual` and
`feeVoucher` are the vouchers with the keys `rent-notice:<id>` and
`reminder-fee:<id>`, and `ar`, `doubtful` what all vouchers of a notice leave on
1510 and 1515.

Four more variables are what is in flight between two database accesses:

| Variable | The read | The write |
|---|---|---|
| `queued` | `autoMatchAll` reads all open rows once | `matchTransaction` for each of them |
| `pour` | the waterfall reads its candidates, their status and fee | it locks them, rereads allocations and credits, writes |
| `unwind` | `unmatchTransaction` locks the bank row and computes what each notice has left, from unlocked reads | it updates the notices |
| `cleared` | a command's preflight on one notice | its claim and transaction |

Everything between a lock and its commit is one action. What is read before the
lock is a separate action, so every other command may come in between.

The last variable, `raced`, is history: the code keeps no such thing and no guard reads
it. It names the notices on which one of the three interleavings happened that this code
cannot undo, so that the properties can say what holds everywhere else:

| Field | A notice is in it when | Code |
|---|---|---|
| `strike` | its fee is struck although a waterfall has counted it in, or the money that came in since the preflight leaves no room for it (`StrikeIsLate`) | `reverseReminderFee` claims on the fee alone; the waterfall reads its candidates before it locks them |
| `remind` | a reminder adds its fee behind a waterfall that has read the notice (`ReminderIsLate`) | the waterfall rereads allocations and credits under its locks, but not the fee |
| `undo` | money reaches it between the reads and the writes of an unmatch (`BeingUnwound`) | `unmatchTransaction` locks the bank row and no notice |

| Action | Code |
|---|---|
| `SendOk`, `SendFails` | `processNoticeSendJob`, `skrivUtskicksstatus` |
| `MarkOverdue` | `checkAndMarkOverdue` |
| `PickUp`, `PassBy`, `AutoMatch`, `FlagForReview` | `autoMatchAll`, `matchTransaction`, `applyMatchToRentNotice`, `markeraHistoriskSkuld` |
| `AutoPour`, `ManualPour`, `PourCommit`, `PourAbort` | `applyWaterfallToRentNotices` |
| `ManualMatch`, `Ignore`, `UnmatchRead`, `UnmatchCommit` | `manualMatch`, `ignoreTransaction`, `unmatchTransaction` |
| `MarkAsPaid`, `Cancel`, `StrikeFee` | `markAsPaid`, `cancelNotice`, `reverseReminderFee` |
| `CreateCredit`, `CrystallizeInterest`, `WriteDown`, `WriteOff` | `createCredit`, `crystallizeInterest`, `reclassifyProbableLoss`, `confirmLoss` |
| `Remind`, `MakeInkassoReady` | `escalateNoticeToReminded`, `escalateNoticeToInkassoReady` |
| `Clear`, `GiveUp` | the preflight of the six commands that have one; a claim that missed |

**Abstractions.** Amounts are whole kronor, the tolerance of one krona is `Tol`.
Time is left out: a due date may have passed at any moment, interest may be any
larger amount up to `MaxInterest`. How a row finds its notice (OCR, a number in
the text, a guess on the amount) is left open: any notice can be found, with the
restriction each way puts on part payments. Consumption and other charges are 0,
so `Total` is the capital. Deposit notices and invoices are separate branches of
the same functions and are not in this module. The refund of a fee's rounding,
the text of events and notifications are left out. An unmatch of several notices
reads them together and writes them together. `confirmLoss` has an unlocked
read whose outcome is repeated under the lock; the two are one action. The status check
of `unmatchTransaction` is made just before its lock and taken as one step with it;
`ReviewPause` has the two apart.

**The abstract specification** `PaymentBook` says what a bank row promises: it is
spent in one step, only while nothing of it is spent, its notices together get no more
than the budget, and what is taken back is the whole row. `RentLedger` implements
it with `spent <- alloc` and a budget of the amount and the tolerance
(`ImplementsPaymentBook`).

### Runs

| Run | Instance | Shows |
|---|---|---|
| `matching` | 2 notices of 4, rows of 7 and 2, no fee | `BankRowSpentOnce`, `NoOverpayment`, `SettledOpensOnlyByUnmatch`, `ImplementsPaymentBook` |
| `races` | 2 notices of 4, one historical, rows of 7 and 2, fee 2; match, waterfalls, unmatch, cash, remind, strike | `DebtExactUnlessRaced`, `MirrorExactUnlessRaced`, `HistoryStaysHistory` |
| `claims` | 1 notice, fee 2, interest 1, rows of 6 and 2, every command on a notice | `LadderOnlyOnOpenDebt`, `LedgerMatchesSubledger`, `DoubtfulNetsToZero` |

Bounds and why they are enough: the waterfall needs two notices and a row larger
than one of them; a part payment needs a row smaller than a notice; a race on a row
needs two ways to reach it, which one row has; a race on a notice needs two rows or a
row and cash. A row of 7 over two notices of 4 gives them 8, over what 2 in cash has
left of them 6: the two edges of the tolerance.

`races` has the three interleavings of `raced` in it, with a fee, a second row and cash: if
`WithinDebtUnlessStruck`, `SettledUnlessRaced` or `MirrorExactUnlessRaced` forgot one of the
fields of `raced` it names, TLC would find the notice that breaks it there. What the run
shows is that nothing else breaks them, and that a race on one notice leaves the others
exact. Its historical notice closes the automatic paths while it is open and frees them
afterwards.
`MaxInterest`, `Cash` and `Rebate` bound the amounts; nothing else is bounded.

### What the code does not keep

| Run | Property | The interleaving |
|---|---|---|
| `cancel_race` | `CancelledTookNoMoney` | cancel reads paidAmount = 0; a row is matched in part; cancel claims |

`PROJECT.json` quotes the comment the code contradicts. Two more counterexamples of
this module are in section 11, one of them for the plain form of a property of `races`.
Interest that is booked on a notice cancelled meanwhile follows from the model as well and
is listed as a hazard without a run.

### Fairness

None is assumed in this module: all its properties are safety properties.

## 4. `NoticeDispatch`: the way of one notice to the tenant

One rent notice, the PDF jobs that are asked for it, the one mail job under its id,
and the mail provider. `status` and `dispatch` (`sentAt`, `sendError`) are columns of
`RentNotice`; `pdf[j]` and `mail` are Bull jobs with their attempts and stalls; `known`
is what the provider remembers of the idempotency key, `today` how often it accepted
the mail since it last forgot the key; `trace` is history, kept for the properties.

| Action | Code |
|---|---|
| `Ask`, `Block` | `sendNotices` (avisering.service.ts) |
| `Start`, `Refuse`, `Recheck`, `QueueMail`, `Suppress`, `WriteSent`, `Throw`, `ReadFails` | `processNoticeSendJob`, one step per access to the database or the queue; `Mark` is `skrivUtskicksstatus` |
| `AddMail`, `Forget` | `MailQueue.enqueue`: `jobId`, `removeOnComplete`, `removeOnFail` |
| `NextTry`, `AfterStall`, `Stall`, `MailStall` | what Bull does with a job that threw, and with one whose worker died |
| `TakeMail`, `SendMail`, `SendFails` | `MailWorkerBase.processJob`, `handleFailed` |
| `Pay`, `Unmatch`, `Cancel`, `MarkOverdue` | the commands of section 3, by what they do to the status |
| `Accept`, `NextDay` | the provider (external): a key is remembered for 24 hours |

**Abstractions.** Whether a payment target or an address is missing and whether mail is
switched off are choices made anew at each read, because they may change at any time.
The commands on the notice are reduced to the status; what they do to money is
section 3. Historical notices (`OPENING`) are left out: no dispatch touches them.
`NextDay` is only taken when no job is under way: attempts are spread over minutes,
so a job that is tried across a whole day (a queue that is down for that long) is not
in the model. A mail that the provider accepts is taken for delivered.

| Run | Instance | Shows |
|---|---|---|
| `dispatch` | 2 PDF jobs, 2 attempts, 1 stall, all commands | `OneMailADay`, `SentWasQueued`, `WorkersLeaveSettledAlone`, `JobsEnd` |

**Bounds.** The code has 5 attempts and 3 stalls; with 2 and 1 every kind of attempt
occurs: one that is not the last, one that is, a stall that is survived and one that is
not. Two PDF jobs are enough for two workers on one notice, since they share no other
state. Nothing else is bounded.

**Fairness** (`FairSpec`). `WF(Work(j))`: Bull hands every waiting job to a worker and
the worker's calls return or throw. `WF(MailWork)`: the same for the mail queue.
Nothing is assumed of operators, of stalls, of forgetting or of the provider's clock.

**What the code does not keep** (`dropped_mail.cfg`, section 11). The PDF job queues the mail and marks
the notice as sent; the notice is paid before the mail worker takes the mail; the
worker drops it, as it should; the payment is unmatched, and the notice is `SENT`
because `sentAt` is set. No mail was sent, none will be, and `sendNotices` does not
send it again. The comment at reconciliation.service.ts:4253 wants the status derived
from what was delivered; `sentAt` says what was queued.

## 5. `ReviewPause`: no claim while a payment is undecided

One organisation. `bank` and `marked` are `BankTransaction.status` and
`identityReviewAt`, `stop` is `BankImportStop`, `started` and `through` are
`paymentImportStartedAt` and `paymentDataThrough`, `pause` is
`BankIdentityReviewPause` with what was announced of each period. `effect` is how far
the transaction of each automatic effect is, `request` and `call` what an operator's
request and an announcing call keep between two accesses to the database.

The advisory lock of the organisation is not a variable. A transaction that holds it
exclusively is one action, guarded by `MayWrite`: nobody holds it shared. An effect
holds it shared from `Enter` to `Commit` and takes a step for every statement,
because at READ COMMITTED each statement sees what is committed when it runs.

| Action | Code |
|---|---|
| `Enter`, `CheckData`, `CheckRows`, `CheckStops`, `Commit` | `assertAutomaticEffectAllowed` and its callers in reminder, interest and bad debt; invoice effects call `assertIngenOlostIdentitetsgranskning` alone, hence `InvoiceEffect` begins after `CheckData` |
| `StartImport`, `DataThrough`, `Age` | `recordImportStarted`, `recordPaymentDataThrough`, the calendar |
| `StorePlain`, `StoreForReview`, `RegisterStop`, `ResolveStop` | `ingestFromFile`, `registreraImportstopp`, `resolveImportStop` |
| `Flag` | `markeraHistoriskSkuld`, called by automatic matching |
| `ReadRow`, `Match`, `Ignore`, `Unmatch`, `Refused`, `Settle` | `manualMatch`, `ignoreTransaction`, `unmatchTransaction`: the read, the transaction, and `avslutaGranskningsperiodOmLost` in a transaction of its own |
| `Begin`, `CountRows`, `Notify`, `Mail`, `MarkMailed` | `aviseraGranskningspaus`, called after a commit that opened a period and by `sveparGranskningspauser` |
| `RequestDies`, `CallDies` | an error or the end of the process between two accesses |

**Abstractions.** What a match does to notices is section 3; here a row is matched or
not, and `STUCK` is a row that is ignored with its allocations in place. An automatic
match of a plain row is not in the model, as it never touches a marked one. All
notices of a period are one number, as they are written in one transaction with their
marker. Mail is not suppressed, and the queue remembers a job id for good. It does
so for 7 days or 1000 jobs (mail.queue.ts:92): a period whose mails were queued, whose
marker was not written, and which no sweep came back to for a week would be mailed again,
and that is not in the model. The sweeper's limit of 200 periods
is a matter between organisations. A call begins for any period the sweeper would
find; the writer's own call is one of them. The alert about old payment data
(`evaluateAndAlert`) is not modelled.

| Run | Instance | Shows |
|---|---|---|
| `gate` | 2 rows, 1 stop, 1 rent and 1 invoice effect, 2 operators, 2 periods, 1 fault, all commands | `NoClaimUnderReview`, `NoClaimBeforeData`, `PeriodIsKept` |
| `announce` | 2 rows, 1 operator, 2 calls, 2 recipients, 2 periods, 1 fault; match, unmatch and flag | `AnnouncedOnce`, `PauseIsAnnounced` |

**Bounds.** A period opens, ends and opens again with two rows or one row that is
unmatched; two periods show whether the first can be mistaken for the second. A
behaviour cannot open a third. Two effects are one of each kind, and they only meet
through the lock. One fault at every place is what a retry has to survive; liveness
needs faults to be finite in number. `TypeOK` is proved and not a run of its own.

**Fairness** (`FairSpec`). `WF(CallStep(a))`: the sweeper runs every day with the
reminder cron (rent-reminder.service.ts:356), and a call that has begun goes on until
it ends or dies. Nothing is assumed of operators: a pause may last for ever, and
`PauseIsAnnounced` says that it is announced then, provided it has a period.

**What the code does not keep** (`silent_pause.cfg`, section 11). `manualMatch` ends the period only if
the row was marked when it was first read. A row that is flagged between that read
and the match is decided and its period stays open, announced; the next unresolved row
opens no new period, and its pause is silent. The run is without faults; an error
between the decision and the end of the period leads to the same.

The same early read has a second consequence in `unmatchTransaction` (line 4411): a row
that is unmatched, flagged and matched by others between the read and the lock becomes
unresolved and no period is opened for it at all, so not even the sweeper finds the
pause. `gate` has this step, with two operators and all commands, and names it:
`UnseenMark`. `PeriodIsKept` says that no other step of any command leaves an unresolved row
without a period, and that the next row to become unresolved opens one again; the theorem
`PauseKeepsPeriod` says it of every instance. Claims stay blocked in both
cases: `NoClaimUnderReview` does not depend on periods.

## 6. `VoucherBook`: numbers, months and years

The general ledger of one organisation. `entry` are the committed rows of
`JournalEntry` (key for `source` and `sourceId`, `of` for `reversalOfEntryId`),
`counter` is `JournalEntrySequence.lastNumber` of each year, `event` the
`AccountingPeriodEvent` rows of each month in the order of `seq`, `closing` the
`FiscalYearClose` rows. `tx` is the transaction of each request: where it stands, what
is left to book, what it has written. Nobody else sees `wrote` until the commit; what
others see of it are its locks: the counter's row from the first number on, and the
values of the unique indexes.

| Action | Code |
|---|---|
| `Document` | `createNumberedEntry` and its callers |
| `Accrue` | `createConsumptionAccrualEntry`: December's voucher and January's in one transaction |
| `Reverse` | `createReversalEntry` by a service, `reverseJournalEntry` by hand: two keys, one original |
| `ClosePeriod`, `ReopenPeriod`, `CloseFiscalYear` | the checks of `closePeriod`, `reopenPeriod`, `fiscalYearChecks` before the transaction |
| `Draft` | `buildYearEndDraft` |
| `Look`, `Date`, `Number`, `Insert` | in `createNumberedEntry`: the voucher that is there already, `resolveBokforingsdatum`, `allocate`, the insert |
| `CheckMonth`, `ReadSeq`, `WriteEvent` | `writeMonthClose`, `appendPeriodClosedEvent`, `appendPeriodReopenedEvent` |
| `WriteClose`, `Commit`, `Abort` | `appendFiscalYearClose`, COMMIT, and a rollback for any reason at any point |

**Abstractions.** A date is its month, and months are numbered in the order of time. A
voucher has one number for what it leaves on the result accounts: 1 if it moves them
(`ResultKey`), the opposite for what reverses it. Its lines are section 3 for rent
notices and left out otherwise. `Clash` is the pair of unique indexes of
`JournalEntry`; a second writer waits for the first (`Insert` is not enabled) and
then fails. The checks a month's precheck lists for a human, the opening package's
import of old vouchers, and reports are left out.

| Run | Instance | Shows |
|---|---|---|
| `periods` | years of 2 and 1 months, 6 keys, 2 requests, 3 and 2 events a month | `GapFree`, `BookedOnce`, `AccrualTakenBack`, `OnlyStragglers`, `ReopenedOnce` |

**Bounds.** One key of every kind: a plain document, one whose date may move out of a
closed year, a reversal by its service and one by hand of the same voucher, an accrual
and what takes it back. Two requests are enough for each race the code has a lock or
an index for, since each is between two. Three events let a month be closed, reopened
and closed; the third month stays open, so that there is a place for vouchers that
move. `OnlyStragglers` bounds what may enter a closed year by the number of requests:
nothing that began after the close enters it.

**What the code does not keep** (`open_result.cfg`, `double_close.cfg`). The draft of the result voucher is
read before the close takes a number, and a document that was already past its period
check may commit on either side of it. The closed year then has a result that is not
zero. The check in `writeMonthClose` keeps a month from being closed by both the year's
close and a month's close only if one has committed when the other looks: at READ
COMMITTED two closings may both see it open, and the one that reads the last number
later closes it again.

## 7. `SupplierExport`: supplier invoices into Fortnox

One invoice and its vouchers: the receipt, payments, their undoing, the cancellation.
`booked` are the vouchers in Eveno, `row` is `FortnoxVoucherExport` of each (state,
`attemptId`, external identity), `fortnox` the vouchers Fortnox has made, `wire` posts
that nobody waits for and that may still arrive, `call` each dry run or send between
two accesses. `late` is history: the payments whose export a dry run made ready after they
had been undone. No guard reads it.

| Action | Code |
|---|---|
| `MarkPaid`, `UndoPayment`, `Cancel` | supplier-invoice.service.ts, each one transaction under the invoice's row lock |
| `Exportable`, `Finished` | the exporter's order of vouchers: `build`, and the payment legs of fortnox-radklass.ts |
| `DryRun`, `StoreDryRun` | `dryRunRow` |
| `Send`, `Rebuild`, `Claim` | `send` up to the claim `DRY_RUN_READY` to `SENDING` |
| `NotSent`, `Refused`, `Unknown`, `TakeReceipt` | what `send` makes of an error before the post, a refusal, no answer, an answer (`recordReceipt`) |
| `Deliver`, `DeliverLate`, `Edit` | Fortnox (external): the post arrives, arrives when its sender has given up, a bookkeeper changes a voucher |
| `ExpireLease`, `Verify`, `Reconcile`, `ReleaseRejected` | the maintenance of fortnox-send.service.ts; `reconcileScan` is a `Reconcile` that finds its number itself |
| `Dies` | the end of a process between two statements |

**Abstractions.** Every claim draws an attempt id nobody had before, so only two things
about it matter: whether the row has one (`attempt`) and whether it is the caller's own
(`mine`, which the next claim of the same row ends). `compareVoucher` compares year, series,
number, date, text and rows; all payments of one invoice have the same text, so two of
one day are alike (`Alike`), and nothing else is. The content of a draft is a function
of the voucher. Adjustments of VAT, other classes of vouchers, the connection, tokens
and the mapping of accounts are left out; they can only stop a send before it posts,
which `NotSent` and a failing `Rebuild` cover.

**The abstract specification** `ClaimedEffect` says what a claim promises of an effect
outside the table the claim is made in: the effect happens once at most and only while
the item is claimed; a claim is given back only while the effect has not happened; that
it happened is said only if it did, and for good; that it did not only if it did not, and
then it cannot until the claim is given back. Nothing need ever be said. Here the item is
a voucher, `held` the vouchers whose row has left `NONE`, `DRY_RUN_READY` and `BLOCKED`,
`times` how many vouchers Fortnox has made of it, and `told` is "happened" for
`CONFIRMED` and "did not" for a proven refusal; `UNKNOWN`, `REJECTED` and
`RECEIPT_MISMATCH` say nothing, and neither does the confirmation of a payment, whose
content is that of the other payments (`ConfirmedIsThere` speaks of those). Every step of the module is a claim, a claim given back
(`NotSent`, `ReleaseRejected`), a voucher made (`Deliver`, `DeliverLate`), a word
(`Refused` with proof, `Verify`, `Reconcile`) or a stutter (`PostIsClaimed`).
`AgentExecution` implements the same specification (section 10).

| Run | Instance | Shows |
|---|---|---|
| `export` | 2 payments, 2 calls, one of which may be a dry run, 1 edit | `NeverTwice`, `ConfirmedIsThere`, `BooksAgree`, `ReversedNotSent`, `PostIsClaimed` |

**Bounds.** Two payments are needed for one to be taken for the other, and a second one
exercises the order of legs. Two calls are the two sides of each claim. `MaxLegs` and
`MaxEdits` bound the operators. `DryRunner` bounds the calls that may be dry runs: one is
enough to be late, and the other is the send that was rebuilt before the undo.

**What the code does not keep** (`reversed_sent.cfg`). `dryRunRow` decides on an unlocked
read whether a voucher may be exported and stores `DRY_RUN_READY` later, under a condition
on the row's state alone. If a payment is taken back in between, `UndoPayment` withdraws the
export first, the dry run makes it ready afterwards, and a send that rebuilt before the undo
claims it. The payment then comes to Fortnox after its undo was booked, where the comment of
the correction (accounting.service.ts:3005) says that it cannot.

The run has all of this: `StoreDryRun` stores whatever it decided. The properties say how far the
damage goes. `ReversedNotSent` excepts the payments in `late` and no others.
`ConfirmedIsThere` and `BooksAgree` give up, once there is such a payment, which of two
payments of one day a number or an undo belongs to; that a confirmed export bears a number
that is there, of its own kind and of nobody else, that nothing is paid before it was received,
that no more is taken back than was paid, and that payments not in `late` do not stand
side by side, they keep. `NeverTwice`, `PostIsClaimed`, `SentIsLocked` and `ConfirmedStays`
have no exception.

## 8. `DepositBook`: one deposit under every command

One lease's deposit and its notice. `notice` and `deposit` are their statuses, `book`
the vouchers that stand (a bank row in it is the voucher of its match and its
allocation), `holder` who has locked each row, `tx` what each transaction has read and
written, `over` history: a flag was written over a deposit that was not `PAID` any more.
Every statement of every command is an action; `Fails` is a rollback at any
point, by PostgreSQL's deadlock detection or by anything else.

| Action | Code |
|---|---|
| `AskCreate`, `Create` | `ensureDepositForNotice`, also called at start-up for notices without a deposit |
| `AskPay`, `Claim`, `SeeNotice`, `PayNotice` | `markPaid` of deposits.service.ts: deposit, then notice |
| `AskCancel`, `LockDeposit`, `CancelNotice` | `cancelNotice`: deposit, then notice |
| `AskMatch`, `LockRow`, `LockNotice`, `SeeDeposit`, `WriteNotice`, `PayDeposit` | `applyMatchToRentNotice` on a deposit notice: bank row, notice, deposit |
| `AskUnmatch`, `ReadAllocations`, `ReopenNotice`, `TakeBack` | `unmatchTransaction`: bank row, notice, deposit |
| `AskRefund`, `Refund`; `Sweep`; `AskFlag`, `Flag` | `refund`; the daily sweep, one statement; `markRefundPendingForLease` |

**Abstractions.** `OPEN` is any status a payment may reach, `SETTLED` any of refunded,
partly refunded and forfeited. A bank row pays the deposit in full: `SeeDeposit`
leaves out the comparison of amounts. Deposits that are paid by an invoice begin with
the invoice's lock and are left out, as are deductions and deposits of an opening
package.

| Run | Instance | Shows |
|---|---|---|
| `deposit` | 4 requests, 3 bank rows | `ClearedOnce`, `KeptIsReceived`, `SettledStays` |

**What it is about.** Cash and cancellation lock the deposit before the notice, match
and unmatch the notice before the deposit, so two of them may wait for each other.
The comments count on that: `applyMatchToRentNotice` never looks at how many rows
its update of the deposit changed, and what keeps a second payment out is that
whoever changes the deposit must have the notice too. `ClearedOnce` says that this
works, whichever of them PostgreSQL rolls back. Four requests let each kind meet
any other with two more to clean up or come between; three rows give a match, an
unmatch and a second match rows of their own.

**What the code does not keep** (`late_flag.cfg`). `markRefundPendingForLease` reads a `PAID`
deposit and writes `REFUND_PENDING` by its id alone. If the deposit was refunded in between,
the write hides it, and `refund` would refund it again; if its payment was unmatched, the
deposit is to be refunded without its money. `Flag` writes without a condition in the run
and in the theorems. `SettledStays` says that this commit is the only step that takes a
settled deposit back, `KeptIsReceived` that a deposit is kept without its money only after
such a flag (`over`), and that money which was received is never forgotten, flags or not.
`ClearedOnce` has no exception.

## 9. `ReminderDelivery`: from the reminder to the evidence

One overdue notice, the letters that remind of it, and what is known of each. `status`,
`stage`, `remindedAt`, `pdfKept`, `blockedSince` and `blockedAlertedAt` are columns of
`RentNotice`; `made` and `messageId` are its `RentNoticeSend` rows, `events` and
`sentLogged` its `RentNoticeEvent` rows. `job` and `mail` are Bull jobs, `accepted` and
`reported` what the provider has taken and found out, `posted` its webhooks on the way.
`cron` is where each replica of the collection job stands. `remindedAt` holds the number
of rows made by then, which is all that its date is compared with.

| Action | Code |
|---|---|
| `Remind`, `Resend` | `escalateOverdueRentNotices` with `escalateNoticeToReminded`; `resendReminder` with `bedömOmsändning` (resend-verdict.ts) |
| `Start`, `Refuse`, `MakeSend`, `QueueMail`, `Suppress`, `JobFails` | `processReminderSendJob`, one step per access to the database or the queue |
| `TakeMail`, `DropMail`, `SendMail`, `PersistId`, `MailFails` | `MailWorkerBase.processJob`, `persistResendId` |
| `Report` | the provider (external): a letter is delivered, comes back, or both in that order |
| `Webhook` | `recordNoticeDeliveryEvent` (resend-webhook.service.ts) |
| `ReadEvidence`, `Flip`, `Abandon` | `checkInkassoReadiness`, `escalateNoticeToInkassoReady` |
| `MarkBlocked`, `Stamp`, `Alert`, `AlertFails`; `Age` | `larmaOmBlockeradAvi`; seven days pass |
| `Pay`, `Unmatch`, `Cancel`, `MarkOverdue` | the commands of section 3, by what they do to status and stage |

**Abstractions.** Whether a job that failed is tried again depends on counters, which
`NoticeDispatch` has; here both may happen. `Mishaps` bounds how often anything fails or
is switched off: a queue that is out of reach, a worker that dies, a lost address, mail
turned off, an id or a copy that is not stored. The reads of one step of the job are one
read. The register data of the parties is complete, fee and interest are section 3,
and the notice is past its due date and its waiting time. Rows older than
`RentNoticeSend` and complaints are left out.

| Run | Instance | Shows |
|---|---|---|
| `reminder` | 2 PDF jobs, 2 letters, 1 replica, 2 periods, 1 mishap | `OutcomeOnItsSend`, `ReadyWasDelivered`, `StuckHasCause`, `StuckIsAlerted` |

**Bounds.** Two letters can be taken for each other; two jobs can write one each. The
second period follows a payment and an unmatch, and has the marks of the first to deal
with. One mishap at every place is what the evidence has to survive, and what may leave
a notice where it is. `replicas.cfg` has two replicas that race for the stamp, with one
letter; it passes as well, and is not a regular run because it asks nothing new.

**Fairness** (`FairSpec`). `WF(Age)`, and for each replica `WF(Standstill(c))` and
`WF(Flip(c) \/ Abandon(c))`: the collection job runs every day and what it has begun goes
on. Nothing is assumed of the queues, the provider or the operators: `StuckIsAlerted`
begins where they have come to rest.

**What the code does not keep.** The comment at rent-reminder.service.ts:1290 counts on
the gate of the PDF job to keep a second letter out, but the gate and the row it guards
are two steps and three jobs run at once (`double_letter.cfg`). A notice that is paid,
opened and reminded again keeps its rows: the letter of the first period lets it through
in the second, and no new one is written (`old_letter.cfg`). A webhook that comes before
the id it bears is stored matches nothing and is acknowledged; no dispatch follows that
would mend it (`early_answer.cfg`). If the process ends between the stamp of an alert and
the alert, the period stays silent (`lost_alert.cfg`). `StuckHasCause` says that there
are no other ways for a notice to get stuck without a mishap. A letter that comes back
after it was delivered is one of them and meant to be: rent-delivery-per-send.db.spec.ts:264
expects it.

## 10. `AgentExecution`: proposals that are carried out without a yes at that moment

The shadow agent's proposals for one tool and one type in one organisation. `row` is
`AiAssignment` (status, verdict with its delegation, claim, link to a trace), `right` is
`AiDelegation` with what its events add up to, `org` the two switches, `trace` the rows
of `AiToolExecution`, `job` the Bull job of each proposal. `run` is where each worker
stands in `utför`, with the clock it took at its start (`late`), and `request`, `judging`
what a request or a dry run keeps between its reads and its write. `effects` counts what
the tool has really done, `lost` keeps which rights were revoked when a run began: both
are there for the properties only.

| Action | Code (`ai/` unless said otherwise) |
|---|---|
| `Decide`, `Expire` | `besluta`, `stängUtgångna` (assignments/ai-assignments.service.ts) |
| `AskBirth`, `Birth` | `skapaUrFörslag`: its checks, and its write (delegation/delegation.service.ts) |
| `Revoke`, `Pause`, `Resume`, `Extend`; `RunOut` | `återkalla`, `pausa`, `återuppta`, `förläng`; the clock passes `expiresAt` |
| `AskSwitch`, `WriteSwitch`, `PauseAll` | the two switches in organizations/organizations.service.ts, `pausaAlla` |
| `AskVerdict`, `WriteVerdict` | `bedöm`, `skriv` (execution-dryrun/) |
| `Answers`, `Bears`, `Used` | `assertDelegated`, `beräknaStatus`, `förbrukatAntal` |
| `Reap`, `Enqueue` | `stängDöda`, `svep` (execution/) |
| `Take`, `Claim`, `AskAgain`, `Lapse`, `Begin`, `Act`, `Fail`, `StoreExecuted` | `utför`, one step per access to the database; `Begin` is the row that `executeToolWithAudit` commits before the tool runs, `Latest` is `slåUppSpår` |
| `Stall`, `Die`, `Forget` | Bull and its workers (external) |

**Abstractions.** The conditions of delegations are the relation `Covers`, and the period
of a cap outlasts the run. Which of several fitting delegations is taken is open, as the
query names no order. A claim counts as dead from its first moment: `DOTT_ANSPRAK_MS` is
five minutes and nothing keeps a run from being slower, so a run may write over a claim
that the sweep has closed. Every failure of the tool is one action, which may come before
the effect or after it. Payment proposals, whose approval matches a bank row at once,
and tools that may not run unattended are left out.

**The abstract specification** `ClaimedEffect` (section 7) is implemented with a proposal
as the item: its claim is `held`, `effects` is `times`, and `EXECUTED` and `LAPSED` say
that the work was done and that it was not. `FAILED` says nothing, as the tool may have
failed after its effect. A claim is never given back here (`WorkIsClaimed`).

| Run | Instance | Shows |
|---|---|---|
| `agent` | 2 proposals, 1 delegation and 1 unborn, 2 workers, 1 request, 1 loss, 1 fault | `OneEffect`, `WorkIsClaimed`, `RightNotGone`, `ClaimSettled` |

**Bounds.** Two workers race for one job, two proposals for one right and one cap. One
delegation is there at the start; the second is born of the first proposal, whose
approval counts because the other proposal is approved as well. `Changes` = 1 is one
thing that the owner takes away, at any point of a run; `Faults` = 1 is one stall or one
death, which is enough to hand a job out twice or to leave a claim behind. `Cap` = 3 is
not reached: the cap has a configuration of its own.

**Fairness** (`FairSpec`). `WF(Reap(a))`: the sweep runs every 15 minutes and closes dead
claims before it looks at any switch. Nothing is assumed of the workers, the queue or the
people: `ClaimSettled` holds with everything else standing still.

**What the code does not keep.** The cap counts verdicts and executions, and a proposal
that is judged and carried out is both; the comment at delegation.service.ts:671 has the
two sets disjoint, and leaves it to the change that brings execution to remove the
verdict, which it did not (`agent_cap.cfg`). The right is used up at half its cap. A
proposal that was judged favourably is carried out although it was rejected or expired,
with a notice that nothing was done (`expired_row.cfg`): the sweep and `utför` look at
the three outcomes only. `slåUppSpår` takes the latest trace of the same tool and right
since the run began, which may be another worker's (`other_trace.cfg`). Two requests make
two delegations of one proposal, since nothing but a read keeps them apart
(`born_twice.cfg`). A delegation that the switch has paused stays paused when the switch
is turned on again: `återupptaAlla` has no caller (`switch_back.cfg`).

## 11. Counterexamples to run by hand

Configurations that are no part of the regular runs. Each must end with a violation:
`tlc -config <name>.cfg <module>`.

| Configuration | Module | Violates | The interleaving |
|---|---|---|---|
| `second_fee.cfg` | `MCRentLedger` | `FeeHasVoucher` | remind, strike, pay, unmatch, overdue, remind: the fee is asked for again, its voucher is still the reversed one |
| `undo_race.cfg` | `MCRentLedger` | `PaidIsSettled` | `SettledUnlessRaced` without its exception: the unmatch of a part payment has read its notice, still unpaid; another row's match settles it with the money of both; the unmatch takes its part back and leaves `PAID` with a debt |
| `dropped_mail.cfg` | `MCNoticeDispatch` | `SentWasMailed` | section 4 |
| `silent_pause.cfg` | `MCReviewPause` | `NewPauseHasNewPeriod` | section 5 |
| `open_result.cfg` | `MCVoucherBook` | `YearZeroed` | section 6 |
| `double_close.cfg` | `MCVoucherBook` | `ClosedOnce` | section 6 |
| `reversed_sent.cfg` | `MCSupplierExport` | `ReversedNeverSent` | section 7: `ReversedNotSent` without its exception |
| `late_flag.cfg` | `MCDepositBook` | `SettledForGood` | section 8: `SettledStays` without its exception |
| `late_deposit.cfg` | `MCDepositBook` | `CancelledLeavesNoClaim` | a deposit notice is cancelled before its deposit exists; the start-up sweep then creates the deposit and its accrual, which nothing reverses |
| `double_letter.cfg` | `MCReminderDelivery` | `NoSecondLetter` | section 9 |
| `old_letter.cfg` | `MCReminderDelivery` | `LetterOfThisPeriod` | section 9 |
| `early_answer.cfg` | `MCReminderDelivery` | `EarlyAnswerIsMended` | section 9 |
| `lost_alert.cfg` | `MCReminderDelivery` | `StuckIsAlerted` | section 9 |
| `agent_cap.cfg` | `MCAgentExecution` | `SumCountsOnce` | section 10 |
| `expired_row.cfg` | `MCAgentExecution` | `ExpiredDidNothing` | section 10 |
| `other_trace.cfg` | `MCAgentExecution` | `TraceIsOwn` | section 10 |
| `born_twice.cfg` | `MCAgentExecution` | `BornOnce` | section 10 |
| `switch_back.cfg` | `MCAgentExecution` | `SwitchGivesBack` | section 10 |

Hazards met while reading that `PROJECT.json` does not list, for later work:

* an automatic run works through rows it read minutes before, and matches again what
  was unmatched by hand meanwhile (reconciliation.service.ts:3000);
* a fee is struck on the money received that was read before the claim, which compares
  the fee only (avisering.service.ts:2922);
* a mail job whose worker died too often fails with attempts left, and `handleFailed`
  says nothing of it (mail.worker.ts:235);
* the sweeper takes 200 periods in no order; a mail to a suppressed address counts as
  mailed; the marker of the staleness alert is set before the alert is queued
  (payment-freshness.service.ts:536, 509, 759);
* a payment leg whose export was rejected for good stops all later vouchers of its
  invoice (fortnox-radklass.ts:818);
* an unmatch updates its notices in the order of the allocations, a waterfall locks
  them by due date (reconciliation.service.ts:4270).

## 12. Theorems

`TypeOK` is proved of every detailed module. `CancelledIsNotCreditedTwice`,
`SentStaysSent`, `SentIsLocked`, `ConfirmedStays` and `OutcomeIsTrue` are stated by
theorems only.

`RentLedgerProofs` proves the following for every number of
notices and bank rows, all amounts, every tolerance and every choice of commands.
The assumptions are those of `RentLedger`: notices are finitely many numbers,
amounts are positive, historical notices have no accrual of their own, rows with an
undecided identity are rows.

What a fold over the notices or over a row's shares sums to is proved without induction
over data: a statement about all parts of a finite set that fails would fail for a smallest
part, and that part less one element refutes it (`SmallestSubset`, from the library's
`WFMin`; `SumsAgree` and the lemmas after it).

| Theorem | Statement | Argument |
|---|---|---|
| `TypeCorrect` | `[]TypeOK` | inductive; the only hard parts are that a waterfall hands out natural numbers and an unmatch never takes more than was allocated |
| `Implementation` | `ImplementsPaymentBook` | with `RowInv`: a row is `UNMATCHED` only if nothing of it is spent, `MATCHED` only if something is, a waterfall under way holds an unspent row, an unmatch under way a matched one. A match asks for `Unspent`; a waterfall read it before its commit, and `RowInv` says that it still holds. What a row gives all its notices together is within the budget |
| `RowSpentOnce` | `[]BankRowSpentOnce` | `RowInv`, and `RowSumInvariant`: the allocations of a row sum to at most its amount and the tolerance |
| `SettledOpens` | `SettledOpensOnlyByUnmatch` | with `ReopenInv`: every notice the unmatch under way will open is still paid and still holds money of the row. Needed because the decision is made on one state and carried out on another |
| `LadderOpen` | `[]LadderOnlyOnOpenDebt` | inductive with `ReopenInv`: a notice that an unmatch opens was paid, and whatever paid it took it off the ladder |
| `CancelledUncredited` | `[]CancelledIsNotCreditedTwice` | inductive: cancel, credit and write-down repeat each other's condition in their claims |
| `HistoryKept` | `[]HistoryStaysHistory` | inductive with `HistoryInv`: no cancel or write-down of a historical notice is under way |
| `DoubtfulNets` | `[]DoubtfulNetsToZero` | inductive with `DoubtfulInv`: a confirmed loss keeps its amount, so it is not written down twice |
| `LedgerAgrees` | `[]LedgerMatchesSubledger` | with `BalanceInv`, which counts the fee by its voucher instead of by the notice and therefore also holds while the two disagree; and `DoubtfulInv` |
| `NeverOverpaid` | `[]WithinDebtUnlessStruck` | with `ChargedInv`: a waterfall that counted a fee in counts one that the notice still has, unless it was struck late (`FeeInTime`). All that brings money looks at the debt under the lock it writes under |
| `NeverOverpaidWithoutStrikes` | `[]NoOverpayment`, if `Fee = 0` or `"strike" \notin Command` | then no strike is ever late, because no fee ever falls (`ClearedInv`, `StruckOnlyByStrike`). `matching` is such an instance |
| `PaidSettled` | `[]SettledUnlessRaced` | with `ReadInv`: a waterfall has counted in every fee of the notices it has read, unless they were reminded behind it, so what it fills is settled; and `UndoInv`: what the unmatch under way has computed still is what its notices will have, unless they were overtaken (`OvertakingIsRecorded`), and it opens every paid one that a debt comes back to |
| `DebtExact` | `[]DebtExactUnlessRaced` | the two together |
| `MirrorKept` | `[]MirrorExactUnlessRaced` | with `SettledUnlessRaced`, `ChargedInv`, `ReadInv` and `UndoInv`: a waterfall does not write the mirror of a notice it no longer finds open, but such a notice is settled and takes no money; and with `OpeningInv`: a waterfall that runs by itself has read no historical debt, whose mirror it would not write |

The code does not keep the plain forms of these properties under every interleaving:
`undo_race.cfg` and the hazards show what spoils them. The theorems assume nothing about
the instance or the order of steps. They name the three interleavings by what they do to a
notice (`raced`, section 3) and say that nothing else spoils it, and that what happens to one
notice spoils no other.

The step lemmas `BankStepEffect` (a step of a bank row is quiet, delivers money, or
is the commit of an unmatch) and `QuietKeeps`, `NoticeStepKeepsRows` carry the case
analysis, one step per action.

### `NoticeDispatchProofs`

For every number of jobs, attempts (at least one) and stalls, and every choice of
commands.

| Theorem | Statement | Argument |
|---|---|---|
| `DispatchTypes` | `[]TypeOK` | with `Counted`: a job that may still be tried has an attempt left. Without it nothing bounds the attempts |
| `OneMail` | `[]OneMailADay` | with `AcceptedOnce`: if a mail was accepted today, the provider knows the key |
| `SentMeansQueued` | `[]SentWasQueued` | with `QueuedFirst`: a worker that is about to mark the notice has queued the mail. The mark is set by `WriteSent` alone (`MarkedByWriteSent`) |
| `StaysSent` | `[]SentStaysSent` | inductive: `Mark` leaves a sent notice alone, an unmatch derives the status from the mark |
| `SettledLeftAlone` | `WorkersLeaveSettledAlone` | every write of a worker goes through `Mark`, which repeats the condition |

### `ReviewPauseProofs`

For every number of rows, stops, effects, operators, calls, recipients, periods and
faults.

| Theorem | Statement | Argument |
|---|---|---|
| `PauseTypes` | `[]TypeOK` | inductive |
| `ReviewBlocksClaims`, `FirstImportBlocksClaims` | `[]NoClaimUnderReview`, `[]NoClaimBeforeData` | with `GateInv`: what an effect has checked stays true for as long as it has the lock (`Checked`), and a mark is only on a row that is there. A step either takes the exclusive lock, then nothing has been checked (`NothingChecked`), or takes away from what pauses (`CheckedStays`) |
| `SaidOnce` | `[]AnnouncedOnce` | with `OnceInv`: a period without its marker has no notice, and the queue holds at most one mail under a key |
| `PauseKeepsPeriod` | `PeriodIsKept` | step by step, from `GateInv` (`PeriodStep`): whoever makes a row unresolved opens a period in the same transaction (`PeriodOpened`), but for an unmatch that saw no mark on a row that has one; whoever ends a period counts the unresolved rows under the lock it ends it under; announcing does neither (`CallKeepsState`) |

### `VoucherBookProofs`

For every number of requests, keys, months, years and accruals, with the assumptions of
`VoucherBook`: the fiscal years follow the months, an accrual and the key that takes it
back are different keys, and no document shares a key with a year.

Every statement is first put as a relation between a transaction before it and after it
(`Moves`, proved of the actions in `WorkIs`; `RequestIs` does the same for the
beginnings, `After` for the other transactions). The invariants below speak about
these relations only.

| Theorem | Statement | Argument |
|---|---|---|
| `NumbersWithoutGap` | `[]GapFree` | with `NumInv`: the committed vouchers of a year run from 1 to its counter (`Counted`), those a transaction has written run on from there (`Series`), and only one transaction has numbers of a year (`Alone`, the lock of the counter's row). So a commit appends a run to a run, and nobody else's run moves |
| `ReopenedRightAfter` | `[]ReopenedOnce` | with `EventInv`: the number a reopening read stood right behind a closing, histories only grow, and who has written an event has the next number alone (`Sole`, the unique index) |
| `KeysOnce` | `[]BookedOnce` | with `KeyInv`: what is written and not committed clashes neither with the books nor with what another transaction has written (`Apart`, the unique indexes) |
| `AccrualsWhole` | `[]AccrualTakenBack` | with `Stage` of `KeyInv`: a transaction that has written one voucher of an accrual has the other left to write. It needs `BookedOnce`: a look that finds one of the two there may skip it, and then the other one is there as well |
| `StragglersOnly` | `[]OnlyStragglers` | with `YearInv`, which counts: what a closed year has gained since its closing, and the requests that may still add to it (`Adders`: they had their date, or a voucher in the year, when it was closed), are fewer than the requests. Who has no date yet finds the year closed (`Sealing`), the closing's own request adds nothing more, and a request adds one voucher to a year (`Apiece`) |
| `VouchersTyped` | `[]TypeOK` | from `NumInv` and `EventInv` |

### `SupplierExportProofs`

For every number of calls, dry runs among them, payments and edits. Nothing is assumed about
when a dry run is stored (section 7).

| Theorem | Statement | Argument |
|---|---|---|
| `ExportTypes` | `[]TypeOK` | inductive |
| `ExportLocked`, `ExportOnce` | `[]SentIsLocked`, `[]NeverTwice` | with `Inv`: a post of a voucher is under way, on the wire, or in Fortnox, and only one of the three, once. A claim takes a row that was `DRY_RUN_READY`, of which `SentIsLocked` says that none of the three holds; a step that frees a row (`NotSent`, `ReleaseRejected`) comes before the post or proves that there was none |
| `ConfirmedForGood` | `ConfirmedStays` | every write repeats a state other than `CONFIRMED` in its condition |
| `UndoneIsNotSent` | `[]ReversedNotSent` | inductive: an undo withdraws the export or is refused, and what could make it ready again afterwards is the dry run that puts the payment in `late` (`WithdrawnNext`, `LateIs`) |
| `ConfirmedOwn` | `[]ConfirmedIsThere` | with `GroundInv`: whatever has been sent keeps the grounds it was found exportable on (`Grounded`), a number that is stored is of the voucher's kind, its own if no payment is in `late` (`Owned`), and stored once (`Distinct`). Payments of one day look alike, but of two the earlier is confirmed with its reversal before the later is sent, so nothing that is still to be reconciled looks like another |
| `BooksInOrder` | `[]BooksAgree` | with `Ordered` of `GroundInv`: what a voucher stands on has a lower number in Fortnox. What was confirmed stays so (`ConfirmedStep`), what was finished stays so because the row of an undone payment is withdrawn or the payment is in `late` (`ClosedStep`). The export of an undone payment has a lower number than its undo, and no two have the same, so no more is taken back than was paid (`UndosHavePayments`, `NoMoreUndos`) |
| `ExportImplements` | `PostIsClaimed` | step by step, from `Inv` and `GroundInv`: no step moves two rows, or a row and Fortnox (`OneMoves`). A new voucher in Fortnox comes of a claimed row of which nothing is said, because `SentIsLocked` excludes a refusal and `Owned` a confirmation (`FortnoxPost`). A row that is freed or refused has no voucher by `SentIsLocked` after the step, one that becomes `CONFIRMED` has its own by `Owned` after it (`RowPost`) |

### `DepositBookProofs`

For every number of requests and bank rows. Nothing is assumed about when a flag is
written (section 8).

| Theorem | Statement | Argument |
|---|---|---|
| `DepositTypes` | `[]TypeOK` | inductive |
| `DepositClearedOnce`, `DepositReceived` | `[]ClearedOnce`, `[]KeptIsReceived` | with `Inv` in four parts: `Booked` ties the statuses to the vouchers (a `PENDING` deposit has an accrual and no money, a kept one exactly one payment), `Shape` says what a transaction may have written at each statement, `Held` which rows it has locked by then, `Knows` what the rows it has locked are since. Two transactions that would both clear the receivable would have to hold the same lock |
| `DepositSettled` | `SettledStays` | from `Knows`: whoever is about to write the deposit holds it, and read it as not settled, but for the flag, whose commit is the exception (`FlagsOver`) |

### `ReminderDeliveryProofs`

For every number of jobs, letters, replicas, periods and mishaps, and both values of
`Dies`.

| Theorem | Statement | Argument |
|---|---|---|
| `ReminderTypes` | `[]TypeOK` | inductive |
| `ReminderOutcomes` | `[]OutcomeOnItsSend` | with `Matched`: an id that is stored on a row is the key of a mail about it, and what was recorded was reported of that mail. Mails keep their row (`MailsStay`), reports only grow (`FoundStays`) |
| `ReminderDelivered` | `[]ReadyWasDelivered` | with `Cleared`: what a replica read when it found the notice ready is true for ever (`EvidenceStays`), so it does not matter when it is used |
| `ReminderStuck` | `[]StuckHasCause` | with `Straight`, which ties rows, mails and jobs at any time, and `Smooth`, which does so while nothing has failed: a row has its mail, a mail that is done its id, an id its outcome unless it came too early |

### `AgentExecutionProofs`

For every number of proposals, delegations, requests, workers, stalls and deaths, every
cap, and every choice of decisions and switches.

| Theorem | Statement | Argument |
|---|---|---|
| `AgentTypes` | `[]TypeOK` | inductive |
| `AgentOneEffect`, `AgentOutcomes` | `[]OneEffect`, `[]OutcomeIsTrue` | with `ClaimInv`: a run past its claim has a claimed row of which no success or lapse was told, and has done the work exactly if it is past `Act` (`HolderInv`); no two such runs have one proposal (`OneHolder`); an unclaimed row was not carried out (`RowInv`). The sweep writes `FAILED`, which claims nothing |
| `AgentImplements` | `WorkIsClaimed` | step by step, from `ClaimInv`: who claims is the first to (`ClaimWork`), who works has claimed and nothing is told yet (`ActWork`), an outcome tells what is so or nothing (`EndWork`); people, sweeps and the queue leave claim, effect and word alone (`OwnerWork`, `PassWork`) |
| `AgentRight` | `RightNotGone` | with `RightInv`: what was revoked when a run began still is, what has run out comes back by an extension only, and the right of a run was asked for with its own clock |

### Only model-checked

The liveness properties `JobsEnd`, `PauseIsAnnounced`, `StuckIsAlerted` and `ClaimSettled`:
liveness under fairness and `ENABLED` are out of the prover's reach. Every invariant and
every action property of a passing run is stated by a theorem. One theorem has a premise,
`NeverOverpaidWithoutStrikes`; all others hold of every instance that meets the assumptions
of its module.

## 13. What is not modelled

`PROJECT.json` lists every component with its reason. Next in the plan is the invoice
branch of matching. Left to their own tests are
parsers, PDF templates, registers, the front ends, the language model's tools, and
everything behind an external service (PSD2, BankID, signing) but for its protocol with
this program. Most of the repository is of these kinds: the map covers a few per cent
of its lines, and the money layer's state machines are most of what a model checker
can say something about.
