# Verification of the ERP back end

TLA+ models of the parts of this NestJS/PostgreSQL server whose correctness depends on the order of
events: documents that move stock and money, requests that overlap or are repeated, tills and phones
that work offline, and sequences of legal calls. TLC checks them on small instances; TLAPS proves the
most important results for every instance. Source paths are relative to the repository
(`src/modules/...`).

- [The system](#the-system)
- [What is modelled, and how it corresponds to the code](#what-is-modelled-and-how-it-corresponds-to-the-code)
- [Runs, bounds and what they show](#runs-bounds-and-what-they-show)
- [What the code does not keep](#what-the-code-does-not-keep)
- [Fairness](#fairness)
- [Proofs](#proofs)
- [Not modelled](#not-modelled)

## The system

One PostgreSQL database holds the rows of all companies (`tenantId` on each). Every HTTP request is
served by a controller that calls a service; a service works on repositories, outside a transaction
(each statement commits alone) or in `dataSource.transaction`, at READ COMMITTED, with `FOR UPDATE`
row locks or advisory locks where its author saw a race. There is a pool of ten connections
(`config/database.config.ts:39`). Nothing else is shared, except cron jobs and domain events, which
are delivered in the process after a commit. Three kinds of clients work offline and upload later:
tills (`pos.sync`), phones that count stock (`stocktakes/:id/counts`) and drivers' phones
(`delivery` driver sync); browsers keep a queue of saves with an `Idempotency-Key`.

| Component | State | Operations | Interacts with | Hard behaviour | Correct when |
|---|---|---|---|---|---|
| Stock ledger (`inventory/stock.service`) | `stock_levels`, `stock_movements`, `inventory_items` (average, in transit) | `apply`, `adjustInTransit` | every document | lines of several documents interleave; average over all warehouses and transit; stock below zero; rollback | the ledger explains every balance; the average stays within the costs paid; a document is applied whole or not at all |
| Transfers | `stock_transfers` | create, update, send, receive, cancel | ledger, warehouses | short receipts, cancellation after sending, lock order | goods move once; transit is what open transfers carry; no deadlock |
| Warehouses | `warehouses` | update, remove | ledger, transfers | checks and write are separate statements | a removed warehouse holds nothing |
| Stocktakes | `stocktakes`, `stocktake_lines` | create, update, applyCounts, post, cancel | ledger, devices | late, repeated and reordered uploads; saves of an old copy | the newest count wins; nothing unseen is lost |
| Sales | `sales_invoices`, `customer_payments`, `sales_returns` | create, update, issue, pay, cancel, return | ledger, POS, delivery, accounting | checks before the lock; refunds after receipts and cancellations | paid is what was collected; the statement agrees with the invoices; the credit limit holds |
| Numbers and hash chain | `number`, `counter`, `invoiceHash` | finalize | sales, POS | concurrent issues, rollback after reading | gapless numbers, one chain |
| POS | `pos_devices`, `pos_shifts` | sync (open, sale, return, quote, cash, close) | sales, delivery, ledger | overlapping and repeated uploads, late documents, stop between statements | one open shift; nothing dropped unrecorded; figures follow documents; the queue drains |
| Devices and screens of the till | `pos_devices` (installation, key) | bind, unbind, move, stop, remove, upload | POS, warehouses | a binding is four statements of a request; answers lost and reordered | one device per screen; only the newest key uploads |
| Cashiers, rights, promotions | `pos_cashiers`, settings, `pos_promotions` | edit, remove, download, judge | POS | rights withdrawn before what was done under them arrives; clocks of tills | what was allowed when it was done is accepted |
| Restaurant | `dining_tables`, `kitchen_orders` | send, move, serve, close | tills, kitchen's screen | rows saved as they were read, by several screens | the board shows what is to be cooked; times fit the status |
| Delivery | `delivery_orders`, `delivery_settlements` | createOrder, assign, dispatch, deliver, fail, cancel, settle, recordFromPos, driver sync | sales, POS | operations of two transactions with compensation; drivers offline | nothing left behind by a failed delivery; the agent owes what receipts say; settled once |
| Idempotent saves | `idempotency_records` | interceptor, clean-up | every save of a browser | repetition, overlap, failure and stop at any statement | executed once; first answer; never blocked for ever |
| Couriers | `delivery_agents`, orders | assign, remove, link a phone, tell events late | delivery, tills | clocks of phones and tills; counting, then removing | nobody leaves with orders or money; events in order |
| Purchasing | `suppliers`, `purchase_invoices`, `supplier_payments`, returns | enter, edit, post, pay, cancel, return, remove | ledger, accounting | two sums of the same debt; edits of a draft that is posted | what is owed and what is in store follow the documents |
| Catalogue | products, units, barcodes, tax rates, categories | edit, remove, import, download | plans, tills | checks, then writes; time stamps that are older than the commit | references hold; a till misses no change |
| Accounting | `journal_entries`, `accounting_settings`, errors, baselines | activate, sync (cron, reports, button), manual entries, expenses, lock date, closing and reopening a year | all documents | advisory lock on another connection; retries; documents stamped before the activation; settings read before a closing | one entry per event; the books agree with the statements; retained earnings carry the result of closed years |
| Payroll, loans, deductions, bonuses | `payrolls`, items | draft, delete, pay, pay directly | leaves, accounting | the draft is weeks older than the payment; two ways to pay | each amount paid once and taken back once |
| Salaries, advances, end of service | `salaries`, `advances` | ask, decide, hand over | payroll | rows saved as they were read | advances within the salary, what was handed over is owed |
| Leaves and settlements | requests, balances, `settlements` | ask, decide, carry over, set, settle | payroll, attendance | cron and person on one row, no lock | no day twice; consumed is settled; one carry-over per cycle |
| Attendance | punches, holidays, policy | judge, edit | payroll | night shifts, clock changes | each day has one status, the month adds up |
| Punches and numbers | `attendance_logs`, employees' numbers | receive, import, tap, link, onboard | devices, employees | late, repeated, before their owner is known | each punch once and with its owner |
| Devices | `biometric_devices`, commands, templates | push, poll, answer, copy, purge | punches | requests repeated and late, polls that overlap, stamps, templates that go round | no punch lost, no copy loop, a command given up in the end |
| Subscriptions, quotas | subscriptions, plans | register, request, activate, renew, cancel, guard | all creations | count, then insert; expiry saved by readers | never above the plan |
| Branches | branches, what belongs to them, restricted users | edit, remove, move, restrict | warehouses, employees, users | counting, then removing; tokens | nothing left behind |
| Sessions | `auth_sessions`, users, roles, tokens | login, refresh, logout, change, reset, suspend | all | tokens are looked up nowhere; save, then revoke | sessions end with the password, rights within a token's life |
| Notifications | notices, recipients, alert states | scan, tell, listen, send, read, remove | all | silenced before told; events in memory | what is silenced was told |
| Departments, files, dashboard, reports, platform quotations | rows | single edits, readings | | little | constraints of one row |

`PROJECT.json` lists these parts with their status, and the hazards at their lines.

## What is modelled, and how it corresponds to the code

The abstractions are the same in all modules. A document is a model value. A document that many
lines make up is a quantity per product (stock) or an amount (money); prices are 1, taxes and
rounding of money are left out; unit costs are small numbers and the average is rounded as
`toDecimalPlaces` does. A transaction whose locks exclude every other writer of what it reads is one
action; where statements of two requests can interleave, a request is a record of what it has read
and what it does next, and every statement is an action. A request that throws ends where the code
throws and changes nothing more; where nothing was changed before, it is simply not an action.
Operators marked *slip* are mistakes one could make in the definition next to them; they are not part
of a specification, and every property is violated when one of them takes the definition's place.

**`Inventory`** (refines **`CompanyStock`**). `level`, `avgCost`, `inTransit`, `movements`, `transfer`
are the tables of the ledger. `Apply` is `StockService.apply` with `applyOne` per line; one action for
each document that calls it: `Adjust` (adjustment and opening balance), `Purchase`, `PurchaseReturn`,
`Sale` (with the till's permission to go below zero), `SaleReturn` (at the cost of a row of the
ledger), `PostStocktake`, and the transfer's `Create`, `Update`, `Send`, `Receive`, `CancelDraft`,
`CancelSent`. `CompanyStock` is what the documents promise a company as a whole: a quantity and one
moving average per product, which only goods that come in at a cost may change. (The
documentation, `docs/modules/inventory.md:18-19`, names purchases and opening balances; in the code
returned sales and costed adjustments do so too.) `UnitSums` defines sums without recursion, so that
they can be proved about; `Sales`, `PosSync`, `Posting` and `Delivery` take their sums from it too.

**`StockTransactions`** extends `Inventory`: the same documents statement by statement. A request
(`work`) takes the transfer's row where it has one (`StartSend`, `StartReceive`, `StartCancel`), then for
each line, in the order of the products, the item's row (`LockItem`), `ReadQuantity`, for goods that come
in at a cost `ReadTotal`, and `WriteLine`; then `MoveInTransit` for the lines that were sent, in any order,
as `linesOf` has none; and `CommitRows`, or `RollBack` at any point. `EditTransfer` are the requests that
change a transfer's row and nothing else. The variables of `Inventory` are what is committed. Sales of
tills, adjustments and returns go through the same `apply`, with other costs and permissions, and are
not repeated there.

**`WarehouseRemoval`**. Stopping and removing a warehouse as the separate statements they are, beside
documents that check that a warehouse is active at their start and write at their end. TypeORM's
`save` writes the row as it was read.

**`Stocktake`**. One sheet: `lines` with the time of each count, uploads (`ApplyCounts`), saves of a
dashboard user from the copy he opened (`Update`), post and cancel. Each request holds the row lock
throughout, so it is one action. `clock` advances by one per request: two requests never have the same
`updatedAt`.

**`Sales`**. Invoices, payments and returns with the amounts that the properties relate; `CheckIssue`
and `Issue` are the two halves of `issueWithin`, before and after the lock. `Balance` is
`CUSTOMER_BALANCE_SQL`. One customer; an invoice may also be a walk-in buyer's.

**`InvoiceChain`**. `finalize` from the advisory lock to the commit, for invoices of the office and of
tills. The hash covers the uuid, so the invoice stands for it.

**`PosSync`**. The operations of a till's queue, each named by its place in it, uploaded in requests that overlap, fail, stop or lose
their answers; `runOperation` statement by statement for shifts, and for sales, returns, quotes and
cash movements the look-up, the recording transaction, the counter and the recalculation of a closed
shift. The queue of the screen is external.

**`Delivery`**. Orders with their invoices and receipts; an order is named by its invoice, which is made
first. Making an order, cancelling one whose invoice
is a draft and a driver's operation are several transactions; all else is one under the order's lock.
Returns at the desk and cancelled receipts are taken from the sales services.

**`Idempotency`**. The interceptor statement by statement, its clean-up job, and a device that sends
an operation until it has an answer (external).

**`Posting`**. From documents to entries. `Happen` and `ChangeOpening` are what the sales services do
to a customer, who stands for all parties; `BeginActivation` and `Activate` are
`SetupService.activate`, whose `activatedAt` lies before its snapshot. A run of `sync` is `Start` (the
advisory lock, and the candidates of the first handler), one `Post`, `PostedByAnother` or `PostFails`
per candidate (`postOne`), `Proceed` to the next handler, and `End`. The unique key of the journal makes
building and inserting an entry one action: whoever comes second is rolled back. `Delta` is read when
the entry is built, the number of the entry when candidates are. `recent` holds the errors of the last
ten minutes. `Stop` and `LoseLock` are a server that stops and a session that is cut off. The three
handlers modelled stand for all: the others differ in the accounts of their lines. `SYNC_BATCH` (300
documents of a kind per run) is left out: the rest is a candidate of the next run.

**`YearEnd`**. The dates of entries. `settings` is the row of the company, read by each writer before
its transaction (`StartRun`, `ReadSettings`) and locked only by `close` and `reopen`. `FirstOpen` is the
rule of `resolveDate`; a document moves to that day (`PostDocument`), a voucher or manual entry before
it is refused. `AskToClose` to `PostClosing` are `close`: its synchronisation, or none when another one
is at work; the row lock, its checks and the balances; the closing entry and the new settings, which
commit together. `Reopen` is one action under the same lock. `CheckLockDate` and `WriteLockDate` are the
two statements of `updateSettings`. A document adds 2 to the result, a voucher takes 1 off; the lines of
a closing entry are the result and its opposite in retained earnings. When documents are posted again
after failures is `Posting`'s matter; here a run may end with documents left.

**`PosRights`**. The office edits cashiers (`BeginCashier`, `SaveCashier`), the options of the screen
(`BeginScreen`, `BeginSettings`, `SaveOptions`) in two steps, reading a row and saving it whole, and removes a
cashier in three (`BeginRemoval`, `Revoke`, `RemoveCashier`: the time the right was lost, then the row); promotions
are edited at once. A screen works with the copy it downloaded, part by part (`Download`), puts what it does into
its queue (`TakeBack`, `TakeBackByUser`, `SellOnCredit`, `SellCheap`) and uploads it later (`JudgeDone`), where the
code judges it by the rows of that moment and by `returnRevokedAt` and the time a feature was switched off. These are
times of the server; what a screen did carries the time of its own clock (`TillTimes`, within `TillSkew` of the server's),
which nothing corrects. `doneAt`, `right` and `lostAt` keep for the property what the server's clock and the rows said.
The screen is external.

**`PosTerminals`**. `bindDevice` as the four statements it is (read, `Claim`, `Release`, `IssueKey`),
with its bounded repetition, an answer that is lost, and a server that stops; `unbindDevice`,
`updateDevice` (moving to another warehouse, switching off), `removeDevice`, and the guard that lets only
the newest key of a bound device upload.

**`Kitchen`**. `SendTicket` and `RecordTicket` are the till's operation and its arrival, with
`SentTime` for `sentTime`; `BeginStatus`/`BeginServe` and `SaveStatus` are the two halves of `applyStatus` at the
kitchen's screen and at the till; `CloseOrder` is one UPDATE; `OnBoard` is the query of the board, with the hours for
which a ready ticket is shown. Tables are created (one or several at once) and edited by checking their names in the
scope of a branch (`BeginCreateTables`, `BeginUpdateTable`) and saving whole rows (`SaveTables`), which brings back
a table that was removed meanwhile.

**`Couriers`**. Agents from their creation to their removal, the link of a driver's phone, and of each
order its agent, its state and its three times. What is looked at before a transaction is a step of its own:
`BeginRemove` counts, `BeginCreate`, `BeginAssign` and `BeginSale` look the agent up, `BeginTell` is the driver's
guard and the check of the order's agent, and each has its `Commit` (a sale its `RecordSale`) or fails (`GiveUp`).
An order whose invoice the till has issued is cancelled in one transaction (`CancelSold`); any other is set cancelled
first and put back when its draft cannot be (`BeginCancel`, `EndCancel`). `EventTime` is `eventTime`.

**`Purchasing`**. Suppliers, whose removal counts documents (`BeginRemove`) and then deletes
(`CommitRemove`); invoices of one line with `BeginCreate` and `BeginUpdate` before their
commits, `Post`, `Cancel`; payments, which look the supplier up before (`BeginPay`), of an invoice (`Pay`) or on
account (`PayOnAccount`), and `CancelPayment`; `CreateReturn`, `PostReturn`, `CancelReturn`. What is left of an invoice is kept in
`paidAmount` and `returnedAmount`, what is owed to the supplier is the sum the code computes; both are
exact, in the smallest coin, with `ReturnShare` rounding as `computeReturnShare` does.

**`Catalog`**. An edit of a product checks its references (`BeginUpdate`), takes its time stamp
(`StampProduct`) and commits (`CommitProduct`), as TypeORM stamps a row before the transaction commits;
`StartDownload`, `ReadChanged` and `Downloaded` are `bootstrapDevice` and the screen that keeps what it
got. Units, tax rates, categories (a tree), barcodes, the import and the plan's limit are in it.

**`Payroll`**. `Generate` and `SaveDraft`, `BeginDisburse` and `CommitDisburse` are the two halves of
`generateMonthlyPayroll` and `disbursePayroll`; loans, deductions, bonuses and settlements are rows with
their status and the installments paid; `CheckDirect` and `SaveDirect` are the direct payments of
`BonusesService` and `SettlementsService`. Every amount is one unit. What overlaps in time is remembered where it
begins: `contested` has the extras whose direct payment was at work while a payroll of their month was being paid, or
was overtaken by an edit, and the debts that two payments counted at a time.

**`Entitlements`**. `AskAdvance`, `DecideAdvance` and `DisburseAdvance` read a row that `SaveAdvance` writes back later;
salaries have no unique key. `Award` is the table of `EosService` in seventy-seconds of a month's
salary, so that it has no fractions.

**`Leaves`**. Requests (`CheckRequest`, `SaveRequest`) and decisions (`CheckDecision`, `SaveDecision`) in the two
statements they are, a request that the balance does not cover and that leaves behind the balance it made
(`DenyRequest`), yearly balances with `Earned` (`LeaveAccrualService`), the carry-over
of an anniversary and `setBalance` as reading and writing back, settlements under their lock. A balance
is counted in days of which a year earns a whole number.

**`AttendanceDays`**. `Evaluate` is the judgement of a day, `Report` that of a month, with shifts that end
on the next day and days on which the clock changes; holidays, policy, leaves and punches change by their
handlers.

**`Punches`**. A batch of a device, a file and a tap on a phone are read and written in two steps;
employees get, change and lose their numbers, and the linking (`relinkPunches`) is its own statement
where the code has it so, which a stop may skip (`RelinkLost`). A card is saved as it was read, its number and its
phone too, also when something else on it was edited (`BeginUpdateRest`), and links only when it changes the number it
read; an edited punch is saved as it was read, its employee too (`BeginEdit`, `Edit`).

**`Devices`**. A device that speaks ADMS (external: what it stores, repeats and reorders) and the
server's rows: stamps, commands with attempts, templates. Requests are served several at a time (`Desks`), each
statement by statement, and may end at any of them (`Fails`): a poll finds what is due (`BeginPoll`), or asks the device who
it is (`RequestHandshake`), renders one command after the other (`Render`) and counts what it sends (`Answer`);
`enqueue` looks for what waits already (`Look`) and saves the rest one by one (`SaveCommand`), for the administrators
(`QueueEmployee`) as for the copying of a template after it was stored (`StoreTemplate`, `FindTargets`,
`NextTarget`); a device is saved as it was read (`BeginUpdate`, `UpdateDevice`); switching the copying off is three statements
(`SwitchOff`, `ReadPolicy`, `Purge`). `ReceivePunches` stores the lines that can be read and moves the stamp past
all of them, if the stamp itself can be read.

**`Subscriptions`**. Rows of subscriptions, `PlanStep` the handlers; any reader that finds one over saves it as
expired. The guard counts users in a step before the handler that adds one (`Askers`). `Onboarders` are requests that
add an employee with an account: the guard asks for `max_employees` (whose count is not modelled: it may let them pass
or not), and the account is counted among the users from then on (`UsersOf`; `headcount` and `onboarded` are the parts of
this count, told apart for the property).

**`Branches`**. Edits of branches, warehouses, employees, devices and users as reading and saving; the
removal of a branch in one transaction whose statements each see what is committed: it counts (`BeginRemove`) and then
moves and hides (`CommitRemove`), while other requests save what they read before.

**`Sessions`**. Logins, renewals, codes, passwords, suspension, roles. An access token is a record of the
rights at its issue and is believed until its end.

**`Notifications`**. `Look`, `Forget`, `Raise`, `Tell`, `Fail` are a scan round with its states, which ends at
any statement when that fails (`Break`) or the server stops (`Restart`); a notice that nobody may receive is made of
nothing and counts as made. Terms have stages under the unique key of the notice; requests emit events that listeners
hear from memory, until a restart; the inbox of each user with its reading, hiding and clean-up.

The `MC*` modules give these specifications their small instances. Several of them make up one run
(`MCGoods`, `MCShops`, `MCDocuments`, `MCDelivery`, `MCTill`, `MCOffice`): what they model shares no row, so a
behaviour of such a module is a behaviour of one of its instances, chosen at the start and kept in `part`.
Each of them extends up to six of the specifications and takes the steps of their next-state relation, cut to
the instance where it has to be smaller (`OneRequest`, `OneOrder`, `Closing`), while the variables of the other
parts stay as in the beginning; the rest are named instances, whose variables have the value `off` while
another part is at work. What a module that is extended promises can be named by a theorem as it is by the run. An instance of a
module is named for what happens in it (`Lending`, `Deducting` and `Rewarding` are three companies' payrolls).
Each property of such a run says what the modules promise for the parts it is about. Type invariants that
say no more than what the columns of the tables are, are proved; those that carry constraints between rows
are checked as part of these properties.

**History variables.** Some promises hold only while something the code does not prevent has not
happened. The models contain that behaviour, and a history variable, which no guard reads, remembers
it, so that the property says exactly when it holds: `calm` in `Sales` (nobody worked between the
checks and the lock of an issue), `calm` in `PosSync` (no upload overlapped, failed late or stopped),
`removed` in `Stocktake` (a line was removed), `late` in `Idempotency` (failures and stops between a
commit and its kept answer, per operation), `clipped` in `Sales` (what a cancelled receipt could not
take off `paidAmount`, per invoice), `early`, `counted` and `alone` in `Posting` (events stamped before
the activation, those of the opening entry, and whether two runs were ever at work at once), `slipped`
in `YearEnd` (entries that came into a year after its balances were read), `contended` in
`WarehouseRemoval` (two requests on one warehouse) and in `Couriers` (agents who were removed beside a request that
names them), `happened` in `Delivery` (a stop between two
transactions, a return or cancelled receipt at the desk, a reassignment while a driver's operation was
at work), `alone` in `PosRights` (no two edits at once), with `doneAt`, `right` and `lostAt` of what a screen did, `quiet` in `Kitchen` (no two requests about tables at once), `whole` in `PosTerminals` (no binding
stopped half way), `overtaken` in `Catalog` (changes that were stamped and not committed when a download
took the time), `crossed` in `Purchasing` (suppliers whose removal overlapped a document that was being entered), in
`Entitlements` (rows two requests worked on) and in `Punches` (numbers at which two requests were at work, or that a row saved as it was
read brought back or undid),
`late` in `Branches` (what was saved into a branch after its removal had counted),
`beside` in `Entitlements` (two advances asked for at once), `overlapped`, `contested` and `edited` in `Payroll`
(months drafted twice, rows on which two payments, or a payment and an edit, worked at a time, bonuses that were
edited or removed), `staleYears` and `together` in `Leaves` (balances written back from an old reading; requests,
decisions on one request or cycles begun at once),
`late` in the sessions of `Sessions` (logins under way when the password changed) and, in `Notifications`, which of the rows belong to a notice that reached
somebody (`handed`), to one that nobody could receive (`unheard`) and to a round that ended before it told (`stopped`). `peak`, `allowed`, `opened` and `had` remember the highest
salary, the largest limit, the password and the rights that a property compares with.

## Runs, bounds and what they show

| Run | Instance | Shows |
|---|---|---|
| `Goods` | *stock*: 2 warehouses (one may go negative), 1 product, 1 transfer, costs 1 and 4, 2 ledger rows per balance. *Purchases*: 1 supplier, 1 invoice, 2 returns, 2 payments of 5, 2 requests, quantities 1 and 3 at a price of 3 and 15 % tax. *Catalogue*: 2 products in a tree of 2 categories; 1 product in 2 units at 2 tax rates; 2 overlapping requests beside a download | the ledger explains balances, transit and negative stock, the average stays within the costs, the stock's value follows the ledger, `CompanyStock` is implemented; what is owed and in store follows the purchases; references hold and a till misses only what was under way |
| `Shops` | *sales*: 2 invoices, 2 payments, 2 returns, amounts up to 2, limit 2. *Warehouses*: 2 requests, 1 beside the main one, 1 transfer. *Branches*: 1 beside the main one, a warehouse, an employee, a restricted user, 2 requests | paid is what was collected, returns stay within what was sold, the statement agrees with the invoices; walk-in buyers, tenders and the limit while calm; nothing is left in what was removed |
| `Documents` | *invoices*: 3 of the office and 2 of tills at once, any rollback. *Stock*: 2 requests, 1 product at a cost of 2, quantities up to 1, 1 transfer between 2 warehouses of which one may go negative, 2 ledger rows per balance | one chain, office numbers without a gap; what is committed changes by one whole document of `Inventory` at a time |
| `StockLocksMissing` | 2 requests, 2 products, 1 transfer from a warehouse that may go negative | a deadlock (see below) |
| `Delivery` | *money*: 2 orders of up to 2 units, 2 agents, 1 request of several transactions at a time beside the office, tills and the desk; in parts, only a single invoice is returned. *Racing*: 1 order, 2 such requests. *Couriers*: 2 agents, one with a phone, and the office; 1 agent whose orders a till sells as well | reversal in full, agents owe what receipts say, settled once, no orphan draft, drivers act on their own; agents leave with nothing pending, events are in order |
| `PosSync` | 7 operations over 2 shifts, 2 uploads at a time, 1 fault | one open shift, nothing lost, figures follow documents while calm, the queue drains |
| `Idempotency` | 2 requests, 3 operations, 2 of them under one key with different paths, 3 faults | executed once, and again only after a late fault; own answers; answered at last |
| `Till` | *rights*: 1 cashier, 1 request of the office, 1 sale, 2 promotions; a till whose clock is 1 ahead or behind; 2 requests. *Devices*: 2 of them with 1 screen and 2 requests; with 2 screens; with 1 fault and 2 warehouses. *Kitchen*: 1 ticket and 2 requests; 2 tickets of one order; 2 tables, 2 names, a branch and 2 requests. *Counts*: a limit of 1 line, 2 counts, uploads of up to 2: of 2 products, until 2; of 1 product and 2 users of one sheet, until 3. *Years*: 1 document, 1 voucher, 1 closer, 2 closing entries; 3 years of a day each; 2 years and 1 change of the lock date | what was allowed when it was done is accepted; one device per screen; new tickets are on the board and their times fit, tables can be told apart; the newest count wins, the limit holds, no save loses what its user had not seen; retained earnings carry the result of the closed years |
| `Posting` | 1 sale, 1 receipt and its cancellation, an opening balance of 0 or 2 edited twice, the cron's run and a forced one, 1 fault | one entry per event, errors belong to what is not posted; the books agree with the statement; everything is posted at last |
| `Office` | *payroll*: 2 payrolls over 2 months, one of them of the first, with a loan and a settlement; each of a month of its own, with a deduction; with a bonus in months that leave nothing. *Advances*: 2, of which one is saved first, by 2 requests, 2 salaries. *Leaves*: 2 requests of several spans, 1 of them of paid leave; 1 beside settlements and 2 turns of the year, decided by one request; 1 beside a balance set by hand. *Days*: 2, of 5 hours (the clock is moved forward) and of 6, with a night shift, 2 punches, a holiday. *Punches*: 2 phones; a device and a changing number; 2 employees. *Devices*: 2 that share a template; 1 that is removed, repeats and sends what cannot be read; 2 polls of one that overlap, 2 attempts; 1 while another request switches copying off. *Subscriptions*: a changing plan and 2 requests; 2 plans; an employee with an account beside a request. *Sessions*: a password and 2 requests; a role. *Notifications*: 2 rounds; 2 groups; a request; a contract; failures and a stop anywhere | see `Payroll` to `Notifications` above: the composite property of each module |
| `FreeGoodsCancelled` | 1 invoice of 1 unit at a price of 0, 1 return | a cancelled purchase whose goods had been sent back (see below) |
| `PayrollCounting` | 1 payroll, 1 deduction, 2 months | a deduction that is held back and not counted (see below) |

Why the bounds suffice: stock properties are per product, and per pair of warehouses; two ledger rows
let a balance go negative and recover and a weighted average follow it (costs 1 and 4 round both ways).
The same properties are proved without any bound. Races in the code are between two requests; a third
one adds no new order for properties that relate one row to one other. A limit of 1 makes the sheet full
at once. Amounts up to 2 tell nothing, part and all apart. The seven till operations include everything
that may depend on something earlier in the queue. In `Posting` two edits of the opening balance make two
numbered entries. In `YearEnd` the days of a year would only repeat its last one, every closing has its
year end before it, and two closers would wait for each other's row lock; two closing entries let a year
be closed, opened and closed again, or two years be closed, and one year is enough for the lock date to move
before, during and after its closing. A purchase of 3 at 3 with 15 % tax has a total
whose thirds must be rounded, so that two returns show whether the last one takes the rest. Two months let
an installment be held back twice, two days let a night shift end on the second, a year of two days lets
leave be earned, carried over and settled within four. One ticket that goes back and forth passes through
all pairs of states; one template shows whether it goes round. `MaxMovements`, `MaxQty`, `MaxClock`,
`MaxCounts`, `MaxBatch`, `MaxFaults`, `MaxTotal`, `MaxSettlements`, `MaxChanges`, `MaxCloses`, `MaxLocks`,
`LastDay`, `MaxDay`, `LastTime`, `MaxKeys`, `MaxEdits`, `MaxRows`, `MaxUsers`, `MaxLogs`, `MaxManual`, `MaxIndex`,
`MaxVersion`, `MaxSeq`, `MaxAsked`, `MaxPurges`, `MaxAltered`, `MaxNotes`, `MaxFailures`, `MaxPunches`, `MaxPasswords`,
`LastStamp`, `TillSkew` and `TillAhead` are bounds of the models. `Posting` never stops, and deadlock is checked; the other
instances stop at their bounds or when everything is done; `NoDeadlock` says what matters about locks.

## What the code does not keep

Three disagreements between the code and its comments have a run of their own.

- *Lock order* (`StockLocksMissing`). `apply` sorts its lines so that two transactions cannot deadlock
  (`inventory/stock.service.ts:172`), but a line of a receipt of which nothing arrived is not given to
  `apply`: `adjustInTransit` locks its item afterwards, in the order of the lines. PostgreSQL then
  aborts one of the two.
- *Deductions counted* (`PayrollCounting`). The payment of a payroll counts the installments of active
  deductions, "the same as were held back by the draft" (`payroll/payroll.service.ts:650`), but the draft
  asks for no status (line 245): what is pending or cancelled is held back and not counted.

- *Free goods* (`FreeGoodsCancelled`). A posted purchase can be cancelled when nothing of it was paid or returned
  (`purchasing/purchase-invoices.service.ts:366`), which the code sees by amounts (line 378). A price of 0 is accepted,
  so the goods of such an invoice can be sent back and leave once more when it is cancelled. At prices above 0 the
  comment is right (`CancelledInFull`).

The history variables mark the others; each was seen by checking the property without its condition.

*Stock and warehouses.* A transfer or receipt that begins while a warehouse is being removed leaves stock
in it (`docs/modules/inventory.md:24` says none is removed with stock), and an update that read the
warehouse before brings it back. An older count that comes after the line's removal is recorded.

*Sales and delivery.* A receipt cancelled after a return refunded money of the same invoice leaves it paid
by what was given back (`sales/customer-payments.service.ts:205`). The credit limit, the walk-in rule and
the total of the tender may be overtaken by a request between check and lock
(`sales/sales-invoices.service.ts:635`). A return at the desk while an order is on the road leaves the
agent owing the full amount, and a stop between the two transactions of `createOrder` leaves a draft
without an order. An order of a till may be paid partly in cash and partly by courier
(`delivery/delivery.service.ts:1127`); when it fails, `reverseInvoice` (line 839) gives all of it back by courier, although
its comment says by the same method. `Delivery` has one payment of the whole. An order that a till or another desk gives to an agent while he is removed stays with
him, and so does one whose cancelling fails after the removal has counted it as cancelled; a till whose clock is ahead makes an order arrive before it left.

*Tills.* The figures of a shift closed by overlapping uploads, or whose late sale stopped before the
recalculation, stay stale. A binding that stops before `Release` leaves a screen on two devices; one that
was unbound while it issued its key leaves the next screen with a key that is not its own until it binds
again. A till's own clock says when a return or a sale on credit was made (`pos/pos.service.ts:944`, 1040), and is compared
with the server's time of the withdrawal (`pos/pos-cashiers.service.ts:172`): what a till whose clock is ahead did shortly
before the withdrawal is refused, and what one whose clock is behind does after it may be accepted. Two edits of one cashier undo a withdrawal; the withdrawal that comes with the removal is stamped
before the row is deleted, so that a return in between is refused; a sale at a promotion that was switched
off later is reported as an anomaly (`pos/pos.service.ts:986`), although the comment there takes the
decisions of the office out. A change whose time stamp is older than the download and whose commit is
younger never reaches the till, against the comment at `pos/pos.service.ts:448`; a changed tax rate
changes no product's `updatedAt` and does not either. A till can serve a ticket that was cancelled
(`serveFromDevice` looks at `served` only). A ticket that is a day old to the tick is kept with its time and left off
the board (`pos/restaurant.service.ts:569`); two requests about tables can give two tables one name, and a save brings back
a table that was removed. Two categories moved at once can make a cycle, two tax rates
edited at once can both be the default.

*Repeated requests and accounting.* `catchError` of the idempotency interceptor also catches what fails
after the commit and frees the key, and after a stop the clean-up does: the operation is executed again. A
sale that a till made before the activation and uploads after it is in no entry, and what commits between
`activatedAt` and the snapshot is in two. An entry whose writer read the settings before a year was closed
may come into that year, and stays out of its closing entry. An error that a second run leaves behind for
what the first has posted, or of an opening balance that was edited back, never ends, and no year can be
closed (`accounting/year-end.service.ts:127`).

*Payroll and leaves.* A bonus whose `payoutDate` is edited after its payment is paid again by the next
payroll; one that is approved after the draft and paid directly is taken off although the draft never held
it; one that is rejected while in a draft is still paid. A settlement confirmed for a month whose payroll is
paid can be paid by neither way. No unique key keeps a month from being drafted twice, or a cycle from
being carried over twice. A decision on a leave does not look at the balance again; `setBalance` and the
carry-over write back what they read. After an anniversary a `FULL` settlement counts the days before it a
second time (`leave-balance.entity.ts:39`). Two advances asked for at once pass the limit together.

*Attendance.* On a day on which the clock changes the ranges of two shift days overlap or leave a gap,
against "every punch belongs to exactly one day" (`attendance/attendance-days.ts:18`). A punch that was
edited lets a second tap through; an edit that read the punch before it was linked saves it without its employee again
(`attendance/attendance.service.ts:335`, 379); a card that was read before its number was changed, or its employee
removed, brings the old number or the employee back and links nothing (`employees/employees.service.ts:348`); a linking that is
lost with the server is not repeated; no index makes a number unique.

*Devices.* Polls of one device that overlap send a command twice, and each of them once more than `MAX_COMMAND_ATTEMPTS`
(`attendance/adms.service.ts:243-297`): what was read before the last attempt was counted is sent. A line of
punches that cannot be read is skipped and the stamp moves past it (line 171), so the device does not send it again. A template that
is stored while copying is switched off survives it (`attendance/biometric-sync.service.ts:341`), as do all of them when the
server stops between the two statements of the switching off (`attendance/attendance-settings.controller.ts:62-63`); a
stop between storing and `spread`, or within it, leaves devices without the copy, and the template that comes again is no
change. A device that is saved while it uploads gets back the stamp it had, and sends again what is known.

*Company.* `POST /employees/onboard` adds a user to a company whose plan has no room for one, without any race: the guard
asks for `max_employees` only (`employees/employees.controller.ts:112`, `employees/employees-onboarding.service.ts:142-159`),
while `docs/modules/users.md:25` says that users are limited by `max_users`. Requests counted at the same time go over the plan
together, and a user who is reactivated is not counted again. A pending subscription keeps the end it had before; a renewal can be undone by a reader
that had found the row expired. A branch that is removed while something moves to it is brought back or left
with it, and a user whose only branch goes may see all (`branches/branches.service.ts:119`). Two scan
rounds can tell one condition twice, although the insertion is atomic
(`notifications/scanners/alert-states.service.ts:8`): the one deletes what the other inserted when the
condition ended and came back between their readings. A round that ends between `Raise` and `Tell`, because the server stops
or a statement fails, leaves rows that silence what nobody was told of until the condition ends; so does a notice that
had nobody to go to, because all who may receive it have muted it (`notifications/notifier.service.ts:73`): `notify` has
a result then, and the rows are not released. Events wait in memory and are lost with the server.

## Fairness

`PosSync`, `Idempotency` and `Posting` have liveness properties. The server goes on with a request it has
taken (weak fairness of the request's steps: a handler runs to its end unless it fails or the server
stops, which are bounded by `MaxFaults`); the screen sends as long as its queue holds something (every
30 seconds), and the clean-up runs every day (cron at 4:15). In `Idempotency` sending has strong
fairness per operation: a free request is a bound of the model, not of the code, and without it two
operations could keep the few requests busy for ever. In `Posting` the cron starts a run every minute
unless it finds the lock taken, a run that has started goes through its candidates, and the ten minutes
of an error pass; the forced run never has to start. The other modules promise only what no step may do, and have no
fairness: their steps are requests of people, devices and clocks, which the code cannot make happen.

## Proofs

TLAPS proves the following for any sets of warehouses, products, documents, operations, keys, devices, requests, agents,
tickets, cashiers, payrolls, debts, advances, leaves, companies and users (finite where sums are taken), any bounds and any number of faults:

- **`UnitSumsProofs`**: `Total` is an integer, adds what is added at one or at all points or at a new one, splits over
  a partition, is zero for zero, and natural and at least each of its terms where all are natural, from the cardinality theorems of the library; the rounded quotient
  stays between its ends and within its error.
- **`InventoryProofs`**. `TypeOK` is not inductive alone: that the average stays in `0..MaxCost` needs the weighted
  mean of two values of the range to stay in it. The ledger, the transit and the transfer invariants are inductive
  together with it: each action appends at most one row per balance, so what a transfer has moved changes by the
  row it appends. `StockIsAccounted` puts them together, as the run states them. `AverageKept` says that the average
  lies among the costs of the rows that brought goods in: `AverageInv` brackets it at every product, because
  the mean lies between the average before and a cost that the step appends to the ledger, and a row that brings
  nothing in leaves both alone. `ValueKept` says what a step changes: the quantity times the cost of its
  row, within the rounding. `CompanyViewHolds` shows that initial states and every step map to those of
  `CompanyStock`: what is on hand is a sum over warehouses, which a transfer leaves alone because the sum and the
  transit change by opposite amounts.
- **`InventoryProofs`, purchases**. What is kept on an invoice and what is computed from documents are related one invoice
  at a time: `BooksInv` says that `paidAmount` is the sum of the payments of the invoice, so that `PaidLess` never cuts
  anything off, that `returnedQuantity` is the sum of its posted returns and stays within what was bought, and that
  each step changes both sums of the debt by the same amount (`PayablesRight`, at any price).
  The goods need prices above nothing (`PurchasesRight`): a return must leave an amount, which takes that a share of a
  quantity at a price is never rounded away, for `Cancel` to see it (`CancelledInFull`); at a price of 0 it does not (run
  `FreeGoodsCancelled`).
- **`InventoryProofs`, statement by statement**. `DocumentsAtomic` is the refinement of `Inventory` by
  `StockTransactions`. `TxInv` says of a client what holds from one statement to the next: it holds the lock of each
  item that it has read or written, what it has read of that item is what is committed (`SeenSound`), what it has
  written is what the line comes to in the committed state (`LineSound`, by `DeltaNow` and `RowNow`), what it will
  add in transit is what its document says (`MoveSound`), and its document is still the one that the transfer's
  row asks for (`Doing`). Others can disturb none of this without one of the locks; so a commit is one document of
  `Inventory`, and every other statement leaves what is committed alone. `AccountedStatementByStatement` carries the
  ledger invariants over to the interleaved system.
- **`SalesProofs`**. `SalesInv` adds to the amounts that documents belong to issued invoices (`Documented`), that nothing
  was paid or returned before (`Untouched`), and that what an issuing request has checked still holds while it
  is alone (`CheckedWhileCalm`). `SalesAddUp` is what was paid, returned and owed; its sums over documents are
  written as `Total`s, which a step changes at one document. `IssueIsChecked` is an action property from the
  same invariant: the tender and the credit limit at the moment of issue.
- **`SalesProofs`, warehouses and branches**. `RemovalInv` says of each request what it has checked and is still true
  where nobody contended: a request that is about to remove a warehouse has found it empty and without transfers, one
  about to use it has found it active, and the two notice each other (`WarehousesLeftClean`). `BranchesInv` says of each request
  that what it is about to write fits the branches there ever were, and of one that is about to hide a branch that whatever belongs to it and is
  not moved came after the counting (`OnlyLate`): what is saved meanwhile is remembered in the step that saves it, and what is saved
  somewhere else is forgotten. So `NothingIsLeftBehind` needs no hypothesis about which requests overlap.
- **`InvoiceProofs`**. `ChainInv` strengthens the chain: only the holder of the advisory lock is past it, and what the
  holder has read is still the last entry when it commits, since nobody else can have committed. `DeliveryInv` says
  for each order how its status, its invoice and its money go together (`OrdersSound`), what of that a request
  that works in several transactions still relies on (`RequestsSound`), that an order without its invoice's
  counterpart is one request's alone (`OneAtWork`), and that a draft invoice has an order or a request that will
  deal with it (`DraftsHeld`). `DeliveriesLeaveNothing`, `DeliveriesPaid` and the action property
  `DriversKeepToTheirs` follow. *Couriers*: `CouriersInv` says that an agent who is gone, or whom a request is about to
  remove, has nothing that is neither settled nor cancelled and is named by no other request (`LeavesClean`), and that an
  order whose draft is being cancelled is held by that request alone (`CancelsHeld`), so that putting it back gives it to
  an agent who is still there. `AgentsLeaveWithNothing` needs nothing of clocks; that times are in order
  (`AgentsAreInOrder`) has `TillAhead = 0` as its hypothesis, which the run has too, and adds that nothing lies in
  the future (`TimesInv`).
- **`IdempotencyProofs`**. A key has one holder, the holder's key is reserved, and an operation that was applied more often
  than something failed late has its key kept with a response, or a holder about to keep it; so a second
  request finds the key. The clean-up may free a kept key only when the device has all answers (`Finished`).
- **`PostingProofs`**. `PostingInv` says that the entries of the opening balance are numbered without a gap, that no run has
  a number beyond the next one before it, and that what a run has before it is unposted as long as it is
  alone. So an opening entry is new when it is made, although its number was counted earlier, and a lone run only
  leaves an error for what is unposted (`EntriesAreOnce`). `BooksInv` follows the sum of the books: the opening entry
  made at the activation, what was posted of the opening balance, and what each posted event adds; when nothing is
  left to post this is the statement's balance, but for what the opening entry missed or counted twice (`BooksMatch`).
- **`PostingProofs`, payrolls**. `PayrollInv` follows each extra, each debt and each payslip (`ExtraSound`, `LoansFollow`,
  `NetHeld`). A direct payment at work is of a month of which no payroll is being paid or was paid (`DirectHeld`), and once it is made, a
  payroll that is being paid has found it (`PaidAhead`), so what an employee received for it is one unit. A
  month has one payroll but for drafts made at the same time (`OnePerMonth`). The installment that a payment has
  read is still due when it commits, and is the last exactly if it was read as such, because no other payment counts it
  meanwhile (`CountedIsDue`). The net of a paid slip needs that what was paid ahead only grows between the draft and the
  payment, since a net that was cut at nothing cannot be raised again. `PayrollsCorrect` is the invariant of the run. The history
  is noted where the second of two payments begins: noted where one ends, as in a first version of the model, it comes too late
  with three payrolls of which two count one loan.
- **`PostingProofs`, advances**. An advance that one request at most works on has the row that this request read, and what is
  about to be saved is one of three moves from it (`AsksFor`, `DecidesOn`, `HandsOver`; `AdvanceSound`); so money that was handed over
  stays owed. What is granted and the one advance under way stay within the highest salary (`GrantsWithin`). `AdvancesCorrect`
  is the invariant of the run; `AwardNeverFalls` says of every number of months what the run computes for eleven years.
- **`PostingProofs`, leaves**. `LeavesInv` says that the request under way is apart from the standing ones and is the only one,
  that a decision is about a request that stands (`RequestsApart`), that a balance that was never written from an old reading
  has what its year's settlements paid, as a sum over settlements which a settlement changes at one point (`BalanceSound`), and that a
  cycle that is being carried over has not been (`CyclesOnce`). That a balance starts no earlier than its anniversary takes
  that days and years grow together (`LeaveYearsGrow`). `LeavesCorrect` is the invariant of the run, for any length of the year.
- **`PosSyncProofs`**. `SyncInv` follows an upload from one statement to the next: what it is about to report is on the
  server (`Known`), and as long as uploads follow one another the figures that it has read are those of today and
  every closed shift is right but for the document just recorded (`WhileCalm`). An upload works on the
  earliest operation that is left, which exists because the numbers of operations are well-founded.
  `ShiftsCorrect` and `NothingDropped` are the two invariants of the run.
- **`PosSyncProofs`, kitchen and rights**. `KitchenInv` says of each row that a request is about to save that its times fit its
  status (`PendingSteps`), that a ticket in a queue has a time of its till, and that as long as requests about tables follow
  one another, the names that one has found free still are (`WhileQuiet`). `KitchenInOrder` is the invariant and the
  action property of the run. `RightsInv` relates today's rows to what a screen did: a right that was there when
  something was done is there still, or is withdrawn with a time no earlier than that by the server's clock (`WhileAlone`); an edit
  under way has taken its time already, which is why `Revoke` may be a statement of its own. The rows are judged with the till's time
  instead: where that refuses what the server's would accept, the withdrawal lies between the two (`Between`).
  `RightsOutliveTheirLoss` follows, for a till's clock as far off as one likes.
- **`CompanyProofs`**. *Sessions*: a login that is not excused still knows today's password, a session that is neither
  revoked nor excused was opened with it or is about to be revoked, and a request that renews a session is
  about its user even when the row is gone (`PasswordInv`); a token ends no later than its life after each of
  its rights was last had (`RightsOnLoan`). Both halves of `SessionsFollowAccount` follow (`SessionsFollow`).
  *Notifications*: a round holds rows only between its insertion and the notice (`HoldsWhileTelling`), so looking
  again or finding nothing lets go of none, and a step that ends a round notes the rows it held; what is noted of a row is never
  about a row that is gone and came back, since it goes with it (`SilencedWasTold`). *Terminals*: while no binding has stopped half way, two
  devices of one screen have a request between its claim and its release for that screen (`TwoOnlyBetween`); the
  release ends it, and no other statement binds (`OneTillPerScreen`).
  *Years*: `YearsInv` says, of every year of any calendar, what has been carried out of it (`CarriedRight`), that at most
  one closing entry of it stands and says the same (`StandingRight`), and that a closing that has read the balances
  still has them right (`ReadSound`), because whoever posts meanwhile comes late and is noted. That a reversed entry is
  marked makes the key of its reversal new; a writer's day is after the years that were closed when it read the
  settings, by the arithmetic of days and years (`DaysAndYears`). `YearsCloseRight` is the invariant of the run.
  *Plans*: each request that has passed the count took its place below a limit that the company has had, so the users
  (without those that came with employees, which only make the count larger) and
  the requests that have still to insert one exceed the largest limit by no more than the requests that were counted
  together (`WithinLimit`); what a reader saves as expired is a row the table may hold (`CompaniesSound`).

The assumptions are the named `ASSUME`s of the modules
that declare the constants (`InventoryAssumption`, `TransactionAssumption`, `SalesAssumption`, `ChainAssumption`,
`EntryAssumption`, `DeliveryAssumption`, `IdempotencyAssumption`, `KeyAssumption`, `NoneAssumption`, `NoRecordAssumption`,
`PostingAssumption`, `SyncAssumption`, `SessionsAssumption`, `NoticesAssumption`, `TerminalsAssumption`, `YearEndAssumption`,
`PurchasingAssumption`, `MainIsAWarehouse`, `CouriersAssumption`, `PlansAssumption`, `KitchenAssumption`,
`RightsAssumption`, `PayrollConstants`, `EntitlementConstants`, `LeaveConstants`): bounds are
numbers, sets that are summed over are finite, and what stands for "none" is none of the others. TLC evaluates them in
every run. Where a run checks a property on a part of its behaviours (`Goods`, `Shops`, `Documents`, `Delivery`, `Till`, `Office`), the
theorem is about the specification itself, whose steps the run takes.

Left to TLC:

- liveness (`QueueDrains`, `Answered`, `EverythingPosted`): the prover has no rule for fairness here;
- `NoDeadlock`, which does not hold (see above);
- what the code computes by recursion or by folding over a sequence: the uploads of `Stocktake`, the days of
  `AttendanceDays`;
- the properties of `Catalog`, `AttendanceDays`, `Punches` and `Devices`: each is a conjunction over several instances of which no two have the same
  constants, and their hard cases are races of two requests, which the runs show in full.

## Not modelled

- *Readings*: dashboard, reports, exports, payslips, boards and lists. They change nothing; where a property
  needs one (the statement of a customer, the report of a month, the kitchen's board) it is an operator.
- *Forms with single rows*: sales quotes, zones, modifiers, departments, files, resignations, contracts,
  profiles, the chart of accounts, platform quotations. Each is read, checked and saved alone, and the
  constraints of its row are the whole story. What a saved old row can undo is shown where it matters
  (`Branches`, `Entitlements`, `PosRights`).
- *Taxes and prices* of sales: sums of rounded lines, computed by one function; `Purchasing` has the one
  place where the rounding of parts must add up to the whole.
- *The pool of connections* (`config/database.config.ts:39`): which statement takes a connection of its own
  is a matter of the library, and a wait ends with an error after five seconds.
- *Support access* and the discovery of permissions at the start; mail and the live stream of notices; the
  JSON of the tax authority. They have no state that another part reads.
- *Postings of the other kinds of documents* (purchases, returns, expenses, payroll): they pass through the
  same candidates, keys and errors as those of `Posting`, with other accounts in their lines.
- *Devices*: a device sends its templates one upload after the other, and waits for each answer; numbers that no employee has (their
  templates are kept and copied nowhere).
- *`expectedUpdatedAt`* of a save of a stocktake may be left out by a client; `Stocktake` has the screen that sends it.
- *Across parts*: a sale's stock, money, chain and posting are checked each by its own module. They are
  joined by the transaction of the sale, which is one in each of them.

Next would be the proof of `SavedOnce` of `Punches`; an
abstract `Books` that `Posting` implements; and payments of a till's order in parts in `Delivery`.
