# Verification of the Persian exchange ledger

TLA+ models of the ledger program in `src/` (Django, about 8,100 lines of Python): the
documents and balances of a currency exchange, the weighted-average inventory, the
transactions that several users run at once, the reports made from the tables, the bots that
answer customers, and the desktop program around it with its copies. TLC checks the models on small
instances; TLAPS proves the main properties for every instance.

1. [The system](#1-the-system)
2. [Modules](#2-modules)
3. [From code to model](#3-from-code-to-model)
4. [Runs: what TLC checks](#4-runs-what-tlc-checks)
5. [Proofs](#5-proofs)
6. [Findings](#6-findings)
7. [Not modelled](#7-not-modelled)
8. [Plan](#8-plan)

## 1. The system

A *document* (`Voucher`) is a set of *lines* (`Entry`): party, currency, signed amount.
In each currency the lines of a document sum to zero. Customers, banks, cash boxes,
the exchange's own position in each currency, categories and equity are all rows of
`Party`. No balance is stored: each is a sum of lines. The one stored running total
is `InventoryPosition` (quantity and weighted-average cost of a currency).

| Component | State it keeps | Operations | What makes it correct |
|---|---|---|---|
| Document engine, `ledger/services.py` | `Voucher`, `Entry`, `Deal`, `Sequence` | post deal / cash / transfer / expense / income / opening, void, delete | balanced lines; numbers without repeats; a void and its reversal are one pair; a key is used once |
| Inventory, `ledger/services.py:333-399` | `InventoryPosition` | apply a deal, take it back | quantity = standing deals; profit adds up to the cash; taking back restores |
| Balances, `ledger/balances.py` | none (queries) | balance, dated statement, summaries, net worth, totals | follow the documents in effect; agree with each other |
| Pages, `ledger/views.py`, `forms.py` | none | one form per kind of document, void, delete, edit | offer only what the service may take; an edit gives back what it took |
| Settlements, `ledger/forms.py`, `views.py:453` | `InvoiceSettlement`, `InvoiceDelivery` | allocate part of a payment to a deal | neither is exceeded, while others void and delete |
| Maintenance, `maintenance/` | database file, copies | reset, backup, prune, restore | nothing half reset; a copy to return to |
| Parties and rates, `core/` | `Party`, `Currency`, `FxRate`, sources | edit, fetch, latest rate | inactive parties rest; one base currency; the rate in force at a moment |
| Import, `import_sheet.py` | none | opening balances from a workbook | can be run again |
| Bots, `bots/` | `BotConfig`, `BotMessage`, offset | poll, webhook, reply | each message answered once, to its own party |
| Launcher, `launcher.py` | data directory, process | first run, migrate, serve, back up on exit | a crash during the first run is recoverable |
| Accounts, `accounts/`, `setup_sarrafi.py` | `User`, `Role`, `Permission`, `AuditLog` | login, roles, audit | permission checks; set-up keeps choices |
| Reports, `reports/` | none (queries) | profit, daily, trial balance, exports | count the documents that are in force |

*Interaction.* A page validates a form and calls one service in a thread of the
waitress server; the service is one database transaction (`@transaction.atomic`;
`ATOMIC_REQUESTS` is off, `config/settings.py`). `void_voucher` and `delete_voucher` call
`_reverse_inventory`; `void_voucher` posts the reversal through `post_voucher`, like every
other operation. The import posts several documents in one transaction. The reset
bypasses the services and deletes rows in bulk. Bots and reports only read the ledger. The
launcher runs `migrate`, `setup_sarrafi` and the server in one process and copies the database
file when it starts and ends; restore copies over that file while the server runs.

*What is hard.* Waitress runs several threads and PostgreSQL runs at READ COMMITTED:
checks and writes of different requests interleave, and only row locks
(`select_for_update` on `Voucher`, `InventoryPosition`, `Sequence`) and unique
constraints (`number`, `external_key`, `reverses`) keep them apart. A request can
die between two statements. Corrections (void, void of a reversal, delete, reset)
compose into histories nobody wrote a test for, and the weighted average depends on their
order. On the desktop the database is SQLite, which runs one writing transaction at a
time: there the model's interleavings are a superset of what happens. But there the database is also a
file: it is copied, replaced and looked for by a program that may be started twice, and that can die
in the middle of a copy.

`PROJECT.json` lists the hazards at their lines, with the properties that cover each.

## 2. Modules

| Module | What it is |
|---|---|
| `InventoryCost` | pure arithmetic of `_apply_inventory` and `_reverse_inventory` |
| `DataLemmas` | sums over finite sets, least elements, sequences, the arithmetic of the average: what the proofs share |
| `InventoryHistory` | one currency under a history of deals, voids and deletions |
| `InventoryHistoryProofs` | when taking back a deal restores the position; what orderly histories book and leave behind |
| `Ledger` | every service call as one step over the tables |
| `LedgerBalances` | balances and the properties that sum lines or read the audit log |
| `Statements` | the queries and reports over those tables, the history of rates, the edit form |
| `DocumentRegister` | abstract: what numbered documents promise |
| `LedgerRegister` | the mapping from `Ledger` to `DocumentRegister` |
| `LedgerProofs` | invariants and refinement of `Ledger`; sums, trail and inactive parties |
| `StatementsProofs` | statements, net worth, profit and the edit form agree with the documents |
| `Posting` | the transactions behind `Ledger`, statement by statement, with locks and crashes |
| `Allocation` | settlements and deliveries against concurrent voids and deletions |
| `Bot` | Telegram pollers and the WhatsApp webhook, save by save, with lost replies and crashes |
| `Desk` | abstract: a desk that enters, answers and puts away questions |
| `BotDesk` | the mapping from `Bot` to `Desk` |
| `Installation` | what is inside a database file, and what `migrate` and `setup_sarrafi` make of it |
| `Desktop` | starts, copies, reset and restore over that file, with two programs and crashes |
| `PostingProofs`, `AllocationProofs`, `BotProofs`, `DesktopProofs` | inductive invariants of these four, and the refinements of `Posting` and `Bot` |
| `MCLedger`, `MCPosting`, `MCAllocation`, `MCBot`, `MCDesktop` | instances for TLC |

`MCLedger` composes `Statements` (over `LedgerBalances` over `Ledger`) with `LedgerRegister`. `Desktop`
composes `Installation` with the files and sees the documents as one number, the last commit.

`Ledger` takes each service call as atomic. `Posting` is why that is right: its commits
are steps of the same `DocumentRegister` that `Ledger` implements (both mappings are checked),
and its stock follows its documents as in `Ledger`. Where it is *not* right, the reset, the
run `posting_race` shows it. One thing is left out on both levels: a service asks the party object its form has loaded, so
a party made inactive while the request runs is still accepted.

Definitions named *Variant for mutation* are not part of the models: each is a plausible bug
of the definition after it, and shows that a property can fail.

## 3. From code to model

`PROJECT.json` maps each definition to its lines. The main choices:

**Ledger.** `voucher` maps primary keys to rows; a row carries its lines and its deal.
A row has status `final` or `void`; `DRAFT` exists only inside `post_voucher`'s transaction.
`nextId` is the key generator, `sequence` is `Sequence.value`; `reverses = 0` is null. A
`LedgerError` leaves the tables alone, so its condition is a guard. A guard is on an
action whether the service checks it (`post_deal`, `post_cash_movement`, ...) or only the
form does (active accounts of a transfer, kinds of parties). `ImportOpeningBalance` has no
active check: the command finds the customer by name. `DataReset` is enabled only when no
reversal exists, because `Voucher.reverses` is `PROTECT` and the bulk delete raises otherwise.
`Customers`, `HouseAccounts`, `Transferable` and `CanPay` are what the lists and `clean` methods of the forms
let through. The price of a deal is given; computing it from a rounded total is left out.
Deleting customers and rates along with the documents is an option of the reset that
is left out. Amounts count whole units; `Quantities`, `Prices` and `Amounts` are sets of
positive numbers. The audit log keeps the action and the object: primary keys for
POST and VOID, the *number* for DELETE, as the code writes them.

**Statements.** No variable: queries change nothing. No operation reads the date of a document or a rate, so
neither is part of the state; a property quantifies over them instead: `Datings` are all choices of
dates in which a reversal bears the date of its original (`void_voucher` passes it on), `RateMaps` what
`latest_rate_map` returns after a rate was typed in, fetched, both or neither. A statement is its opening balances, its lines with
the running balance, newest first, and its closing balances. `EditForm` is what `voucher_edit` puts into the
address of the form, `Resubmitted` the lines the form's service then writes; the deletion in between is
`DeleteVoucher`. A row of a statement is a document and a line number; its running balance is the sum of the rows that
do not come after it, which is what adding up in the order of the query makes of it.

**InventoryCost.** Prices and averages count units of 10^-8, so a division rounds when the
row is saved. The models round half to even (what `Decimal` does on SQLite);
PostgreSQL rounds half away from zero. The two differ only in exact ties, and no
property depends on them: `orderly` in `InventoryHistory` requires that nothing was
rounded, and `NetWorthExplained` grants a rounded purchase half a unit of 10^-8 either way, for each unit in stock.

**Posting.** One action per statement that takes a lock, reads shared rows or writes. A
transaction's writes stay in its record `tx[w]` until `Commit`; `held` is its
locks. A statement that has to wait is not enabled (`Granted`). `Fail` is what the code
raises, `Crash` the loss of the process, `Abort` the deadlock detector. Primary keys are not
given back on rollback, numbers are (the counter is an ordinary row). Reading another
transaction's row that is being deleted counts its key as taken: the insert is
refused rather than kept waiting, the outcome of asking a moment earlier.

**Allocation.** The two tables have the same rules, so they are one relation from *obligations*
(open legs of deals) to payments. `remaining_amount` is computed from the whole price and ignores a
leg settled at once, but such a deal is refused by `SettlementForm.clean`: it has no
obligation. The documents are posted at the start; requests allocate, void and delete.

**Bot.** There is no transaction around `handle_incoming`: each save is an action, and the reads
before a save are one (`Read`), since the unique constraint decides at the save whether they were
current. A reply is its kind, its customer and `notListed`, whether its text contains the words
«ثبت نشده», because `process_update` looks for them. `history` is `BotMessage`; `delivered` is what
reached the customer and `interrupted` the messages whose handling failed, neither of which the
program knows. Telegram is external: it numbers updates upwards, forgets those below the offset
it is asked for and returns the rest. `SaveSettings` writes `last_update_id` back because `form.save()`
writes every column. `Fail` is an exception that `tick` or the webhook swallows; one that leaves
`tick` has the effect of `Crash`. A failing poll changes nothing and is no action. An inactive customer
is one without an address. A webhook payload with several messages is handled one after the
other, as that many requests would be.

**Desk.** The book is `BotMessage`: a question is `entered` by its incoming row, a reply `written` by an outgoing
one, `noted` by one with status `failed`. `dropped` is `interrupted`. What Telegram has forgotten is put `away`.

**Installation, Desktop.** A file is absent, damaged (SQLite rejects it: cut short, or being written at this
moment) or has contents: the version of its tables, the last commit, whether there is an administrator, what each role
holds, whether the base currency still has the code IRR. A file of no length is a database without tables,
and `PRAGMA integrity_check` accepts it. `taken`, `vacant` and `origin` are history for the properties, `promised`,
`saved` and `accidents` as well. Each access to the file or to the backup directory is an action: `Look` reads whether the file is
there, `Migrate` makes it, `PrepareDatabase` acts on what `Look` read. A copy over the database takes two actions, since others
read the file meanwhile; a backup takes one, as SQLite's own backup reads a snapshot; a plain copy
that fails leaves what it had written. The name of a backup is its label and the second: `Tick` advances the clock
only when it makes a difference. `Event` counts requests and faults together (see bounds). A *download* is a
manual copy with another label. `user_edit`, which could deactivate the only administrator, is not there.

## 4. Runs: what TLC checks

| Run | Question | Bounds | States |
|---|---|---|---|
| `ledger` | Do numbers, pairs, keys, balances and stock survive every order of posting, voiding, voiding a reversal and deleting? Is the ledger a document register? Does every statement follow the documents in effect, and do the profit and net-worth reports tell the same? | 5 parties, 2 currencies, 3 documents, 2 prices, no reset, 2 days, 2 rates | 23,352 |
| `ledger_parties` | Does any operation touch an inactive account? Do the reports agree when one is inactive? What does an edit lose? Does the audit trail explain every number, across a reset too? | 10 parties (two customers, two banks), 1 inactive, 2 documents, 1 price, 1 reset, 2 days, 2 rates | 85,582 |
| `inventory` | Is profit booked exactly once, and do corrections in reverse order restore the position? | quantities 1-2, prices 6 and 12, 4 deals | 2,344,917 |
| `posting` | Do locks and constraints make each request atomic, with crashes? | 2 threads, 4 requests, imports of 1 and 2 keys | 1,310,136 |
| `posting_live` | Does every transaction end, and who can deadlock? | 2 threads, 3 requests, 1 a reset | 73,241 |
| `allocation` | Can concurrent requests over-settle an invoice or spend a payment twice? | 2 threads, 4 requests, 2 deals, 3 payments | 314,318 |
| `bot` | Is every question taken, answered at most once and kept in the history? Are all workers together one desk? | 2 pollers, 1 webhook thread, 2 arrivals, 1 disturbance | 1,076,585 |
| `desktop` | Can what was reset or replaced be restored? Is there an administrator, a readable file, the old work, a current copy after any start, end or crash? | 2 programs, 2 threads, 2 starts, 2 versions, 2 requests or faults, 1 commit, 2 seconds, 1 automatic copy kept | 2,979,382 |
| `ledger_void`, `profit_report`, `posting_race`, `bot_username` | Claims of the documentation that the code does not keep: see [Findings](#6-findings) | as the run beside each | violated |

*Why the bounds are enough.* Three documents hold an original, its reversal and the
reversal's reversal; a document and a pair; or an import key taken, voided and asked for again.
`Quantities = {1}` suffices in `ledger`, since the average is `inventory`'s question, and the prices 2 and 5 make
a profit, a loss, an average that is rounded and ones that are not; in `inventory`, four
deals cover a purchase into stock, a sale that empties it, a short sale and a purchase that
ends it, in every order with corrections, and the prices make averages that round and averages
that do not. Two threads meet in every pair of transactions; with four requests a
third and a fourth start on what two left behind, which every race in `Posting` needs (a key
committed, a document voided, a crash in between). In `Allocation` the receipt is too small for
both sales, and it and the transfer together are too large for one, so each limit is reached from both sides.
In `bot` two updates make a batch in which one fails and the other does not, or two polls of which the slower
puts the offset back; a webhook message arrives twice. One disturbance is a crash, a failing statement, an edited
customer, a new document or rate, or a settings page open while pollers work. Sends may fail any
number of times.

In `desktop` two starts are a first one and a later one, or two at once, with an upgrade between or not; two requests
or faults are a restore and a failing copy, two restores at once, a reset and a restore, or a start and
its crash. One commit tells what was saved from what was not; with `Keep` 1 the second automatic copy
already makes the first one go. In `ledger` two days put a document, its reversal and a third one
before, in and after a period. A reset is left to `ledger_parties`: the ledger then starts again with the counter at zero, old keys
and a longer log, which two documents, one before and one after it, show.

`CHECK_DEADLOCK FALSE` is in every configuration because each has a bound on requests or
documents after which nothing is left to do.

*Symmetry.* Customers in `ledger_parties`, threads in `allocation`, programs and threads in `desktop` are interchangeable and those
runs check safety only.

*Fairness.* `posting_live` assumes strong fairness of `Statement(w)` for each
worker. A thread that can go on does, and a lock that is released again and again is in the
end granted to those who wait (PostgreSQL queues them). Nothing is assumed of `Request` and
`Crash`: users may stop, processes need not die. `TransactionsEnd` relies on the deadlock
detector; `OnlyImportsDeadlock` says it is never needed between requests of the web, because they
take document, stock and counter in this order. Imports can deadlock: a sheet with
several currencies holds the counter from its first document on and then takes further keys.
`bot` assumes weak fairness of `Step(p)` for each poller: `run_forever` catches every exception and goes
round until the program ends, and a poll succeeds in the end. A crashed poller starts
again, as the desktop program does at its next start. Nothing is assumed of customers, the
webhook or the office; `EveryQuestionSettled` asks only that the bot stays switched on.

*Properties worth reading first:* `BalancesFollowEffect` (a balance is the sum of documents in
effect, through voids of voids), `VoidIffReversed`, `NumbersAccountedFor` (every number is a
document or one logged deletion), `ProfitBooked` (cash plus stock at cost is the booked profit),
`StockFollowsDocuments`, `PaymentNotExceeded`, `NothingSkipped` (no offset, even one put back, passes a question without a trace),
`NetWorthExplained` (net worth, summed from lines, is what was brought in plus booked and unrealized profit, computed from deals and
average costs, but for what those were rounded by), `StatementsFollowEffect` (a void corrects the past period it belongs to), `WayBack` and
`AutomaticCopyStands` (a copy of what matters exists through every interleaving of copies, pruning and crashes). The properties of
`Desktop` name in `accidents` exactly what breaks them, and TLC reaches each of those.

## 5. Proofs

All proofs are checked by TLAPS 1.4.5 with Z3, Zenon and LS4, for all values of the constants
that satisfy the named assumptions of the modules: any number of threads, pollers, programs and bounds, any sets of
parties, currencies, amounts and keys, finite or not. Only `StatementsProofs` asks that parties and currencies be finite
(`TablesAssumption`: both are tables), because a net worth adds up over all of them. Each component has one inductive
invariant, `IInv`, a lemma for each action and `Invariance == Spec => []IInv`; `Statements` shares that of `Ledger`.
Sums are treated in `DataLemmas`: the library's induction theorems take an operator as a parameter, which
the provers cannot instantiate, so induction over a finite set is an argument about a smallest counterexample
(`WFMin`, which needs no such parameter), and what the proofs need of sums (one element more or less, equal and reindexed
functions, differences, sums in groups, the exchange of two sums) follows from it.

**`Ledger`** (`LedgerProofs`). `VoidIffReversed` is not inductive: that a reversal
negates its original line by line needs the types of the rows, that both are still
there needs the guards of deletion, and that its number is larger needs numbers
to be at most `sequence`. `IInv` is the conjunction of `TypeOK`, `NumbersUnique`,
`VoidIffReversed` and `KeysUnique`. Each operation is `PostVoucher` with particular lines, so one
lemma (`PostVoucherEffect`, `PostKeepsIInv`) serves all of them; void, delete and reset have their own.
From it `TypeCorrect`, `NumbersAreUnique`, `VoidsArePaired`, `KeysAreUnique`, and:

* `OperationsBalance`: the lines that the operations write sum to zero in every currency whatever
  parties and amounts are given. So `_assert_balanced` never refuses one of them.
* `ReversalsNet`: in every reachable state a reversal and its original sum to zero on every account.
* `Refinement`: every step maps to a step of `DocumentRegister` or to a stutter. `DocumentNumbered` chooses a row
  by number, which is meaningful because numbers are unique.

**Sums over the ledger** (`LedgerProofs`).

* `BalancesFollow`: the set of documents in effect is a choice of a set in which a document is exactly if its
  reversal is not. The proof first shows that such a set exists: a reversal has a higher number than its original, so a
  closed set of documents loses nothing but its document with the lowest number, and induction on subsets
  applies. Then a document and its reversal can be taken out of both sums together.
* `InventoryFollows`: each operation changes the stored quantity and the sum of the standing deals by the same
  amount; a void moves its deal out of the standing ones, and a reversal carries no deal.
* `InactiveRest`: an action property. The parties of the one new row of a step are traced to the guards of its action.
* `NumbersAccounted`: not inductive as it stands. `TrailInv` adds that the log knows nothing of a number
  or a primary key not yet issued; without it, a first posting could be the second one on record.

**`Statements`** (`StatementsProofs`). Two more invariants stand on `IInv`: `RowsFormed`, that every document
balances and has the lines its kind of operation writes, and `BooksClose`.

* `StatementsFollow`: a running balance is the opening and a sum over the lines up to one; grouped by document it is a sum over
  documents, those before the period and those in it are those up to a day, and `BalancesFollow`'s argument, now for a set of documents
  that with a document contains its reversal, which has its date, takes the pairs out.
* `EditFormsRestore`: from the shape of the lines (`RowsFormed`), which part of them each field of the form finds again.
* `NetWorthIsMirrored`: documents balance, so the sum over all accounts is zero in each currency (documents and accounts change places in a
  double sum) and the internal accounts carry the rest with the sign turned; values at a rate follow, since they are linear, and
  so do debit and credit of a period.
* `BooksAlwaysClose`: while nothing was corrected or sold short, the stock is what its deals left, and its value at average cost is what
  they cost less the cost of what was sold, up to half a unit for each unit in stock at every purchase that rounds. A sale changes
  nothing (its profit is booked at the average it leaves); a purchase adds what one rounding may lose (`RoundHalfEvenNearest`). That deals
  carry what `_apply_inventory` returned, in the order of their keys, is what ties the stored position to the rows.
* `NetWorthIsExplained`: deals bring the house and its customers their stock and the receipts, other documents the rest; so the net
  worth less what was brought in, less both profits, is what the books are off, summed over currencies, and that is bounded by
  `BooksAlwaysClose`. That a period's profit is that of its days holds with corrections and short sales too.

**`InventoryHistory`** (`InventoryHistoryProofs`). `SaleFromStockUndone`, `PurchaseIntoStockUndone`: taking back the latest
deal restores quantity and average for all quantities and prices, when the sale was
from stock, and when the purchase added to stock and the average did not round. Without the
conditions it is false: a first, short sale taken back leaves its price as the average of an empty
stock, although the docstring of `_reverse_inventory` (`services.py:372`) calls it exact. Of whole histories, `IInv` says that in an
orderly one each standing deal was booked on the position the earlier ones made (`Made`, a recursive function over the
number of deals), that this position is sound (no short stock, an empty one without cost), and that it is the stored one. From it
`ProfitIsBooked` and `CorrectionsLeaveNoTrace`, for any number of deals. What `Made` is for another history is a fact about
its recursion: the proofs name the sequence of positions (`Chain`) and show by least counterexample that two chains over
the same standing deals agree.

**`Posting`** (`PostingProofs`). `IInv` says of each transaction which statements its kind goes through (`Progress`), which
locks each of them finds held (`LocksTaken`), and what it has read under a lock and relies on: the rows it adds
have a number and a key nobody else can have (`RowsAdded`), the document it voids or deletes is still final and not reversed
(`TargetLocked`, `RemovedLocked`), the stock it will write is the committed one and its own part (`StockRead`),
the counter runs on without a gap (`Counted`). `Exclusive` says that no lock is held twice and no primary key
given out twice; that carries the first group from one transaction's step to all others.

* `TypeCorrect`, `NumbersAreUnique`, `KeysAreUnique` hold with resets too.
* `StockFollows` is `Spec => [](NoReset => StockFollowsDocuments)`: as long as no reset was requested. A reset sets the
  stock to zero after deleting the documents it saw, and a deal committed in between is in no sum
  (the race of Finding 3). The run that checks the property allows no reset, and the theorem says where that matters.
* `DeadlocksAreImports`: locks are taken in the order document, key or stock, counter; each worker of a circle waits for
  a lock that comes later than all it holds, unless it imports several keys, which holds the counter and wants a key.
* `Refinement` assumes `MaxResets = 0` for the same reason: after the race a reset is no `Clear` of the register.

**`Allocation`** (`AllocationProofs`). The totals are not inductive: a commit adds to a sum that was read earlier.
`IInv` adds that no document is locked twice (`LocksExclusive`) and that what a request decided still holds when it commits
(`DecisionsStand`), which any other request's commit keeps because it would need one of the locks.
It states the totals of deleted documents too, so that deletion need not be a case of its own. From it
`InvoicesNotExceeded`, `PaymentsNotExceeded`, `AllocationsAlwaysStand`, `TypeCorrect`.

**`Bot`** (`BotProofs`). The invariant introduces who *owns* a message: the worker that saved its row and is not done. At
most one does (`OneHolder`, from the unique constraint on the message number), an owned message was not answered yet and has exactly the rows its owner
has written (`Holding`), a saved question is settled or owned (`InHand`), and a poller passes only updates that are done or in
its batch (`Passing`, `Offsets`, with the offset an open settings page will write back). From it `OnceAnswered`,
`NothingIsSkipped`, `SilenceIsExplained`, `TypeCorrect`, and `Refinement`: every step of the pollers, the webhook, crashes,
customers and the office is a step of `Desk` or a stutter.

**`Desktop`** (`DesktopProofs`). All eight properties, for any numbers of programs, threads, versions and copies
kept. The argument follows a file from place to place. A later state of an installation (`Heir`: migration, set-up,
a request) keeps its administrator, its origin, what was taken and what arrived; so what is
true of the database is true of each copy (`Sound`, `Lineage`), and what is true of each copy is true after a restore.
`Written` says that nobody reads the file while it is written; `Manned` and `Descent` who is about to finish a
first start; `SafetyCopies` and `Chosen` what a reset or restore has assured itself of and may still rely on two
statements later, with the accidents that end it; `Clock` that no name in the backup directory is newer than now, so that retention, which removes the
oldest, never removes the copy just made. `Ready` says that a set-up once gone through stays so.
`DesktopAssumption` asks that at least one copy is kept (`AUTO_BACKUP_KEEP` is 10, `backups.py:24`): with none, `AutomaticCopyStands` is false.

**Only model-checked.**

* `TransactionsEnd` and `EveryQuestionSettled`: liveness under fairness is out of the prover's reach.
* The four claims of section 6, of course, which are false.

Every invariant and action property of a passing run is stated by a theorem.

## 6. Findings

Checked by a run:

1. **A void can be undone by halves** (`ledger_void`). `balances.py:7-9` says a voided document
   and its reversal cancel. `void_voucher` accepts a reversal too (and the page
   offers it): the amounts of the original come back, its status stays VOID, its inventory
   does not come back.
2. **Voided sales stay in the profit reports** (`profit_report`). `docs/user-guide.md:122` says
   the financial effect of a reversed document is cancelled; the reports and the dashboard exclude only
   drafts.
3. **Reset and posting race** (`posting_race`). A posting that commits between the reset's deletes and its
   update of the counter keeps a number above zero. When the counter gets there, the unique constraint
   refuses every further posting. PostgreSQL only.
4. **Registered by user name, told otherwise** (`bot_username`). `worker.py:95-97` accepts user names. The poller
   recognises a stranger by the words «ثبت نشده» in the reply, and the statement of a customer
   without transactions, or a balance in a currency without a rate, contains them too
   (`bots/services.py:132`, `:119`): the right reply is recorded and the stranger's is sent.

Seen while reading, visible in the models as guards:

5. `data_reset` fails with `ProtectedError` as soon as one document was voided (`DataReset`'s guard),
   though its docstring says it clears all documents.
6. `delete_voucher` tells the user to delete the reversal first (`services.py:705`) and refuses to delete
   a reversal (`:707-711`).
7. The README and the user guide say posted documents are never deleted; `delete_voucher`, the edit
   page (on a GET) and the reset delete them, as getting-started.txt announces.
8. A payment that was allocated cannot be deleted (`PROTECT`), and the page does not catch that error.
9. A WhatsApp reply that could not be sent stays in the history as sent (`bots/views.py:176`); the poller records the
   failure. After a crash between record and send this is so for Telegram as well, and the
   redelivered question is taken for a duplicate.
10. README.md:111 says that the bot is not built.
11. Editing deletes the document first. A deal that was settled or delivered at once comes back on the customer's
    account (`EditRestores` says exactly when); a document of another kind has no form and is gone.
12. The profit report values today's stock at today's rate whatever period is asked for (`reports/views.py:272`), though
    `core/models.py:180-186` says of rates that a past report shows the same numbers later. After a short
    sale the stock has no cost and its unrealized profit is wrong, which `NetWorthExplained` excludes.
13. The cash of an account made inactive leaves the list on the dashboard and the report on banks but stays in the bar on
    top and in the net worth (`NetWorthMirrored`).
14. A start that dies after `migrate` made the file and before the administrator is there leaves an installation
    that never gets one: the next start takes the other branch (`launcher.py:217`).
15. A backup that was cut short is an empty file that passes the check of `restore_backup`, and it counts as an
    automatic copy. Two resets or restores in one second share one safety copy (`backups.py:71`).
16. Renaming the code of the base currency makes every later `setup_sarrafi` fail, silently
    (`setup_sarrafi.py:88`, `launcher.py:343`): permissions of a new version never arrive.
17. Two programs started for the first time together: one copies the old database over what the other has already set up
    (`launcher.py:82-96`), and the second one's automatic copy may hold no administrator.

## 7. Not modelled

Parsing and formatting of numbers and Jalali dates, templates, file formats of exports, settings and
deployment (text and presentation); reading the workbook of the import; attachments; permission checks of single
pages, users and logins; rates locked on lines; a change of kind or currency of a party, new
currencies, settings of rate sources. Ports, windows and logs of the launcher. Concurrent edits in
Django's admin, where `Deal`, `InventoryPosition` and `Sequence` rows can be changed by hand: nothing holds against
them. A new bot token under an old offset, and the failing WhatsApp reply of 9, are listed as hazards without a
property, because the code has no rule for them.

## 8. Plan

In order of importance; done items first.

1. Done: `Ledger` with `LedgerBalances`, `Statements` and its register; `InventoryCost`,
   `InventoryHistory`; `Posting`; `Allocation`; `Bot` as a `Desk`; `Installation` and `Desktop`.
2. Done: proofs of every safety property of the runs, and of the refinements of `Ledger`, `Posting` and `Bot`.
3. Open: a bound like that of `NetWorthExplained` for histories with corrections, which are rounded once more when a purchase is taken
   back; a change of a party's kind or currency; single users and their permissions.
